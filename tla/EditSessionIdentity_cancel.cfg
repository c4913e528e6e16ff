CONSTANTS
    MaxRequests = 2
    PublishOutcomes = {"upstream", "none"}
SPECIFICATION Spec
PROPERTY NoPublishAfterCancel
CHECK_DEADLOCK FALSE
