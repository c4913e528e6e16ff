CONSTANTS
    MaxRequests = 2
    PublishOutcomes = {"upstream", "none"}
SPECIFICATION Spec
INVARIANTS
    IdentityAfterSync
    MatchRecognisesClones
PROPERTY CancelledAnswered
CHECK_DEADLOCK FALSE
