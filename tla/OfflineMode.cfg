CONSTANTS
    Values = {"unset", "true", "false"}
    MaxInstances = 3
    MaxWrites = 2
    MaxPrompts = 2
SPECIFICATION Spec
PROPERTY Refines
