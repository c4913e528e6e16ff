CONSTANTS
    Langs = {"javascript", "typescript", "css"}
    MaxRegions = 3
    MaxLength = 1
SPECIFICATION Spec
INVARIANTS
    IdsUnique
    ExtraScriptsDistinct
    CapabilitiesOnce
    MergedMappingsInSlice
CHECK_DEADLOCK FALSE
