CONSTANTS
    Workspaces = {"ws1", "ws2"}
    Profiles = {"p1", "p2"}
    MaxLegacy = 2
SPECIFICATION Spec
PROPERTY MigrationKeepsAssociations
