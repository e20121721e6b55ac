CONSTANTS
    Versions <- MCVersions
    Timestamps <- MCTimestamps
    Schema = "schema"
    Extra = {"seed"}
    ChangeOnly = {"seed"}
    SchemaBatch = "schema"
    Batches <- MCBatches
    Kept = {}
    NoTarget = NoTarget
    Labels <- MCLabels
    Content <- MCContent
    Cypher = Cypher
    AllowedCommands = {"seed"}
    HasDropFile = TRUE
    Unset = Unset
    MaxFiles = 3
    MaxSnaps = 1
    MaxBroken = 2
SPECIFICATION Spec
CONSTRAINT Small
CHECK_DEADLOCK FALSE
INVARIANTS TypeOK ModelIsExact
PROPERTIES Implements
