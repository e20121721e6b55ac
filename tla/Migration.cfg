CONSTANTS
    Versions <- MCVersions
    Timestamps <- MCTimestamps
    Schema = "schema"
    Extra = {"seed"}
    ChangeOnly = {"seed"}
    SchemaBatch = "schema"
    Batches <- MCBatches
    Kept = {2}
    NoTarget = NoTarget
    MaxFiles = 3
    MaxSnaps = 1
    MaxTotal = 4
SPECIFICATION Spec
CONSTRAINT Small
CHECK_DEADLOCK FALSE
INVARIANTS TypeOK LedgerExact SnapshotEquivalent
PROPERTIES GapsHaveCauses TargetReached RunsOnce RunsInOrder StaysInScope
