CONSTANTS
    Versions <- MCVersions
    Timestamps = {1, 2}
    Schema = "schema"
    Extra = {"seed"}
    ChangeOnly = {"seed"}
    SchemaBatch = "schema"
    Batches <- MCBatches
    Kept = {2}
    NoTarget = NoTarget
    DirNames <- MCDirNames
    Rank <- MCRank
    VNames = {"v1", "v1.0", "v2"}
    Names <- MCNames
    SnapFiles <- MCSnapFiles
    Wanted <- MCWanted
    KeptDirs = {"v2"}
    MaxEntries = 3
SPECIFICATION Spec
INVARIANTS AcceptanceExact ResultExact
PROPERTIES GeneratedScans
