CONSTANTS
    i1 = i1
    i2 = i2
    v1 = v1
    Imports = {i1, i2}
    Viewers = {v1}
    Main = Main
    Free = Free
    NoCmd = NoCmd
    Names = {"cypher-shell", "script"}
    MaxSteps = 2
    NamesOf <- MCNamesOf
    Faults = {"startCmd", "restart", "plan", "interrupt"}
SPECIFICATION FairSpec
CHECK_DEADLOCK FALSE
INVARIANTS TypeOK RunningIsListed EntryHasCleaner LeakNeedsFault StopAllInterrupts OrphansAreLate
PROPERTIES StatusAnswered ShutdownEndsUnlessLeaked
