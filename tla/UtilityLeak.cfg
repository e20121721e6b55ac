CONSTANTS
    i1 = i1
    i2 = i2
    v1 = v1
    Imports = {i1}
    Viewers = {}
    Main = Main
    Free = Free
    NoCmd = NoCmd
    Names = {"cypher-shell", "script"}
    MaxSteps = 2
    NamesOf <- MCNamesOf
    Faults = {"startCmd", "interrupt"}
SPECIFICATION FairSpec
CHECK_DEADLOCK FALSE
PROPERTIES ShutdownEnds
