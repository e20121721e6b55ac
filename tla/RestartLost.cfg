CONSTANTS
    r1 = r1
    r2 = r2
    r3 = r3
    Requests = {r1}
    Main = Main
    NoCmd = NoCmd
    Free = Free
    Ops = {"restart"}
    Faults = {}
    QuitAfter = 0
SPECIFICATION FairSpec
CHECK_DEADLOCK FALSE
PROPERTIES RestartStarts
