CONSTANTS
    r1 = r1
    r2 = r2
    r3 = r3
    Requests = {r1, r2}
    Main = Main
    NoCmd = NoCmd
    Free = Free
    Ops = {"start", "stop", "status"}
    Faults = {}
    QuitAfter = 0
SPECIFICATION FairSpec
CHECK_DEADLOCK FALSE
PROPERTIES StopCompletes RequestsAnswered
