CONSTANTS
    r1 = r1
    r2 = r2
    r3 = r3
    Requests = {r1, r2}
    Main = Main
    NoCmd = NoCmd
    Free = Free
    Ops = {"start", "stop", "restart", "update"}
    Faults = {"startCmd", "crash"}
    QuitAfter = 0
SPECIFICATION Spec
SYMMETRY Symmetry
CHECK_DEADLOCK FALSE
INVARIANTS TypeOK Tracked UpdateOwnsState StateMatchesCommand BootFindsRunning ChannelHasChecker 
