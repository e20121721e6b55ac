CONSTANTS
    r1 = r1
    r2 = r2
    r3 = r3
    Requests = {r1, r2}
    Main = Main
    NoCmd = NoCmd
    Free = Free
    Ops = {"start", "stop", "update"}
    Faults = {"crash", "update", "interrupt"}
    QuitAfter = 0
SPECIFICATION Spec
SYMMETRY Symmetry
CHECK_DEADLOCK FALSE
INVARIANTS Tracked BootFindsRunning
