CONSTANTS
    r1 = r1
    r2 = r2
    r3 = r3
    Requests = {r1}
    Main = Main
    NoCmd = NoCmd
    Free = Free
    Ops = {}
    Faults = {"interrupt"}
    QuitAfter = 0
SPECIFICATION Spec
CHECK_DEADLOCK FALSE
INVARIANTS ShutdownInterrupts
