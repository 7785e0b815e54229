SPECIFICATION Spec
CONSTANTS
    Proc = {p1}
    BootProc = p1
    Calls = {"write", "fsync"}
    JSize = 6
    NHome = 2
    NBUF = 7
    MaxCalls = 3
    MaxWrites = 1
    MaxCrashes = 0
INVARIANTS
    Recoverable
CHECK_DEADLOCK FALSE
