SPECIFICATION Spec
CONSTANTS
    Proc = {p1, p2}
    BootProc = p1
    Calls = {"write"}
    JSize = 6
    NHome = 2
    NBUF = 9
    MaxCalls = 2
    MaxWrites = 2
    MaxCrashes = 1
INVARIANTS
    Recoverable
CHECK_DEADLOCK FALSE
