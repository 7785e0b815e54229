SPECIFICATION Spec
CONSTANTS
    Proc = {p1}
    BootProc = p1
    Calls = {"alloc"}
    JSize = 3
    NHome = 3
    NBUF = 4
    MaxCalls = 2
    MaxWrites = 2
    MaxCrashes = 2
INVARIANTS
    Recoverable BusyBuffersReachable JournalFits 
CHECK_DEADLOCK FALSE
