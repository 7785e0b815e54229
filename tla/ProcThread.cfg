SPECIFICATION Spec
CONSTANTS
    NPROC = 3
    CPU = {c1}
    NPAGE = 6
    MaxPid = 3
    Calls = {"fork", "thread_fork"}
INVARIANTS
    MemoryInUse
