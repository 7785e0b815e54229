SPECIFICATION Spec
CONSTANTS
    NPROC = 3
    CPU = {c1, c2}
    NPAGE = 6
    MaxPid = 3
    Calls = {"fork", "thread_fork", "sleep", "kill", "cond"}
INVARIANTS
    TypeOK
    OneCpuEach
    NoMissedZombie
    
