SPECIFICATION Spec
CONSTANTS
    NPROC = 4
    CPU = {c1, c2}
    NPAGE = 5
    MaxPid = 4
    Calls = {"fork", "sbrk", "kill"}
INVARIANTS
    PageOwnership
