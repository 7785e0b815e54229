SPECIFICATION FairSpec
CONSTANTS
    c1 = c1
    p1 = p1
    p2 = p2
    s1 = s1
    s2 = s2
INVARIANTS
    QueueOnDisk
    RefsExact
    PrintedInOrder
PROPERTIES
    OneTransfer
    Completes
    PanicsExhausted
    ReturnsToPrompt
    TestEnds
    
CHECK_DEADLOCK FALSE
