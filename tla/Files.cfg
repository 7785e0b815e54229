SPECIFICATION Spec
SYMMETRY Symmetry
CONSTANTS
    p1 = p1
    p2 = p2
INVARIANTS
    RefCount LinksCounted CacheCopies 
    ReadsBack BlocksAccounted
     EachEofOnce
    ParsesByGrammar

    
CHECK_DEADLOCK FALSE
