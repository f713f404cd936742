SPECIFICATION Spec
CONSTANTS
    Page = {p1, p2, p3}
    NULL = NULL
    MAX_TID = 4
    HZ = 2
    USIZE = 8
    Seconds = {0, 1, 4, 5}
INVARIANTS
    ListIsUsed
    LoopsOnlyAfterSelfWait

    
    
CHECK_DEADLOCK FALSE
