SPECIFICATION Spec
CONSTANTS
    LAST = 2
    Millis = {0, 1, 3}
    SHORT = 1
    LONG = 3
    PERMS = 2
    CSIZE = 10
    GAP = 3
INVARIANT
    GetsPast
PROPERTIES
    SleepsAsLong
    FaultsEnd
CHECK_DEADLOCK FALSE
