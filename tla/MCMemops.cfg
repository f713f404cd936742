SPECIFICATION MemSpec
CONSTANTS
    ASIZE = 168
    W = 4
    Dests = {8, 9, 10, 11}
    Srcs = {92, 93, 94, 95}
    Counts = {0, 1, 5, 7, 8, 9, 10, 11, 12, 13, 14, 15, 31, 34, 35, 36, 39, 66, 71}
    Values = {0, 5, 258}
    Mem0 <- MCMem0
INVARIANTS
    ExactBytes
    WordsAreMine
PROPERTIES
    Returns
CHECK_DEADLOCK FALSE
