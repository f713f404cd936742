SPECIFICATION Spec
CONSTANTS
    WORD = 256
    PTR = 1
    MAX_FLI = 6
    MAX_LOG2_SLI = 2
    FLI_OFFSET = 2
    TLSF_SIZE = 2
    POOL = 36
    Sizes = {0, 5, 9, 17}
    Aligns = {4}
INVARIANTS
    BlocksTile
    ListsMatch
    GoodFit
    AlignedFits
PROPERTIES
    ImplementsHeap
