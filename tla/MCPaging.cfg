SPECIFICATION Spec
CONSTANTS
    PAGE_SIZE = 4
    ROUND = 4
    BITMAP_HDR = 1
    ELEM_SIZE = 1
    ELEM_BITS = 3
    RamMaps <- MCRamMaps
    Counts = {1, 2}
    NL1 = 8
    TSIZE = 4
    EPP = 8
    NR_KERN_PAGETABLE = 2
    KERNBASE = 4
    USER_MAX_ADDR = 3
    KERN_MIN_ADDR = 17
    PHYSFREE = 1
    MAPPED = 4
    IO_FIRST = 6
    IO_COUNT = 1
    IO_FRAME = 100
    VECTORS = 31
    Protections <- MCProtections
    DEPTH = 4
    Callers = {c1}
INVARIANTS
    BehindByBitmap
PROPERTIES
    TablesStay
    NoReturn
    
\* A fault that nests until the stack ends stops the machine.
CHECK_DEADLOCK FALSE
