SPECIFICATION Spec
CONSTANTS
    ASIZE = 20
    PAGE_SIZE = 2
    USER_MIN_ADDR = 2
    USER_MAX_ADDR = 8
    KERN_MAX_ADDR = 16
    Brk = 10
    VM_PROT_ALL = 7
    Prots = {1}
    PageCounts = {1, 8}
    Vas = {0, 2, 3, 4, 6, 8, 10, 12, 14, 16}
INVARIANTS
    GrantedIsInRange
