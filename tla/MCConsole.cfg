SPECIFICATION Spec
CONSTANTS
    LONG = 32
    SHORT = 4
    SCALE = 100
    Calls <- MCCalls
    Sizes = {1, 3, 8}
    BUFSIZE = 8
    Printed <- MCPrinted
    FIFO = 3
    Bursts = {4, 5}
    MAX_TICKS = 2
INVARIANTS
    BufferHoldsPrefix
    FieldsAreRight
    SentOrLost
PROPERTIES
    CallsReturn
CHECK_DEADLOCK FALSE
