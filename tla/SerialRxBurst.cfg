SPECIFICATION Spec
CONSTANTS
    RX_BUFFER_SIZE = 3
    UDR_DEPTH = 2
    MAX_READ = 2
    WINDOW = 7
    MAX_BYTES = 7
INVARIANTS InOrder
PROPERTIES LossNeedsFullRing
CHECK_DEADLOCK FALSE
