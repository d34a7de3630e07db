SPECIFICATION Spec
CONSTANTS
    RX_BUFFER_SIZE = 4
    UDR_DEPTH = 2
    MAX_READ = 2
    WINDOW = 4
    MAX_BYTES = 6
INVARIANTS ReturnsBytesRead
CHECK_DEADLOCK FALSE
