SPECIFICATION FairSpec
CONSTANTS
    TX_BUFFER_SIZE = 3
    RX_BUFFER_SIZE = 2
    UDR_DEPTH = 2
    WINDOW = 4
    MAX_BYTES = 7
INVARIANTS TypeOK HandlerOwnsBuffer
PROPERTIES QueueSpec CallReturns AcceptedBytesLeave
CHECK_DEADLOCK FALSE
