SPECIFICATION FairSpec
CONSTANTS
    RX_BUFFER_SIZE = 4
    UDR_DEPTH = 2
    MAX_READ = 3
    WINDOW = 3
    MAX_BYTES = 6
INVARIANTS TypeOK ExactDelivery
PROPERTIES QueueSpec WaitingReaderIsServed
CHECK_DEADLOCK FALSE
