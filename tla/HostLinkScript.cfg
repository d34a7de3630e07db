SPECIFICATION FairSpec
CONSTANTS
    Crc <- MCCrc
    ID_MOD = 3
    BODY_MAX_LEN = 32
    TX_BUFFER_SIZE = 32
    Commands <- EagerCommands
    EAGER = TRUE
    NOISE = {}
    MAX_COMMANDS = 4
    MAX_FAULTS = 0
INVARIANTS ReportsAreTrue
CHECK_DEADLOCK FALSE
