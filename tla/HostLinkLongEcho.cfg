SPECIFICATION FairSpec
CONSTANTS
    Crc <- MCCrc
    ID_MOD = 3
    BODY_MAX_LEN = 32
    TX_BUFFER_SIZE = 32
    Commands <- LongCommands
    EAGER = FALSE
    NOISE = {}
    MAX_COMMANDS = 3
    MAX_FAULTS = 0
PROPERTIES CommandReturns
CHECK_DEADLOCK FALSE
