SPECIFICATION FairSpec
CONSTANTS
    Crc <- MCCrc
    ID_MOD = 3
    BODY_MAX_LEN = 32
    TX_BUFFER_SIZE = 32
    Commands <- EagerCommands
    EAGER = FALSE
    NOISE = {}
    MAX_COMMANDS = 6
    MAX_FAULTS = 1
PROPERTIES EveryCommandReturns
CHECK_DEADLOCK FALSE
