SPECIFICATION FairSpec
CONSTANTS
    Crc <- MCCrc
    ID_MOD = 3
    BODY_MAX_LEN = 32
    TX_BUFFER_SIZE = 32
    Commands <- PatientCommands
    EAGER = FALSE
    NOISE = {1}
    MAX_COMMANDS = 5
    MAX_FAULTS = 2
INVARIANTS TypeOK ReportsAreTrue SyncedAfterSuccess
PROPERTIES ImplementsService CommandReturns
CHECK_DEADLOCK FALSE
