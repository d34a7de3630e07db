CONSTANTS
    s1 = s1
    s2 = s2
    Nothing = Nothing
    Slave <- MCSlave
    FirstAddr <- MCFirstAddr
    Request <- MCRequest
    Sample <- MCSample
    COMMAND_MAX_SIZE = 5
    TW_TX_MAX_LEN = 4
    MAX_COMMANDS = 3
    MAX_RESETS = 1
SPECIFICATION Spec
INVARIANTS TypeOK AnswerIsOwn
PROPERTIES ImplementsBank HandlerOff MasterReturns CommandsAreDone
CHECK_DEADLOCK FALSE
