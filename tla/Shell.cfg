CONSTANTS
    Nothing = "none"
    Path <- MCPath
    Kind <- MCKind
    MAX_FD = 5
    MAX_LINES = 5
SPECIFICATION Spec
INVARIANTS TypeOK DescriptorIsDevice EndClosesDevices
PROPERTIES HandshakeFirst ScriptStopsAtFailure
CHECK_DEADLOCK FALSE
