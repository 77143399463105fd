SPECIFICATION SystemSpec
CONSTANTS
    Lines <- MCLines
    Phrases <- MCPhrases
    ShutdownLine = "/shutdown"
    Conns = {me, other}
    Me = me
    FdLimit = 2
    FdSure = 2
    MaxFrames = 0
CHECK_DEADLOCK FALSE
PROPERTIES
    EchoArrives
