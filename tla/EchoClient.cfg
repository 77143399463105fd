SPECIFICATION ClientRunSpec
CONSTANTS
    Lines <- MCLines
    Phrases <- MCPhrases
    ShutdownLine = "/shutdown"
    Conns = {me, other}
    Me = me
    FdLimit = 2
    FdSure = 1
    MaxFrames = 2
CHECK_DEADLOCK FALSE
INVARIANTS
    InStep
    ExitJoinsAll
PROPERTIES
    RequestReturns
    EofEnds
    RejectedLineReturns
