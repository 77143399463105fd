SPECIFICATION PipesSpec
CONSTANTS
    Sessions = 2
    TextLen = 5
    LineLen = 2
    PipeBuf = 2
    FifoSize = 3
    MaxCalls = 3

    
PROPERTIES
    ImplementsLineChannel
    LinesArrive
    ExchangeCompletes
CHECK_DEADLOCK FALSE
