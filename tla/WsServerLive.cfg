SPECIFICATION Spec
CONSTANTS
    Conns = {c1, c2}
    FdLimit = 2
    FdSure = 1
    MaxFrames = 2
CHECK_DEADLOCK FALSE
PROPERTIES
    StopCompletes
    TerminationStops
    BacklogServed
