SPECIFICATION Spec
CONSTANTS
    Conns = {c1, c2, c3}
    FdLimit = 2
    FdSure = 1
    MaxFrames = 2
SYMMETRY Symmetry
CHECK_DEADLOCK FALSE
INVARIANTS
    TypeOK
    NoAcceptLeftPending
    ShutdownSound
PROPERTIES
    StopIsPrompt
    ImplementsLifecycle
