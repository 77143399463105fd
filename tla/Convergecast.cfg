SPECIFICATION Spec
CONSTANTS
    Size = 4
    MaxEdges = 3
    MaxRuns = 2
    Nil = Nil
INVARIANTS
    ShortestPaths
    ValueConserved
    OneTotal
PROPERTIES
    RunCompletes
CHECK_DEADLOCK FALSE
