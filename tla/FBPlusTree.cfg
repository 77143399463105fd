SPECIFICATION MCSpec
CONSTANTS
    MinDegree = 2
    Trees = {a, b}
    First = a
    KeyCount = 7
    SharedKeys = 4
    SharedNodes = 6
    MaxWhole = 1
    Keys <- MCKeys
    Values = {v}
    MaxNodes = 14
    Nil = Nil
CONSTRAINT Bounds
INVARIANTS
    TypeOK
    OneOwner
    IterationComplete
PROPERTIES
    ImplementsMaps
