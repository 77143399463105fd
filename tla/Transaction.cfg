SPECIFICATION Spec
CONSTANTS
    t1 = t1
    t2 = t2
    t3 = t3
    Tx <- MCTx
    Modification <- MCModification
    NoTx = NoTx
    Initial = 1000
    MaxLive = 1
INVARIANTS
    TypeOK
    CommitLoggedFirst
    OneOutcome
    CommitLineMeansCommit
    BalanceIsCommitted
CHECK_DEADLOCK FALSE
