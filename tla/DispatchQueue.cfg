CONSTANTS
    c1 = c1
    c2 = c2
    op1 = op1
    op2 = op2
    op3 = op3
    NoOp = NoOp
    ThreadCount = 3
    Callers <- MCCallers
    Ops <- MCOps
SPECIFICATION FairSpec
INVARIANTS
    TypeOK
    WakeupsCoverQueue
    NoSleeperDuringJoin
    InOnePlace
PROPERTIES
    ImplementsExecutor
    DtorReturns
