CONSTANTS
    t1 = t1
    t2 = t2
    t3 = t3
    Nobody = Nobody
    Threads <- MCThreads
    MAX_WAITERS = 2
    Failures = TRUE
    MaxMisses = 2
SPECIFICATION Spec
SYMMETRY MCSymmetry
INVARIANTS
    WaiterAlwaysThere
    EachReplyWakesItsCaller
    AwakeWhileNeeded
PROPERTIES
    ImplementsRemoteCalls
