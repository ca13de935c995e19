CONSTANTS
    t1 = t1
    t2 = t2
    Capacity = 2
    BufferSize = 3
    MaxParts = 3
    Temporaries <- MCTemporaries
    Fragments <- MCFragments
SPECIFICATION PumpSpec
INVARIANTS
    PoolSuffices
    NothingLeftBehind
