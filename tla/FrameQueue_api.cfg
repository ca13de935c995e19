CONSTANTS
    t1 = t1
    t2 = t2
    Capacity = 1
    BufferSize = 3
    MaxParts = 3
    Temporaries <- MCTemporaries
    Fragments <- MCFragments
SPECIFICATION Spec
SYMMETRY MCSymmetry
CHECK_DEADLOCK FALSE
INVARIANTS
    TypeOK
    OwnedOnce
    PoolSurvives
    ConfigTravelsWithFrame
PROPERTIES
    ImplementsAssembler
