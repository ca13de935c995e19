CONSTANTS
    p1 = p1
    p2 = p2
    s1 = s1
    s2 = s2
    None = None
    Pages <- MCPages
    Sessions <- MCSessions
    Hangups = TRUE
    Losses <- MCSessions
SPECIFICATION Spec
SYMMETRY MCSymmetry
CHECK_DEADLOCK FALSE
INVARIANTS
    TypeOK
    StreamOnlyOpenTracks
    CrashWindows
