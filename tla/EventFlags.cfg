CONSTANTS
    t1 = t1
    t2 = t2
    ready = ready
    focus = focus
    Nobody = Nobody
    Threads <- MCThreads
    Events <- MCEvents
    Requests <- MCRequests
    Sets <- MCSets
SPECIFICATION FairSpec
INVARIANTS
    NoStaleWakeup
PROPERTIES
    ImplementsEventGroup
