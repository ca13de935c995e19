\* two threads compete for the port, VideoCore may refuse and messages may fail; the one
\* buffer may be sent again while its last callback still runs
SPECIFICATION FairSpec
CONSTANTS
    t1 = t1
    t2 = t2
    b1 = b1
    None = None
    Threads <- MCThreads
    Buffers <- MCBuffers
    MaxEvents = 1
    Failures = TRUE
INVARIANTS TransitExact NoNullCallback
PROPERTIES PoolIdleWhenDeleted ImplementsContract CallsReturn QueuedIsCalledBack
\* the program ends where a stale context is used
CHECK_DEADLOCK FALSE
