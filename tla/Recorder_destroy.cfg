\* a failing setup: every step may fail, every call into MMAL may fail, *stop may come at any time
SPECIFICATION RecorderSpec
CONSTANTS
    r1 = r1
    r2 = r2
    c1 = c1
    c2 = c2
    RawBuffers <- MCRaw
    CodedBuffers <- MCCoded
    MaxFrames = 2
    Failures = TRUE
INVARIANT PoolsDestroyedOnce
\* start_recorder returns and the program rests
CHECK_DEADLOCK FALSE
