\* every setup step may fail, every call into MMAL may fail, *stop may come at any time
SPECIFICATION RecorderFairSpec
CONSTANTS
    r1 = r1
    r2 = r2
    c1 = c1
    c2 = c2
    RawBuffers <- MCRaw
    CodedBuffers <- MCCoded
    MaxFrames = 2
    Failures = TRUE
INVARIANTS BuffersConserved InOrder Quiescent PostedOnce Balanced PoolsGoFirst
PROPERTIES CapturedIsDelivered StopReturns
\* start_recorder returns and the program rests
CHECK_DEADLOCK FALSE
