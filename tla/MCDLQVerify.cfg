SPECIFICATION VerifySpec
CONSTANTS
    i1 = i1
    i2 = i2
    Items = {i1, i2}
    None = None
    FrameBytes <- MCFrameBytes
    MaxSegment = 62
    MaxTime = 1
    MaxCrashes = 1
    IOFaults = {"create", "placeholder", "size", "data", "seek", "header", "sync", "close"}
    SameSecond = FALSE
    PowerCuts = TRUE
INVARIANTS VerifyTypeOK VerdictSound
PROPERTY SealedForever
CHECK_DEADLOCK FALSE
