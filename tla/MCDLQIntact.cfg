SPECIFICATION VerifySpec
CONSTANTS
    i1 = i1
    i2 = i2
    Items = {i1, i2}
    None = None
    FrameBytes <- MCFrameBytes
    MaxSegment = 62
    MaxTime = 1
    MaxCrashes = 1
    IOFaults = {}
    SameSecond = FALSE
    PowerCuts = FALSE
INVARIANT IntactPasses
CHECK_DEADLOCK FALSE
