SPECIFICATION ReplaySpec
CONSTANTS
    i1 = i1
    i2 = i2
    Items = {i1, i2}
    None = None
    FrameBytes <- MCFrameBytes
    MaxSegment = 62
    MaxTime = 1
    MaxCrashes = 0
    IOFaults = {}
    SameSecond = FALSE
    PowerCuts = FALSE
    MaxReplays = 2
    PerInterval = 20
    MaxBudget = 40
    Overlap = TRUE
INVARIANT ReplayComplete
CHECK_DEADLOCK FALSE
