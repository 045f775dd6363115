SPECIFICATION ReplaySpec
CONSTANTS
    i1 = i1
    i2 = i2
    Items = {i1, i2}
    None = None
    FrameBytes <- MCFrameBytes
    MaxSegment = 82
    MaxTime = 1
    MaxCrashes = 0
    IOFaults = {}
    SameSecond = FALSE
    PowerCuts = FALSE
    MaxReplays = 1
    PerInterval = 20
    MaxBudget = 40
    Overlap = FALSE
PROPERTY SavesPosition
CHECK_DEADLOCK FALSE
