SPECIFICATION ReplaySpec
CONSTANTS
    i1 = i1
    i2 = i2
    Items = {i1, i2}
    None = None
    FrameBytes <- MCFrameBytes
    MaxSegment = 52
    MaxTime = 1
    MaxCrashes = 1
    IOFaults = {}
    SameSecond = FALSE
    PowerCuts = TRUE
    MaxReplays = 2
    PerInterval = 20
    MaxBudget = 40
    Overlap = FALSE
INVARIANTS HeaderHonest ReplayTypeOK ReplayComplete ActiveHasLoop
PROPERTIES ImplementsReplay CancelledEnds
CHECK_DEADLOCK FALSE
