SPECIFICATION Spec
CONSTANTS
    i1 = i1
    i2 = i2
    i3 = i3
    Items <- MCItems
    None = None
    FrameBytes <- MCFrameBytes
    MaxSegment = 62
    MaxTime = 3
    MaxCrashes = 2
    IOFaults = {"close", "create"}
    SameSecond = FALSE
    PowerCuts = FALSE
INVARIANTS TypeOK HeaderHonest UnsealedBound SegmentBound
PROPERTY ImplementsLog
CHECK_DEADLOCK FALSE
