SPECIFICATION Spec
CONSTANTS
    i1 = i1
    i2 = i2
    i3 = i3
    Items <- MCItems
    None = None
    FrameBytes <- MCFrameBytes
    MaxSegment = 62
    MaxTime = 1
    MaxCrashes = 1
    IOFaults = {}
    SameSecond = TRUE
    PowerCuts = FALSE
INVARIANT AckedReadable

CHECK_DEADLOCK FALSE
