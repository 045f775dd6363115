SPECIFICATION BlockingSpec
CONSTANTS
    h = h
    l1 = l1
    l2 = l2
    NoItem = NoItem
    Waiters = {w1, w2}
    Items <- MCItems
    NumClasses = 2
    Weight <- MCWeight
    Capacity = 3
    Matches <- MCMatches
    MaxInt32 = 3
PROPERTY WaitsOnlyForItems
CHECK_DEADLOCK FALSE
