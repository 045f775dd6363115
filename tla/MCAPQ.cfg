SPECIFICATION FairSpec
CONSTANTS
    h1 = h1
    h2 = h2
    m1 = m1
    m2 = m2
    l1 = l1
    l2 = l2
    NoItem = NoItem
    Items <- MCItems
    NumClasses = 3
    Weight <- MCWeightOf
    Capacity = 4
    Matches <- MCMatches
    MaxInt32 = 3
INVARIANTS TypeOK Headroom GaugesFresh FreshTurnHasWork
PROPERTIES ServiceProgress ImplementsBuffer EventuallyDequeued
