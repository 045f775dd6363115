SPECIFICATION PipelineSpec
CONSTANTS
    i1 = i1
    i2 = i2
    b1 = b1
    b2 = b2
    Items = {i1, i2, b1, b2}
    NoItem = NoItem
    NumClasses = 2
    Weight <- MCWeight
    Capacity = 1
    Matches <- MCMatches
    MaxInt32 = 3
    Bytes <- MCBytes
    Rates <- MCRates
    MaxStored = 2
INVARIANTS PipelineTypeOK SpillJustified NothingVanishes AnswersHonest
PROPERTIES EnqueueReturns HealedDrains
