SPECIFICATION Spec
CONSTANTS
    w1 = w1
    w2 = w2
    svc = svc
    host = host
    tag = tag
    rnd = rnd
    plain = plain
    tagged = tagged
    ab = ab
    ba = ba
    storm = storm
    other = other
    Callers = {w1, w2}
    Points <- MCPoints
    Labels = {svc, host, tag, rnd}
    Attributes <- MCAttributes
    Chars <- MCChars
    Counted = {plain, tagged, ab, ba, storm}
    AggregateLabels = {tag}
    Batches <- MCBatches
    MaxKeys = 2
    HighScore = 75
    CriticalScore = 90
INVARIANTS TypeOK KeysBounded GaugeCatchesUp
PROPERTY NeverShrinks
