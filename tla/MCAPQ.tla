-------------------------------- MODULE MCAPQ --------------------------------
\* Three classes, of which the last has a weight beyond the integers of the
\* scheduler, and a capacity small enough that the spill rule bites.
EXTENDS APQ, TLC

CONSTANTS h1, h2, m1, m2, l1, l2

MCItems == {h1, h2, m1, m2, l1, l2}
MCWeight == <<3, 2, 5>>
MCWeightOf == [c \in 0 .. 2 |-> MCWeight[c + 1]]

\* h2 matches two patterns (the first wins), l2 none (the last class).
MCMatches ==
    (h1 :> {0}) @@ (h2 :> {0, 1}) @@ (m1 :> {1}) @@ (m2 :> {1, 2})
    @@ (l1 :> {2}) @@ (l2 :> {})
=============================================================================
