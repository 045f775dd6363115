---------------------------- MODULE MCAPQBlocking ----------------------------
\* Two blocking calls on a queue of two classes, three places and three items.
EXTENDS APQBlocking, TLC

CONSTANTS h, l1, l2

MCItems == {h, l1, l2}
MCWeight == [c \in 0 .. 1 |-> 2 - c]
MCMatches == (h :> {0}) @@ (l1 :> {1}) @@ (l2 :> {1})
=============================================================================
