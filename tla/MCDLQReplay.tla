----------------------------- MODULE MCDLQReplay -----------------------------
\* Two items; together they fill a segment, or more than one pass.
EXTENDS DLQReplay, TLC

CONSTANTS i1, i2

MCFrameBytes == (i1 :> 10) @@ (i2 :> 20)
=============================================================================
