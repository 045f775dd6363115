----------------------------- MODULE MCDLQVerify -----------------------------
\* Two items; the second one after a restart or in a second segment.
EXTENDS DLQVerify, TLC

CONSTANTS i1, i2

MCFrameBytes == (i1 :> 10) @@ (i2 :> 30)
=============================================================================
