---------------------------- MODULE MCDLQStorage ----------------------------
\* Three items of two lengths; a segment takes 30 bytes of frames, so that one
\* is filled exactly or overfilled.
EXTENDS DLQStorage, TLC

CONSTANTS i1, i2, i3

MCItems == {i1, i2, i3}
MCFrameBytes == (i1 :> 10) @@ (i2 :> 20) @@ (i3 :> 20)
=============================================================================
