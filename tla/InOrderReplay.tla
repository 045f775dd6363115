---------------------------- MODULE InOrderReplay ----------------------------
(***************************************************************************)
(* What a replay promises: everything that was stored when it began is     *)
(* delivered, oldest first.  It may deliver a frame again, and it may give *)
(* up on a segment, but it passes nothing over in silence.  Frames are     *)
(* named <<segment, number>> and are older the smaller the name is.        *)
(***************************************************************************)
EXTENDS Integers

VARIABLES
    due,        \* the frames stored when the replay began
    delivered,  \* the frames delivered since
    failed,     \* the segments given up on
    complete    \* the replay has come to its end by itself

Older(p, q) == p[1] < q[1] \/ (p[1] = q[1] /\ p[2] < q[2])

Settled(p) == p \in delivered \/ p[1] \in failed

Init == due = {} /\ delivered = {} /\ failed = {} /\ complete = FALSE

\* A replay begins, or the process that ran it is gone.
Begin ==
    /\ delivered' = {} /\ failed' = {} /\ complete' = FALSE

Deliver(p) ==
    /\ \A q \in due : Older(q, p) => Settled(q)
    /\ delivered' = delivered \cup {p}
    /\ UNCHANGED <<due, failed, complete>>

GiveUp(t) ==
    /\ failed' = failed \cup {t}
    /\ UNCHANGED <<due, delivered, complete>>

Complete ==
    /\ \A q \in due : Settled(q)
    /\ complete' = TRUE
    /\ UNCHANGED <<due, delivered, failed>>

Next ==
    \/ Begin
    \/ \E p \in delivered' : Deliver(p)
    \/ \E t \in failed' : GiveUp(t)
    \/ Complete

Spec == Init /\ [][Next]_<<due, delivered, failed, complete>>
=============================================================================
