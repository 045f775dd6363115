------------------------------ MODULE DurableLog ------------------------------
(***************************************************************************)
(* What a dead letter queue promises: a log that only grows, at its end,   *)
(* by one item at a time, and acknowledges only what is in it.             *)
(***************************************************************************)
VARIABLES
    stored,  \* the items in the log
    older,   \* <<j, i>>: both are in the log and j comes first
    acked    \* the items the log has acknowledged

Init == stored = {} /\ older = {} /\ acked = {}

Append(i) ==
    /\ i \notin stored
    /\ stored' = stored \cup {i}
    /\ older' = older \cup (stored \X {i})
    /\ UNCHANGED acked

Acknowledge(i) ==
    /\ acked' = acked \cup {i}
    /\ UNCHANGED <<stored, older>>

Next ==
    \/ \E i \in stored' : Append(i)
    \/ \E i \in stored : Acknowledge(i)

Spec == Init /\ [][Next]_<<stored, older, acked>>
=============================================================================
