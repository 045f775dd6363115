---------------------------- MODULE PriorityBuffer ----------------------------
(***************************************************************************)
(* What the adaptive priority queue promises its callers, with the lanes   *)
(* and the scheduler hidden: a bounded buffer that never loses, invents or *)
(* repeats an item, and hands items of one class out in the order it took  *)
(* them.  Between classes any order is allowed.                            *)
(***************************************************************************)
EXTENDS Integers, FiniteSets

CONSTANTS Items, NoItem, Capacity,
          ClassOf   \* ClassOf[i]: the priority class of item i

VARIABLES
    waiting,  \* the items inside
    older,    \* <<j, i>>: j and i wait, are of one class, and j came first
    result    \* outcome of the last call

bufferVars == <<waiting, older>>

Answer(status, item) == [status |-> status, item |-> item]

Init ==
    /\ waiting = {}
    /\ older = {}
    /\ result = Answer("none", NoItem)

Accept(i) ==
    /\ i \notin waiting
    /\ Cardinality(waiting) < Capacity
    /\ waiting' = waiting \cup {i}
    /\ older' = older \cup {<<j, i>> : j \in {k \in waiting : ClassOf[k] = ClassOf[i]}}
    /\ result' = Answer("enqueued", i)

\* The item is refused, or the spill callback took it or failed to.
TurnAway(i) ==
    /\ i \notin waiting
    /\ \E status \in {"spilled", "spillFailed", "rejected"} :
          result' = Answer(status, i)
    /\ UNCHANGED bufferVars

Deliver(i) ==
    /\ i \in waiting
    /\ \A j \in waiting : <<j, i>> \notin older
    /\ waiting' = waiting \ {i}
    /\ older' = {p \in older : p[1] # i /\ p[2] # i}
    /\ result' = Answer("dequeued", i)

DeliverNothing ==
    /\ \/ waiting = {} /\ result' = Answer("empty", NoItem)
       \/ waiting # {} /\ result' = Answer("selectedEmpty", NoItem)
    /\ UNCHANGED bufferVars

Next ==
    \/ \E i \in Items : Accept(i) \/ TurnAway(i) \/ Deliver(i)
    \/ DeliverNothing

Spec == Init /\ [][Next]_<<waiting, older, result>>
=============================================================================
