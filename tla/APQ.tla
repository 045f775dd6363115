--------------------------------- MODULE APQ ---------------------------------
(***************************************************************************)
(* AdaptivePriorityQueue of plugins/apq/plugin.go: one FIFO lane per       *)
(* priority class, weighted round robin between the lanes, and a spill     *)
(* callback that takes an item when less than 5% of the capacity is free.  *)
(*                                                                         *)
(* Enqueue, Dequeue and Size hold queueMutex from their first read of the  *)
(* queue to their return, so each is one action.  classifyItem runs before *)
(* the lock but reads only the item and constants.                         *)
(*                                                                         *)
(* The Prometheus gauges are part of the state (they cache queue sizes);   *)
(* the counter apq_spill_total, which nothing reads, is the number of      *)
(* "spilled" results and is left out.  SetSpillFunc writes spillFunc       *)
(* without the lock: the model takes it to be called between other calls.  *)
(*                                                                         *)
(* A definition commented "Variant" is not used by the specification: it   *)
(* is a plausible slip in the definition below it, kept to show that the   *)
(* properties notice it.                                                   *)
(***************************************************************************)
EXTENDS Integers, Sequences, FiniteSets

CONSTANTS
    Items,       \* what callers enqueue; items waiting together are distinct
    NoItem,      \* the nil result of a Dequeue that fails
    NumClasses,  \* len(classes); class 0 is configured first
    Weight,      \* Weight[c]: class.Weight of class c
    Capacity,    \* queue capacity
    Matches,     \* Matches[i]: the classes whose pattern matches item i
    MaxInt32     \* the largest int32, 2147483647 in the code

Classes == 0 .. (NumClasses - 1)

\* What NewAdaptivePriorityQueue enforces; a weight is an int of 64 bits.
ASSUME APQAssumption ==
    /\ NumClasses \in Nat \ {0}
    /\ Weight \in [Classes -> Nat \ {0}]
    /\ MaxInt32 \in Nat
    /\ Capacity \in Nat \ {0}
    /\ Matches \in [Items -> SUBSET Classes]
    /\ NoItem \notin Items

VARIABLES
    queues,           \* queues[c]: the items waiting in class c, oldest first
    currentClass,     \* the class the scheduler serves
    remainingTokens,  \* items it may still take before the scheduler moves on
    spillFunc,        \* whether a spill callback is set
    gauges,           \* apq_class_size and the numerator of apq_fill_ratio
    result            \* outcome of the last call: its status and its item

queueVars == <<queues, currentClass, remainingTokens, gauges>>
vars == <<queues, currentClass, remainingTokens, spillFunc, gauges, result>>

Statuses == {"none", "enqueued", "spilled", "spillFailed", "rejected",
             "dequeued", "empty", "selectedEmpty"}

Outcome(status, item) == [status |-> status, item |-> item]

-----------------------------------------------------------------------------
\* Slots in use: one per waiting item, named by its class and its position.
SlotsOf(qs) == UNION {{c} \X (1 .. Len(qs[c])) : c \in Classes}
Slots == SlotsOf(queues)
getTotalSize == Cardinality(Slots)

\* The items that wait in some lane.
ItemsOf(qs) == {qs[s[1]][s[2]] : s \in SlotsOf(qs)}
Queued == ItemsOf(queues)

\* The first class whose pattern matches, the last class when none does.
classifyItem(i) ==
    IF Matches[i] = {}
    THEN NumClasses - 1
    ELSE CHOOSE c \in Matches[i] : \A d \in Matches[i] : c <= d

\* Variant: spill only once the capacity is exceeded.
NearlyFullLate == getTotalSize > Capacity

\* freeSlots / capacity < 0.05
NearlyFull == 20 * (Capacity - getTotalSize) < Capacity

GaugesOf(qs) ==
    [classSize |-> [c \in Classes |-> Len(qs[c])],
     fill      |-> Cardinality(SlotsOf(qs))]

updateMetrics == gauges' = GaugesOf(queues')

-----------------------------------------------------------------------------
\* The class k places after the current one, with wrap-around.
ClassAfter(k) == (currentClass + k) % NumClasses

\* Variants: move on without looking for work; always prefer early classes.
NextClassBlind == ClassAfter(1)
NextClassStrict ==
    LET Busy == {c \in Classes : queues[c] # <<>>}
    IN  IF Busy = {}
        THEN currentClass
        ELSE CHOOSE c \in Busy : \A d \in Busy : c <= d

\* The next class in the cycle with work; the current one after a full turn.
NextClass ==
    LET Hits == {k \in 1 .. (NumClasses - 1) : queues[ClassAfter(k)] # <<>>}
    IN  IF Hits = {}
        THEN currentClass
        ELSE ClassAfter(CHOOSE k \in Hits : \A j \in Hits : k <= j)

SelectedClass == IF remainingTokens > 0 THEN currentClass ELSE NextClass

\* Conversion and arithmetic of 32 bits wrap around.
Int32(n) == ((n + MaxInt32 + 1) % (2 * (MaxInt32 + 1))) - (MaxInt32 + 1)

\* Variants: a turn one item too long; a turn that never ends.
TokensLeftLong ==
    IF remainingTokens > 0 THEN remainingTokens - 1 ELSE Int32(Weight[NextClass])
TokensLeftForever ==
    IF remainingTokens > 0 THEN remainingTokens ELSE Int32(Weight[NextClass] - 1)

\* Tokens left after this call: the class keeps its turn until they run out,
\* whether or not its lane still holds anything.  A weight beyond the range
\* may leave fewer than none, and the turn is over.
TokensLeft ==
    IF remainingTokens > 0 THEN remainingTokens - 1 ELSE Int32(Weight[NextClass] - 1)

selectPriorityClass ==
    /\ currentClass' = SelectedClass
    /\ remainingTokens' = TokensLeft

-----------------------------------------------------------------------------
Init ==
    /\ queues = [c \in Classes |-> <<>>]
    /\ currentClass = 0
    /\ remainingTokens = 0
    /\ spillFunc = FALSE
    /\ gauges = GaugesOf([c \in Classes |-> <<>>])
    /\ result = Outcome("none", NoItem)

\* set: the function handed over is not nil.
SetSpillFunc(set) ==
    /\ spillFunc' = set
    /\ UNCHANGED <<queueVars, result>>

\* Variant: the new item goes to the front of its lane.
EnqueueAcceptFront(i) ==
    /\ ~NearlyFull
    /\ queues' = [queues EXCEPT ![classifyItem(i)] = <<i>> \o @]
    /\ updateMetrics
    /\ result' = Outcome("enqueued", i)
    /\ UNCHANGED <<currentClass, remainingTokens>>

EnqueueAccept(i) ==
    /\ ~NearlyFull
    /\ queues' = [queues EXCEPT ![classifyItem(i)] = Append(@, i)]
    /\ updateMetrics
    /\ result' = Outcome("enqueued", i)
    /\ UNCHANGED <<currentClass, remainingTokens>>

EnqueueSpill(i) ==
    /\ NearlyFull /\ spillFunc
    /\ \E status \in {"spilled", "spillFailed"} : result' = Outcome(status, i)
    /\ UNCHANGED queueVars

EnqueueReject(i) ==
    /\ NearlyFull /\ ~spillFunc
    /\ result' = Outcome("rejected", i)
    /\ UNCHANGED queueVars

Enqueue(i) ==
    /\ i \notin Queued
    /\ EnqueueAccept(i) \/ EnqueueSpill(i) \/ EnqueueReject(i)
    /\ UNCHANGED spillFunc

DequeueEmpty ==
    /\ getTotalSize = 0
    /\ result' = Outcome("empty", NoItem)
    /\ UNCHANGED queueVars

\* "selected queue is empty": the scheduler's state has moved all the same.
DequeueMiss ==
    /\ getTotalSize # 0
    /\ queues[SelectedClass] = <<>>
    /\ selectPriorityClass
    /\ result' = Outcome("selectedEmpty", NoItem)
    /\ UNCHANGED <<queues, gauges>>

\* Variant: the gauges are not updated.
DequeueItemQuiet ==
    /\ getTotalSize # 0
    /\ queues[SelectedClass] # <<>>
    /\ selectPriorityClass
    /\ queues' = [queues EXCEPT ![SelectedClass] = Tail(@)]
    /\ UNCHANGED gauges
    /\ result' = Outcome("dequeued", Head(queues[SelectedClass]))

DequeueItem ==
    /\ getTotalSize # 0
    /\ queues[SelectedClass] # <<>>
    /\ selectPriorityClass
    /\ queues' = [queues EXCEPT ![SelectedClass] = Tail(@)]
    /\ updateMetrics
    /\ result' = Outcome("dequeued", Head(queues[SelectedClass]))

Dequeue ==
    /\ DequeueEmpty \/ DequeueMiss \/ DequeueItem
    /\ UNCHANGED spillFunc

Next ==
    \/ \E set \in BOOLEAN : SetSpillFunc(set)
    \/ \E i \in Items : Enqueue(i)
    \/ Dequeue

Spec == Init /\ [][Next]_vars

\* The exporter keeps draining the queue; nobody has to enqueue.
FairSpec == Spec /\ WF_vars(Dequeue)
-----------------------------------------------------------------------------
\* Every variable has its type; the scheduler never holds more tokens than the
\* weight of the class it serves allows (plugin.go:289-325).
TypeOK ==
    /\ queues \in [Classes -> Seq(Items)]
    /\ currentClass \in Classes
    /\ remainingTokens \in -(MaxInt32 + 1) .. MaxInt32
    /\ remainingTokens <= 0 \/ remainingTokens < Weight[currentClass]
    /\ spillFunc \in BOOLEAN
    /\ gauges \in [classSize : [Classes -> Nat], fill : Nat]
    /\ result \in [status : Statuses, item : Items \cup {NoItem}]

\* The spill rule (plugin.go:155-160) keeps the queue within its capacity: the
\* newest item found at least 5% of the capacity free.
Headroom ==
    getTotalSize > 0 => 20 * (Capacity - getTotalSize + 1) >= Capacity

\* The gauges a report reads are those of the queue as it is now, whatever
\* mix of calls came before (updateMetrics, plugin.go:328-337).
GaugesFresh == gauges = GaugesOf(queues)

\* A class that starts a new turn has work whenever any class has, so the
\* failure that "shouldn't happen" (plugin.go:198) happens only on tokens left
\* from an old turn (plugin.go:301-318).
FreshTurnHasWork ==
    remainingTokens <= 0 /\ getTotalSize # 0 => queues[SelectedClass] # <<>>

\* How many turns of other classes may still come before class c's own turn.
TurnsUntil(c) ==
    IF c # currentClass THEN (c - currentClass) % NumClasses
    ELSE IF remainingTokens > 0 THEN 0 ELSE NumClasses

CloserToService(c) ==
    \/ TurnsUntil(c)' < TurnsUntil(c)
    \/ TurnsUntil(c)' = TurnsUntil(c) /\ remainingTokens' < remainingTokens

\* No class starves: each Dequeue, failed ones included, serves a class that
\* waits or brings that class closer to its turn, lexicographically in turns
\* and tokens, whatever is enqueued in the meantime (plugin.go:289-325).
ServiceProgress ==
    [][Dequeue => \A c \in Classes : queues[c] # <<>> =>
          queues'[c] = Tail(queues[c]) \/ CloserToService(c)]_vars

\* Every item accepted is handed to a caller as long as somebody dequeues,
\* even under an endless stream of items for the other classes.
EventuallyDequeued ==
    \A i \in Items : (i \in Queued) ~> (result = Outcome("dequeued", i))

\* <<j, i>>: j waits before i in the same lane.
OrderOf(qs) ==
    {p \in ItemsOf(qs) \X ItemsOf(qs) :
        \E c \in Classes : \E k, l \in 1 .. Len(qs[c]) :
            k < l /\ p = <<qs[c][k], qs[c][l]>>}

\* The queue implements the buffer it promises: nothing lost, repeated or
\* reordered inside a class (plugin.go:174-175, 202-204).
Buffer == INSTANCE PriorityBuffer WITH
    waiting <- Queued,
    older   <- OrderOf(queues),
    ClassOf <- [i \in Items |-> classifyItem(i)]
ImplementsBuffer == Buffer!Spec
=============================================================================
