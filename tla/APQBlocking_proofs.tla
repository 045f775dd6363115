-------------------------- MODULE APQBlocking_proofs --------------------------
(***************************************************************************)
(* For any number of blocking calls: the queue under them is still the     *)
(* queue of APQ, so that its theorems hold of it, and no caller with a     *)
(* live context waits without a ticker.                                    *)
(***************************************************************************)
EXTENDS APQBlocking, APQ_proofs

\* A ticker lives from the call to the end of the context.
TickerAlive ==
    \A w \in Waiters :
        /\ pc[w] # "idle" => ticker[w] # "none"
        /\ ticker[w] = "exited" => cancelled[w]

\* What BlockingTypeOK says of the calls, without the queue.
CallsOK ==
    /\ pc \in [Waiters -> {"idle", "try", "select", "waiting", "returned", "ctxErr"}]
    /\ ticker \in [Waiters -> {"none", "sleeping", "signal", "exited"}]
    /\ cancelled \in [Waiters -> BOOLEAN]
    /\ got \in [Waiters -> Items \cup {NoItem}]
    /\ \A w \in Waiters : (pc[w] = "returned") <=> (got[w] # NoItem)

CallsInv == CallsOK /\ TickerAlive

-----------------------------------------------------------------------------
\* Whatever a call does to the queue, the queue's own specification allows.
LEMMA BlockingStepIsStep == [BlockingNext]_allVars => [Next]_vars
<1> SUFFICES ASSUME [BlockingNext]_allVars PROVE [Next]_vars
  OBVIOUS
<1>1. CASE UNCHANGED allVars
  BY <1>1 DEF allVars
<1>2. ASSUME NEW i \in Items, Enqueue(i) PROVE Next
  BY <1>2 DEF Next
<1>3. ASSUME NEW w \in Waiters, TryDequeue(w) PROVE Next
  BY <1>3 DEF TryDequeue, Next
<1>4. ASSUME NEW w \in Waiters,
             \/ Call(w) \/ Cancel(w) \/ Select(w)
             \/ TickerFire(w) \/ TickerSignal(w) \/ TickerExit(w)
      PROVE  UNCHANGED vars
  BY <1>4 DEF Call, Cancel, Select, TickerFire, TickerSignal, TickerExit
<1> QED
  BY <1>1, <1>2, <1>3, <1>4 DEF BlockingNext

\* An item that Dequeue hands out is not the nil result.
LEMMA DequeuedIsItem ==
    ASSUME TypeOK, Dequeue, result'.status = "dequeued"
    PROVE  result'.item \in Items /\ result'.item # NoItem
<1>1. DequeueItem
  BY DEF Dequeue, DequeueEmpty, DequeueMiss, Outcome
<1>2. SelectedClass \in Classes
  BY SelectionType DEF TypeOK
<1>3. queues[SelectedClass] \in Seq(Items) /\ queues[SelectedClass] # <<>>
  BY <1>1, <1>2 DEF TypeOK, DequeueItem
<1>4. Head(queues[SelectedClass]) \in Items
  BY <1>3, HeadTailProperties
<1>5. result'.item = Head(queues[SelectedClass])
  BY <1>1 DEF DequeueItem, Outcome
<1> QED
  BY <1>4, <1>5, APQAssumption DEF APQAssumption

\* Nobody has called yet.
LEMMA InitCalls == BlockingInit => CallsInv
BY DEF BlockingInit, CallsInv, CallsOK, TickerAlive

\* A ticker exits only when its context is done, and starts with its call.
LEMMA StepCalls == TypeOK /\ CallsInv /\ [BlockingNext]_allVars => CallsInv'
<1> SUFFICES ASSUME TypeOK, CallsInv, [BlockingNext]_allVars PROVE CallsInv'
  OBVIOUS
<1> USE DEF CallsInv, CallsOK, TickerAlive
<1>1. CASE UNCHANGED callVars
  BY <1>1 DEF callVars
<1>2. ASSUME NEW w \in Waiters, Call(w) PROVE CallsInv'
  BY <1>2 DEF Call
<1>3. ASSUME NEW w \in Waiters, Cancel(w) PROVE CallsInv'
  BY <1>3 DEF Cancel
<1>4. ASSUME NEW w \in Waiters, TryDequeue(w) PROVE CallsInv'
  <2>1. CASE result'.status = "dequeued"
    <3>1. result'.item \in Items /\ result'.item # NoItem
      BY <1>4, <2>1, DequeuedIsItem DEF TryDequeue
    <3>2. /\ pc' = [pc EXCEPT ![w] = "returned"]
          /\ got' = [got EXCEPT ![w] = result'.item]
          /\ UNCHANGED <<ticker, cancelled>> /\ pc[w] = "try"
      BY <1>4, <2>1 DEF TryDequeue
    <3> QED
      BY <3>1, <3>2
  <2>2. CASE result'.status # "dequeued"
    BY <1>4, <2>2 DEF TryDequeue
  <2> QED
    BY <2>1, <2>2
<1>5. ASSUME NEW w \in Waiters, Select(w) PROVE CallsInv'
  BY <1>5 DEF Select
<1>6. ASSUME NEW w \in Waiters, TickerFire(w) PROVE CallsInv'
  BY <1>6 DEF TickerFire
<1>7. ASSUME NEW w \in Waiters, TickerSignal(w) PROVE CallsInv'
  BY <1>7 DEF TickerSignal, Woken
<1>8. ASSUME NEW w \in Waiters, TickerExit(w) PROVE CallsInv'
  BY <1>8 DEF TickerExit
<1> QED
  BY <1>1, <1>2, <1>3, <1>4, <1>5, <1>6, <1>7, <1>8 DEF BlockingNext, allVars

-----------------------------------------------------------------------------
\* Blocking calls use the queue only through its operations: every theorem
\* about Spec holds with any number of them at work (plugin.go:213-251).
THEOREM QueueUnderCalls == BlockingSpec => Spec
<1>1. BlockingInit => Init
  BY DEF BlockingInit
<1> QED
  BY <1>1, BlockingStepIsStep, PTL DEF BlockingSpec, Spec

\* The calls' part of the invariant holds throughout.
LEMMA CallsInvariant == BlockingSpec => []CallsInv
BY InitCalls, StepCalls, TypeCorrect, QueueUnderCalls, PTL DEF BlockingSpec

\* Every variable keeps its type, and a call has an item exactly when it
\* returned one (plugin.go:236-241).
THEOREM BlockingTypeCorrect == BlockingSpec => []BlockingTypeOK
<1>1. TypeOK /\ CallsInv => BlockingTypeOK
  BY DEF CallsInv, CallsOK, BlockingTypeOK
<1> QED
  BY <1>1, TypeCorrect, QueueUnderCalls, CallsInvariant, PTL

\* A caller that waits has a ticker to wake it unless its own context is done
\* (plugin.go:219-231, 248).
THEOREM OnlyCancellationStrands == BlockingSpec => []OnlyCancelStrands
<1>1. CallsInv => OnlyCancelStrands
  BY DEF CallsInv, CallsOK, TickerAlive, OnlyCancelStrands
<1> QED
  BY <1>1, CallsInvariant, PTL
=============================================================================
