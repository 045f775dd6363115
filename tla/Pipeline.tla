------------------------------ MODULE Pipeline ------------------------------
(***************************************************************************)
(* The plugins at work together, as README.md:55-84 and collector.yaml     *)
(* describe them: a producer enqueues, what finds the queue nearly full    *)
(* goes through the spill callback to StoreItem of the dead letter queue,  *)
(* replay hands stored items back to Enqueue, and an exporter takes items  *)
(* from the queue and posts them to the upstream until it says 200.        *)
(* No code of the repository ties these together: which function is given  *)
(* to SetSpillFunc and StartReplay, and the exporter, are external.        *)
(*                                                                         *)
(* The queue is module APQ, the upstream module MockUpstream.  Of the dead *)
(* letter queue one segment is left, its whole frames, with what module    *)
(* DLQReplay shows of a replay: each pass reads from the first frame, an   *)
(* error ends it.  It holds bytes: an item that comes back from it is not  *)
(* the request it was, and classifyItem prints it as a list of numbers, so *)
(* that it may wait in another class than it came from.  The two mutexes   *)
(* are explicit, since Enqueue calls StoreItem with queueMutex held and    *)
(* replay calls Enqueue.                                                   *)
(***************************************************************************)
EXTENDS APQ

CONSTANTS
    Bytes,      \* Bytes[i]: item i as StoreItem gets it
    Rates,      \* the failure rates the upstream may be set to
    MaxStored   \* bound: frames that fit on the disk; then StoreItem fails

\* What the producer enqueues, which is not yet in bytes.
Requests == {i \in Items : Bytes[i] # i}

\* Items with what becomes of them on the disk.
FormsOf(S) == S \cup {Bytes[i] : i \in S}

ASSUME PipelineAssumption ==
    /\ Bytes \in [Items -> Items]
    /\ \A i \in Items : Bytes[Bytes[i]] = Bytes[i]
    /\ \A i, j \in Requests : Bytes[i] = Bytes[j] => i = j
    /\ Rates \subseteq Int
    /\ MaxStored \in Nat

Exporter == "exporter"
Enqueuers == {"producer", "replayer"}
Free == "free"

VARIABLES
    queueMutex, storeMutex,  \* who holds the mutex over several steps
    log,                     \* the items in the segment, the oldest first
    call,                    \* the callers of Enqueue: position and item
    replay,                  \* the replay loop: position, frames of this pass
    hand,                    \* the item the exporter is posting
    produced,                \* the items the producer has come up with
    owed,                    \* those whose Enqueue returned nil
    exported,                \* those the upstream has acknowledged
    outageMode, failureRatePerc, request, seen  \* see MockUpstream

Upstream == INSTANCE MockUpstream WITH Clients <- {Exporter}

upVars == <<outageMode, failureRatePerc, request, seen>>
mutexes == <<queueMutex, storeMutex>>
account == <<produced, owed, exported>>
pipelineVars == <<vars, mutexes, log, call, replay, hand, account, upVars>>

NoCall == [at |-> "idle", item |-> NoItem]
NoReplay == [at |-> "off", passed |-> 0]

PipelineInit ==
    /\ Init /\ Upstream!Init
    /\ queueMutex = Free /\ storeMutex = Free
    /\ log = <<>>
    /\ call = [t \in Enqueuers |-> NoCall]
    /\ replay = NoReplay
    /\ hand = NoItem
    /\ produced = {} /\ owed = {} /\ exported = {}

\* The callback is set before anything is enqueued.
Connect ==
    /\ ~spillFunc /\ SetSpillFunc(TRUE)
    /\ UNCHANGED <<mutexes, log, call, replay, hand, account, upVars>>

-----------------------------------------------------------------------------
(* Enqueue and, under its mutex, the callback.                             *)

\* Variant: an error of the callback is not passed on.
ReturnSilent(t, ok) ==
    /\ call' = [call EXCEPT ![t] = NoCall]
    /\ owed' = IF t = "producer" THEN owed \cup {call[t].item} ELSE owed
    /\ IF t = "replayer"
       THEN replay' \in (IF ok THEN {[at |-> "read", passed |-> replay.passed + 1],
                                     [at |-> "next", passed |-> 0]}
                               ELSE {[at |-> "drop", passed |-> 0]})
       ELSE UNCHANGED replay

\* A producer that gets an error gives up.  The replay goes on with the next
\* frame, or with the first one when its budget is used; an error ends it.
Return(t, ok) ==
    /\ call' = [call EXCEPT ![t] = NoCall]
    /\ owed' = IF ok /\ t = "producer" THEN owed \cup {call[t].item} ELSE owed
    /\ IF t = "replayer"
       THEN replay' \in (IF ok THEN {[at |-> "read", passed |-> replay.passed + 1],
                                     [at |-> "next", passed |-> 0]}
                               ELSE {[at |-> "drop", passed |-> 0]})
       ELSE UNCHANGED replay

Produce(i) ==
    /\ spillFunc /\ i \in Requests \ produced
    /\ call["producer"] = NoCall
    /\ call' = [call EXCEPT !["producer"] = [at |-> "lock", item |-> i]]
    /\ produced' = produced \cup {i}
    /\ UNCHANGED <<vars, mutexes, log, replay, hand, owed, exported, upVars>>

\* Room in the queue: one step, as in module APQ.
Accept(t) ==
    /\ call[t].at = "lock" /\ queueMutex = Free
    /\ EnqueueAccept(call[t].item)
    /\ Return(t, TRUE)
    /\ UNCHANGED <<spillFunc, mutexes, log, hand, produced, exported, upVars>>

\* Variant: the mutex is given up before the callback is called.
SpillUnlocked(t) ==
    /\ call[t].at = "lock" /\ queueMutex = Free /\ NearlyFull
    /\ UNCHANGED queueMutex
    /\ call' = [call EXCEPT ![t].at = "spill"]
    /\ UNCHANGED <<vars, storeMutex, log, replay, hand, account, upVars>>

\* Nearly full: the mutex is kept while the callback runs.
Spill(t) ==
    /\ call[t].at = "lock" /\ queueMutex = Free /\ NearlyFull
    /\ queueMutex' = t
    /\ call' = [call EXCEPT ![t].at = "spill"]
    /\ UNCHANGED <<vars, storeMutex, log, replay, hand, account, upVars>>

StoreItem(t) ==
    /\ call[t].at = "spill" /\ storeMutex = Free
    /\ storeMutex' = t
    /\ call' = [call EXCEPT ![t].at = "store"]
    /\ UNCHANGED <<vars, queueMutex, log, replay, hand, account, upVars>>

\* Stored, or not; an error of the rotation comes although it has been.
StoreReturn(t) ==
    /\ call[t].at = "store"
    /\ EnqueueSpill(call[t].item)
    /\ \/ /\ Len(log) < MaxStored
          /\ log' = Append(log, Bytes[call[t].item])
       \/ result'.status = "spillFailed" /\ UNCHANGED log
    /\ Return(t, result'.status = "spilled")
    /\ storeMutex' = Free /\ queueMutex' = Free
    /\ UNCHANGED <<spillFunc, hand, produced, exported, upVars>>

-----------------------------------------------------------------------------
(* The replay loop.                                                        *)

StartReplay ==
    /\ replay = NoReplay /\ storeMutex = Free /\ log # <<>>
    /\ replay' = [at |-> "next", passed |-> 0]
    /\ UNCHANGED <<vars, mutexes, log, call, hand, account, upVars>>

\* Variant: the mutex is kept while the segment is processed.
TakeSegmentLocked ==
    /\ replay.at = "next" /\ storeMutex = Free
    /\ storeMutex' = "replayer"
    /\ replay' = [replay EXCEPT !.at = "read"]
    /\ UNCHANGED <<vars, queueMutex, log, call, hand, account, upVars>>

TakeSegment ==
    /\ replay.at = "next" /\ storeMutex = Free
    /\ replay' = [replay EXCEPT !.at = "read"]
    /\ UNCHANGED <<vars, mutexes, log, call, hand, account, upVars>>

\* The callback is Enqueue.
DeliverFrame ==
    /\ replay.at = "read" /\ replay.passed < Len(log)
    /\ replay' = [replay EXCEPT !.at = "callback"]
    /\ call' = [call EXCEPT !["replayer"] =
                   [at |-> "lock", item |-> log[replay.passed + 1]]]
    /\ UNCHANGED <<vars, mutexes, log, hand, account, upVars>>

\* The end of the file, or a frame that is still being written.
EndPass ==
    /\ replay.at = "read" /\ replay.passed = Len(log)
    /\ replay' = [at |-> "drop", passed |-> 0]
    /\ UNCHANGED <<vars, mutexes, log, call, hand, account, upVars>>

DropSegment ==
    /\ replay.at = "drop" /\ storeMutex = Free
    /\ replay' = NoReplay
    /\ UNCHANGED <<vars, mutexes, log, call, hand, account, upVars>>

-----------------------------------------------------------------------------
(* The exporter and the upstream.                                          *)

\* A Dequeue that misses is tried again.
Take ==
    /\ hand = NoItem /\ queueMutex = Free
    /\ \/ DequeueItem /\ hand' = result'.item
       \/ (DequeueEmpty \/ DequeueMiss) /\ UNCHANGED hand
    /\ UNCHANGED <<spillFunc, mutexes, log, call, replay, account, upVars>>

Post ==
    /\ hand # NoItem /\ request[Exporter] # "200"
    /\ Upstream!Receive(Exporter)
    /\ UNCHANGED <<vars, mutexes, log, call, replay, hand, account>>

Acknowledged ==
    /\ request[Exporter] = "200"
    /\ Upstream!Settle(Exporter)
    /\ exported' = exported \cup {hand}
    /\ hand' = NoItem
    /\ UNCHANGED <<vars, mutexes, log, call, replay, produced, owed>>

Serve ==
    /\ Upstream!Handle(Exporter)
    /\ UNCHANGED <<vars, mutexes, log, call, replay, hand, account>>

Operate ==
    /\ Upstream!Control
    /\ UNCHANGED <<vars, mutexes, log, call, replay, hand, account>>

EnqueueStep(t) == Accept(t) \/ Spill(t) \/ StoreItem(t) \/ StoreReturn(t)
ReplayStep == TakeSegment \/ DeliverFrame \/ EndPass \/ DropSegment

PipelineNext ==
    \/ Connect
    \/ \E i \in Items : Produce(i)
    \/ \E t \in Enqueuers : EnqueueStep(t)
    \/ StartReplay \/ ReplayStep
    \/ Take \/ Post \/ Acknowledged
    \/ Serve \/ Operate

\* Goroutines run when they can; a mutex that is free again and again is got
\* (sync.Mutex turns to first come first served after a millisecond); draws
\* are random, so a rate below 100% lets a request through some time.
Fairness ==
    /\ \A t \in Enqueuers : SF_pipelineVars(EnqueueStep(t))
    /\ WF_pipelineVars(ReplayStep)
    /\ SF_pipelineVars(Take)
    /\ WF_pipelineVars(Post)
    /\ WF_pipelineVars(Acknowledged)
    /\ WF_pipelineVars(Serve)
    /\ SF_pipelineVars(Serve /\ request'[Exporter] = "200")

PipelineSpec == PipelineInit /\ [][PipelineNext]_pipelineVars /\ Fairness

-----------------------------------------------------------------------------
\* Every variable has its type, and a mutex is held by whoever is in the
\* section it protects.
PipelineTypeOK ==
    /\ TypeOK /\ Upstream!UpstreamTypeOK
    /\ log \in Seq(Items) /\ Len(log) <= MaxStored
    /\ call \in [Enqueuers -> [at : {"idle", "lock", "spill", "store"},
                               item : Items \cup {NoItem}]]
    /\ queueMutex \in Enqueuers \cup {Free} /\ storeMutex \in Enqueuers \cup {Free}
    /\ \A t \in Enqueuers :
          /\ queueMutex = t <=> call[t].at \in {"spill", "store"}
          /\ storeMutex = t <=> call[t].at = "store"
    /\ replay.at \in {"off", "next", "read", "callback", "drop"}
    /\ replay.passed \in 0 .. Len(log)
    /\ replay.at = "callback" <=> call["replayer"] # NoCall
    /\ hand \in Items \cup {NoItem}
    /\ owed \subseteq produced /\ exported \subseteq FormsOf(produced)

\* An item spills only while the queue is nearly full: nobody makes room
\* between the check of plugin.go:160 and the return of the callback, however
\* slow it is (line 163).
SpillJustified ==
    \A t \in Enqueuers : call[t].at \in {"spill", "store"} => NearlyFull

\* What Enqueue took, it or the disk still has, or the upstream does, as the
\* request it was or in bytes: not lost by a spill that fails, by a replay
\* that gives up or feeds itself, or by a request that is refused.
Kept == Queued \cup {log[n] : n \in 1 .. Len(log)} \cup {hand} \cup exported
NothingVanishes == \A i \in owed : i \in Kept \/ Bytes[i] \in Kept

\* However outages come and go, answers tell what was (main.go:106-135).
AnswersHonest == Upstream!AnswersHonest

\* Every Enqueue returns, the upstream's state notwithstanding: the callback
\* takes the store's mutex under the queue's (plugin.go:163), and a replay
\* that calls Enqueue must not hold the store's (file_storage.go:504-528).
EnqueueReturns ==
    \A t \in Enqueuers : (call[t] # NoCall) ~> (call[t] = NoCall)

\* When an outage ends for good and the failure rate stays below 100%, all
\* that is queued gets out (main.go:106-135, plugin.go:183-210).
HealedDrains ==
    <>[](~outageMode /\ failureRatePerc < 100) =>
        \A i \in Items : (i \in Queued) ~> (i \in exported)
=============================================================================
