---------------------------- MODULE Pipeline_proofs ----------------------------
(***************************************************************************)
(* For any items, classes, capacity, disk and failure rates: nothing that  *)
(* Enqueue has taken vanishes between the queue, the spill, the replay and *)
(* the upstream, an item spills only while the queue is nearly full, and   *)
(* the answers of the upstream are honest.                                 *)
(***************************************************************************)
EXTENDS Pipeline, APQ_proofs

-----------------------------------------------------------------------------
(* The invariant, in parts.                                                *)

\* A request has seen the outage flag as it is; one that was let through has
\* seen it down.
UpstreamInv ==
    /\ Upstream!UpstreamTypeOK /\ Upstream!AnswersHonest
    /\ request[Exporter] = "received" => outageMode \in seen[Exporter]
    /\ request[Exporter] = "admitted" => FALSE \in seen[Exporter]

\* Callers of Enqueue and the mutexes they hold.
CallersOK ==
    /\ call \in [Enqueuers -> [at : {"idle", "lock", "spill", "store"},
                               item : Items \cup {NoItem}]]
    /\ queueMutex \in Enqueuers \cup {Free} /\ storeMutex \in Enqueuers \cup {Free}
    /\ \A t \in Enqueuers :
          /\ queueMutex = t <=> call[t].at \in {"spill", "store"}
          /\ storeMutex = t <=> call[t].at = "store"
          /\ call[t].at = "idle" => call[t] = NoCall

\* The disk, and the replay loop's place in it.
ReplayOK ==
    /\ log \in Seq(Items) /\ Len(log) <= MaxStored
    /\ replay \in [at : {"off", "next", "read", "callback", "drop"}, passed : Nat]
    /\ replay.passed <= Len(log)
    /\ replay.at = "callback" <=> call["replayer"] # NoCall
    /\ replay.at = "callback" => replay.passed < Len(log)

Logged == {log[n] : n \in 1 .. Len(log)}

\* The items of the producer, in either form.
Forms == FormsOf(produced)

\* Items come from the producer, wherever they are; the exporter posts what it
\* has in hand.
FlowOK ==
    /\ produced \subseteq Items /\ owed \subseteq produced /\ exported \subseteq Forms
    /\ Queued \subseteq Forms /\ Logged \subseteq Forms
    /\ hand \in Forms \cup {NoItem}
    /\ hand = NoItem => request[Exporter] = "none"
    /\ \A t \in Enqueuers : call[t].at # "idle" => call[t].item \in Forms
    /\ call["producer"].at # "idle" => call["producer"].item \in produced

PipelineInv ==
    /\ IInv /\ UpstreamInv /\ CallersOK /\ ReplayOK /\ FlowOK
    /\ SpillJustified /\ NothingVanishes

-----------------------------------------------------------------------------
\* The forms of items are items, and bytes are stored as they are.
LEMMA FormsClosed ==
    ASSUME produced \subseteq Items
    PROVE  /\ produced \subseteq Forms /\ Forms \subseteq Items
           /\ \A i \in Forms : Bytes[i] \in Forms /\ Bytes[Bytes[i]] = Bytes[i]
BY PipelineAssumption DEF PipelineAssumption, Forms, FormsOf

LEMMA FormsStay ==
    /\ UNCHANGED produced => Forms' = Forms
    /\ produced \subseteq produced' => Forms \subseteq Forms'
BY DEF Forms, FormsOf

\* What the end of an Enqueue does to its caller.
LEMMA ReturnEffect ==
    ASSUME NEW t \in Enqueuers, NEW ok \in BOOLEAN, Return(t, ok), ReplayOK
    PROVE  /\ call' = [call EXCEPT ![t] = NoCall]
           /\ owed' = IF ok /\ t = "producer" THEN owed \cup {call[t].item} ELSE owed
           /\ t = "producer" => replay' = replay
           /\ t = "replayer" =>
                 /\ replay' \in [at : {"next", "read", "drop"}, passed : Nat]
                 /\ replay'.passed <= replay.passed + 1
BY DEF Return, ReplayOK

\* Nobody has done anything yet.
LEMMA InitPipeline == PipelineInit => PipelineInv
<1> SUFFICES ASSUME PipelineInit PROVE PipelineInv
  OBVIOUS
<1>1. IInv
  BY InitIInv DEF PipelineInit
<1>2. UpstreamInv
  <2>1. /\ outageMode = FALSE /\ failureRatePerc = 0
        /\ request = [c \in {Exporter} |-> "none"]
        /\ seen = [c \in {Exporter} |-> {}]
    BY DEF PipelineInit, Upstream!Init
  <2>2. request[Exporter] = "none" /\ 0 \in 0 .. 100
    BY <2>1
  <2> QED
    BY <2>1, <2>2
    DEF UpstreamInv, Upstream!UpstreamTypeOK, Upstream!AnswersHonest, Upstream!Answers
<1>3. CallersOK
  BY DEF PipelineInit, CallersOK, Enqueuers, Free, NoCall
<1>4. log = <<>> /\ Len(log) = 0 /\ 1 .. Len(log) = {}
  BY EmptySeq DEF PipelineInit
<1>5. ReplayOK
  BY <1>4, EmptySeq, PipelineAssumption
  DEF PipelineInit, ReplayOK, NoReplay, PipelineAssumption, Enqueuers
<1>6. Queued = {}
  <2>1. queues = [c \in Classes |-> <<>>] /\ \A c \in Classes : 1 .. Len(queues[c]) = {}
    BY EmptySeq DEF PipelineInit, Init
  <2> QED
    BY <2>1 DEF Queued, ItemsOf, SlotsOf
<1>7. FlowOK
  <2>1. /\ produced = {} /\ owed = {} /\ exported = {} /\ hand = NoItem
        /\ \A t \in Enqueuers : call[t].at = "idle"
        /\ request[Exporter] = "none" /\ "producer" \in Enqueuers
    BY DEF PipelineInit, Upstream!Init, NoCall, Enqueuers
  <2> QED
    BY <1>4, <1>6, <2>1 DEF FlowOK, Logged
<1>8. SpillJustified /\ NothingVanishes
  BY DEF PipelineInit, SpillJustified, NothingVanishes, NoCall
<1> QED
  BY <1>1, <1>2, <1>3, <1>5, <1>7, <1>8 DEF PipelineInv

-----------------------------------------------------------------------------
(* Each part is kept by every step.                                        *)

\* The queue's steps, and the ones it does not notice.
LEMMA QueueStep == ASSUME PipelineInv, [PipelineNext]_pipelineVars PROVE IInv'
<1> USE DEF PipelineInv
<1>1. ASSUME UNCHANGED vars PROVE IInv'
  BY <1>1, StepIInv
<1>2. CASE Connect
  BY <1>2, StepIInv DEF Connect, Next
<1>3. ASSUME NEW t \in Enqueuers, Accept(t) \/ StoreReturn(t) PROVE IInv'
  <2>1. call[t].item \in Items
    BY <1>3, FormsClosed DEF Accept, StoreReturn, FlowOK
  <2>2. /\ EnqueueAccept(call[t].item) \/ EnqueueSpill(call[t].item)
        /\ UNCHANGED spillFunc
    BY <1>3 DEF Accept, StoreReturn
  <2> QED
    BY <2>1, <2>2, EnqueueIInv
<1>4. CASE Take
  BY <1>4, DequeueIInv DEF Take, Dequeue
<1> QED
  BY <1>1, <1>2, <1>3, <1>4
  DEF PipelineNext, pipelineVars, Produce, EnqueueStep, Spill, StoreItem,
      StartReplay, ReplayStep, TakeSegment, DeliverFrame, EndPass, DropSegment,
      Post, Acknowledged, Serve, Operate

\* A request, a control call, or something else.
LEMMA UpstreamStep ==
    ASSUME UpstreamInv, [PipelineNext]_pipelineVars
    PROVE  UpstreamInv'
<1> USE DEF UpstreamInv, Upstream!UpstreamTypeOK, Upstream!AnswersHonest, Upstream!Answers
<1>1. ASSUME UNCHANGED upVars PROVE UpstreamInv'
  BY <1>1 DEF upVars
<1>2. ASSUME Upstream!Receive(Exporter) PROVE UpstreamInv'
  BY <1>2 DEF Upstream!Receive
<1>3. ASSUME Upstream!Settle(Exporter) PROVE UpstreamInv'
  BY <1>3 DEF Upstream!Settle
<1>4. ASSUME Upstream!CheckOutage(Exporter) PROVE UpstreamInv'
  BY <1>4 DEF Upstream!CheckOutage
<1>5. ASSUME Upstream!DrawFailure(Exporter) PROVE UpstreamInv'
  BY <1>5 DEF Upstream!DrawFailure, Upstream!Draws
<1>6. ASSUME NEW enabled \in BOOLEAN, Upstream!SetOutage(enabled) PROVE UpstreamInv'
  BY <1>6 DEF Upstream!SetOutage
<1>7. ASSUME NEW r \in Rates, Upstream!SetFailureRate(r) PROVE UpstreamInv'
  <2>1. r \in Int
    BY PipelineAssumption DEF PipelineAssumption
  <2>2. Upstream!Clamped(r) \in 0 .. 100
    BY <2>1 DEF Upstream!Clamped
  <2> QED
    BY <1>7, <2>2 DEF Upstream!SetFailureRate
<1>8. CASE Post
  BY <1>2, <1>8 DEF Post
<1>9. CASE Acknowledged
  BY <1>3, <1>9 DEF Acknowledged
<1>10. CASE Serve
  BY <1>4, <1>5, <1>10 DEF Serve, Upstream!Handle
<1>11. CASE Operate
  BY <1>6, <1>7, <1>11 DEF Operate, Upstream!Control
<1> QED
  BY <1>1, <1>8, <1>9, <1>10, <1>11
  DEF PipelineNext, pipelineVars, Connect, Produce, EnqueueStep, Accept, Spill,
      StoreItem, StoreReturn, StartReplay, ReplayStep, TakeSegment, DeliverFrame,
      EndPass, DropSegment, Take

\* The mutexes change hands with the positions of the callers.
LEMMA CallersStep ==
    ASSUME PipelineInv, [PipelineNext]_pipelineVars
    PROVE  CallersOK'
<1> USE DEF PipelineInv, CallersOK
<1>0. "producer" \in Enqueuers /\ "replayer" \in Enqueuers /\ Free \notin Enqueuers
  BY DEF Enqueuers, Free
<1>1. ASSUME UNCHANGED <<mutexes, call>> PROVE CallersOK'
  BY <1>1 DEF mutexes
<1>2. ASSUME NEW i \in Items, Produce(i) PROVE CallersOK'
  BY <1>0, <1>2 DEF Produce, mutexes, NoCall
<1>3. ASSUME NEW t \in Enqueuers, Accept(t) PROVE CallersOK'
  <2>1. call' = [call EXCEPT ![t] = NoCall] /\ UNCHANGED mutexes /\ call[t].at = "lock"
    BY <1>3, ReturnEffect DEF Accept
  <2> QED
    BY <2>1 DEF mutexes, NoCall
<1>4. ASSUME NEW t \in Enqueuers, Spill(t) PROVE CallersOK'
  BY <1>0, <1>4 DEF Spill
<1>5. ASSUME NEW t \in Enqueuers, StoreItem(t) PROVE CallersOK'
  BY <1>0, <1>5 DEF StoreItem
<1>6. ASSUME NEW t \in Enqueuers, StoreReturn(t) PROVE CallersOK'
  <2>1. /\ call' = [call EXCEPT ![t] = NoCall] /\ call[t].at = "store"
        /\ storeMutex' = Free /\ queueMutex' = Free
    BY <1>6, ReturnEffect DEF StoreReturn
  <2> QED
    BY <1>0, <2>1 DEF NoCall
<1>7. CASE DeliverFrame
  <2>1. /\ replay.at = "read" /\ UNCHANGED mutexes
        /\ call' = [call EXCEPT !["replayer"] =
                       [at |-> "lock", item |-> log[replay.passed + 1]]]
        /\ replay.passed < Len(log)
    BY <1>7 DEF DeliverFrame
  <2>2. call["replayer"] = NoCall /\ log[replay.passed + 1] \in Items
    <3>1. replay.passed + 1 \in 1 .. Len(log)
      BY <2>1, LenProperties DEF ReplayOK
    <3> QED
      BY <2>1, <3>1, ElementOfSeq DEF ReplayOK
  <2> QED
    BY <1>0, <2>1, <2>2 DEF mutexes, NoCall
<1> QED
  BY <1>1, <1>2, <1>3, <1>4, <1>5, <1>6, <1>7
  DEF PipelineNext, pipelineVars, Connect, EnqueueStep, StartReplay, ReplayStep,
      TakeSegment, EndPass, DropSegment, Take, Post, Acknowledged, Serve, Operate


\* The replay stays within the disk, which only grows.
LEMMA ReplayStepOK ==
    ASSUME PipelineInv, [PipelineNext]_pipelineVars
    PROVE  ReplayOK'
<1> USE DEF PipelineInv, ReplayOK
<1>0. /\ "producer" \in Enqueuers /\ "replayer" \in Enqueuers
      /\ Len(log) \in Nat /\ MaxStored \in Nat
      /\ call \in [Enqueuers -> [at : {"idle", "lock", "spill", "store"},
                                 item : Items \cup {NoItem}]]
  BY LenProperties, PipelineAssumption DEF Enqueuers, PipelineAssumption, CallersOK
<1>1. ASSUME UNCHANGED <<log, replay>>, call'["replayer"] = call["replayer"]
      PROVE  ReplayOK'
  BY <1>1
<1>2. ASSUME NEW i \in Items, Produce(i) PROVE ReplayOK'
  BY <1>0, <1>1, <1>2 DEF Produce
<1>3. ASSUME NEW t \in Enqueuers, NEW ok \in BOOLEAN, Return(t, ok),
             call[t].at # "idle", log' \in Seq(Items), Len(log') <= MaxStored,
             Len(log') >= Len(log)
      PROVE  ReplayOK'
  <2>1. call' = [call EXCEPT ![t] = NoCall]
    BY <1>3, ReturnEffect
  <2>2. Len(log') \in Nat
    BY <1>3, LenProperties
  <2>3. CASE t = "producer"
    <3>1. replay' = replay /\ call'["replayer"] = call["replayer"]
      BY <1>0, <1>3, <2>1, <2>3, ReturnEffect
    <3> QED
      BY <1>0, <1>3, <2>2, <3>1
  <2>4. CASE t = "replayer"
    <3>1. /\ replay' \in [at : {"next", "read", "drop"}, passed : Nat]
          /\ replay'.passed <= replay.passed + 1
      BY <1>3, <2>4, ReturnEffect
    <3>2. call'["replayer"] = NoCall
      BY <1>0, <2>1, <2>4
    <3>3. replay.at = "callback"
      BY <1>3, <2>4 DEF NoCall
    <3>4. replay'.passed <= Len(log') /\ replay'.at # "callback"
      BY <1>0, <1>3, <2>2, <3>1, <3>3
    <3> QED
      BY <1>3, <3>1, <3>2, <3>4
  <2> QED
    BY <2>3, <2>4 DEF Enqueuers
<1>4. ASSUME NEW t \in Enqueuers, Accept(t) PROVE ReplayOK'
  <2>1. Return(t, TRUE) /\ call[t].at # "idle" /\ log' = log
    BY <1>4 DEF Accept
  <2>2. log' \in Seq(Items) /\ Len(log') <= MaxStored /\ Len(log') >= Len(log)
    BY <1>0, <2>1
  <2> QED
    BY <1>3, <2>1, <2>2
<1>5. ASSUME NEW t \in Enqueuers, Spill(t) \/ StoreItem(t) PROVE ReplayOK'
  <2>1. CASE t = "producer"
    BY <1>0, <1>1, <1>5, <2>1 DEF Spill, StoreItem
  <2>2. CASE t = "replayer"
    <3>1. call["replayer"] # NoCall /\ call'["replayer"] # NoCall
      BY <1>0, <1>5, <2>2 DEF Spill, StoreItem, NoCall
    <3> QED
      BY <1>5, <3>1 DEF Spill, StoreItem
  <2> QED
    BY <2>1, <2>2 DEF Enqueuers
<1>6. ASSUME NEW t \in Enqueuers, StoreReturn(t) PROVE ReplayOK'
  <2>1. call[t].at = "store" /\ Bytes[call[t].item] \in Items
    BY <1>6, FormsClosed DEF StoreReturn, FlowOK
  <2>2. \/ Len(log) < MaxStored /\ log' = Append(log, Bytes[call[t].item])
        \/ log' = log
    BY <1>6 DEF StoreReturn
  <2>3. log' \in Seq(Items) /\ Len(log') <= MaxStored /\ Len(log') >= Len(log)
    <3>1. log \in Seq(Items) /\ Len(log) \in Nat /\ Len(log) <= MaxStored
      BY <1>0, LenProperties
    <3>2. CASE log' = log
      BY <3>1, <3>2
    <3>3. CASE Len(log) < MaxStored /\ log' = Append(log, Bytes[call[t].item])
      <4>1. log' \in Seq(Items) /\ Len(log') = Len(log) + 1
        BY <2>1, <3>1, <3>3, AppendProperties
      <4> QED
        BY <3>1, <3>3, <4>1, <1>0
    <3> QED
      BY <2>2, <3>2, <3>3
  <2>4. \E ok \in BOOLEAN : Return(t, ok)
    BY <1>6 DEF StoreReturn
  <2> QED
    BY <1>3, <2>1, <2>3, <2>4
<1>7. CASE StartReplay \/ TakeSegment \/ EndPass \/ DropSegment
  BY <1>0, <1>7 DEF StartReplay, TakeSegment, EndPass, DropSegment, NoReplay
<1>8. CASE DeliverFrame
  BY <1>0, <1>8 DEF DeliverFrame, NoCall
<1> QED
  BY <1>1, <1>2, <1>4, <1>5, <1>6, <1>7, <1>8
  DEF PipelineNext, pipelineVars, Connect, EnqueueStep, ReplayStep, Take, Post,
      Acknowledged, Serve, Operate


\* What a step may put on the disk is the item it spills, in bytes.
LEMMA LogGrows ==
    ASSUME ReplayOK, NEW t \in Enqueuers, StoreReturn(t),
           Bytes[call[t].item] \in Items
    PROVE  /\ Logged \subseteq Logged'
           /\ Logged' \subseteq Logged \cup {Bytes[call[t].item]}
           /\ result'.status = "spilled" => Bytes[call[t].item] \in Logged'
<1>1. \/ log' = Append(log, Bytes[call[t].item])
      \/ result'.status = "spillFailed" /\ log' = log
  BY DEF StoreReturn
<1>2. CASE log' = log
  BY <1>1, <1>2, AppendProperties DEF Logged, ReplayOK
<1>3. CASE log' = Append(log, Bytes[call[t].item])
  <2>1. /\ Len(log) \in Nat /\ Len(log') = Len(log) + 1
        /\ 1 .. Len(log') = (1 .. Len(log)) \cup {Len(log) + 1}
        /\ \A k \in 1 .. Len(log) : log'[k] = log[k]
        /\ log'[Len(log) + 1] = Bytes[call[t].item]
    BY <1>3, LaneAppended DEF ReplayOK
  <2> QED
    BY <2>1 DEF Logged
<1> QED
  BY <1>1, <1>2, <1>3

\* Items only move on.
LEMMA FlowStep ==
    ASSUME PipelineInv, [PipelineNext]_pipelineVars
    PROVE  FlowOK'
<1> USE DEF PipelineInv, FlowOK
<1>0. /\ call \in [Enqueuers -> [at : {"idle", "lock", "spill", "store"},
                                 item : Items \cup {NoItem}]]
      /\ "producer" \in Enqueuers /\ "replayer" \in Enqueuers
      /\ NoItem \notin Items /\ TypeOK /\ Forms \subseteq Items
  BY APQAssumption, FormsClosed DEF CallersOK, Enqueuers, APQAssumption, IInv
<1>1. UNCHANGED queues => Queued' = Queued
  BY DEF Queued
<1>2. UNCHANGED log => Logged' = Logged
  BY DEF Logged
<1>3. ASSUME UNCHANGED <<vars, log, call, hand, account, request>> PROVE FlowOK'
  BY <1>1, <1>2, <1>3, FormsStay DEF vars, account
<1>4. CASE Connect
  BY <1>1, <1>2, <1>4, FormsStay DEF Connect, SetSpillFunc, queueVars, account, upVars
<1>5. ASSUME NEW i \in Items, Produce(i) PROVE FlowOK'
  <2>1. /\ call' = [call EXCEPT !["producer"] = [at |-> "lock", item |-> i]]
        /\ produced' = produced \cup {i}
        /\ UNCHANGED <<queues, log, hand, owed, exported, request>>
    BY <1>5 DEF Produce, vars, upVars
  <2>2. Forms \subseteq Forms' /\ produced' \subseteq Items /\ i \in Forms'
    BY <2>1, FormsStay DEF Forms, FormsOf
  <2> QED
    BY <1>0, <1>1, <1>2, <2>1, <2>2
<1>6. ASSUME NEW t \in Enqueuers, Accept(t) PROVE FlowOK'
  <2>1. /\ call' = [call EXCEPT ![t] = NoCall] /\ call[t].at = "lock"
        /\ owed' \subseteq owed \cup
              (IF t = "producer" THEN {call[t].item} ELSE {})
        /\ EnqueueAccept(call[t].item)
        /\ UNCHANGED <<log, hand, produced, exported, request>>
    BY <1>6, ReturnEffect DEF Accept, upVars
  <2>2. Queued' = Queued \cup {call[t].item}
    BY <1>0, <2>1, AcceptQueued
  <2> QED
    BY <1>0, <1>2, <2>1, <2>2, FormsStay DEF NoCall
<1>7. ASSUME NEW t \in Enqueuers, Spill(t) \/ StoreItem(t) PROVE FlowOK'
  BY <1>0, <1>1, <1>2, <1>7, FormsStay DEF Spill, StoreItem, vars, account, upVars
<1>8. ASSUME NEW t \in Enqueuers, StoreReturn(t) PROVE FlowOK'
  <2>1. /\ call' = [call EXCEPT ![t] = NoCall] /\ call[t].at = "store"
        /\ owed' \subseteq owed \cup
              (IF t = "producer" THEN {call[t].item} ELSE {})
        /\ UNCHANGED <<queues, hand, produced, exported, request>>
    BY <1>8, ReturnEffect DEF StoreReturn, EnqueueSpill, queueVars, upVars
  <2>2. Bytes[call[t].item] \in Forms
    BY <2>1, FormsClosed
  <2>3. Logged' \subseteq Logged \cup {Bytes[call[t].item]}
    BY <1>0, <1>8, <2>2, LogGrows
  <2> QED
    BY <1>0, <1>1, <2>1, <2>2, <2>3, FormsStay DEF NoCall
<1>9. CASE DeliverFrame
  <2>1. /\ call' = [call EXCEPT !["replayer"] =
                       [at |-> "lock", item |-> log[replay.passed + 1]]]
        /\ replay.passed < Len(log)
        /\ UNCHANGED <<queues, log, hand, account, request>>
    BY <1>9 DEF DeliverFrame, vars, upVars
  <2>2. log[replay.passed + 1] \in Forms
    <3>1. replay.passed + 1 \in 1 .. Len(log)
      BY <2>1, LenProperties DEF ReplayOK
    <3> QED
      BY <3>1 DEF Logged
  <2> QED
    BY <1>0, <1>1, <1>2, <2>1, <2>2, FormsStay DEF account
<1>10. CASE Take
  <2>1. hand = NoItem /\ UNCHANGED <<log, call, account, request>>
    BY <1>10 DEF Take, upVars
  <2>2. CASE DequeueItem /\ hand' = result'.item
    BY <1>0, <1>2, <2>1, <2>2, DequeueQueued, FormsStay DEF account
  <2>3. CASE (DequeueEmpty \/ DequeueMiss) /\ UNCHANGED hand
    BY <1>1, <1>2, <2>1, <2>3, FormsStay DEF DequeueEmpty, DequeueMiss, queueVars, account
  <2> QED
    BY <1>10, <2>2, <2>3 DEF Take
<1>11. CASE Post
  BY <1>1, <1>2, <1>11, FormsStay DEF Post, vars, account
<1>12. CASE Acknowledged
  <2>1. request' = [request EXCEPT ![Exporter] = "none"] /\ request[Exporter] = "200"
    BY <1>12 DEF Acknowledged, Upstream!Settle
  <2>2. request'[Exporter] = "none"
    BY <2>1 DEF UpstreamInv, Upstream!UpstreamTypeOK
  <2> QED
    BY <1>1, <1>2, <1>12, <2>1, <2>2, FormsStay DEF Acknowledged, vars
<1>13. CASE Serve
  <2>1. request[Exporter] # "none"
    BY <1>13 DEF Serve, Upstream!Handle, Upstream!CheckOutage, Upstream!DrawFailure
  <2> QED
    BY <1>1, <1>2, <1>13, <2>1, FormsStay DEF Serve, vars, account
<1>14. CASE Operate
  <2>1. UNCHANGED request
    BY <1>14 DEF Operate, Upstream!Control, Upstream!SetOutage, Upstream!SetFailureRate
  <2> QED
    BY <1>3, <1>14, <2>1 DEF Operate
<1> QED
  BY <1>3, <1>4, <1>5, <1>6, <1>7, <1>8, <1>9, <1>10, <1>11, <1>12, <1>13, <1>14
  DEF PipelineNext, pipelineVars, EnqueueStep, StartReplay, ReplayStep, TakeSegment,
      EndPass, DropSegment, upVars

\* While a callback runs, nobody else touches the queue.
LEMMA SpillStep ==
    ASSUME PipelineInv, [PipelineNext]_pipelineVars
    PROVE  SpillJustified'
<1> USE DEF PipelineInv, SpillJustified
<1>0. call \in [Enqueuers -> [at : {"idle", "lock", "spill", "store"},
                              item : Items \cup {NoItem}]]
  BY DEF CallersOK
<1>1. UNCHANGED queues => NearlyFull' = NearlyFull
  BY DEF NearlyFull, getTotalSize, Slots
<1>2. ASSUME UNCHANGED <<queues, call>> PROVE SpillJustified'
  BY <1>1, <1>2
<1>3. ASSUME queueMutex = Free,
             \A t \in Enqueuers : call'[t].at \in {"spill", "store"} => call'[t] = call[t]
      PROVE  SpillJustified'
  BY <1>3 DEF CallersOK, Enqueuers, Free
<1>4. ASSUME NEW i \in Items, Produce(i) PROVE SpillJustified'
  BY <1>0, <1>1, <1>4 DEF Produce, vars, NoCall
<1>5. ASSUME NEW t \in Enqueuers, Accept(t) PROVE SpillJustified'
  <2>1. queueMutex = Free /\ call' = [call EXCEPT ![t] = NoCall]
    BY <1>5, ReturnEffect DEF Accept
  <2> QED
    BY <1>0, <1>3, <2>1 DEF NoCall
<1>6. ASSUME NEW t \in Enqueuers, Spill(t) PROVE SpillJustified'
  BY <1>0, <1>1, <1>6 DEF Spill, vars
<1>7. ASSUME NEW t \in Enqueuers, StoreItem(t) PROVE SpillJustified'
  BY <1>0, <1>1, <1>7 DEF StoreItem, vars
<1>8. ASSUME NEW t \in Enqueuers, StoreReturn(t) PROVE SpillJustified'
  <2>1. UNCHANGED queues /\ call' = [call EXCEPT ![t] = NoCall]
    BY <1>8, ReturnEffect DEF StoreReturn, EnqueueSpill, queueVars
  <2> QED
    BY <1>0, <1>1, <2>1 DEF NoCall
<1>9. CASE DeliverFrame
  BY <1>0, <1>1, <1>9 DEF DeliverFrame, vars
<1>10. CASE Take
  BY <1>3, <1>10 DEF Take
<1>11. CASE Connect
  BY <1>2, <1>11 DEF Connect, SetSpillFunc, queueVars
<1> QED
  BY <1>2, <1>4, <1>5, <1>6, <1>7, <1>8, <1>9, <1>10, <1>11
  DEF PipelineNext, pipelineVars, vars, EnqueueStep, StartReplay, ReplayStep,
      TakeSegment, EndPass, DropSegment, Post, Acknowledged, Serve, Operate

\* What is owed is in one of the four places after each step.
LEMMA KeptStep ==
    ASSUME PipelineInv, [PipelineNext]_pipelineVars
    PROVE  NothingVanishes'
<1> USE DEF PipelineInv, NothingVanishes
<1>0. /\ NoItem \notin Items /\ TypeOK /\ owed \subseteq Items
      /\ Forms \subseteq Items
      /\ Kept = Queued \cup Logged \cup {hand} \cup exported
      /\ Kept' = Queued' \cup Logged' \cup {hand'} \cup exported'
  BY APQAssumption, FormsClosed DEF APQAssumption, IInv, FlowOK, Kept, Logged
<1>1. UNCHANGED queues => Queued' = Queued
  BY DEF Queued
<1>2. UNCHANGED log => Logged' = Logged
  BY DEF Logged
<1>3. ASSUME UNCHANGED <<queues, log, hand, exported, owed>> PROVE NothingVanishes'
  BY <1>0, <1>1, <1>2, <1>3
<1>4. ASSUME NEW t \in Enqueuers, Accept(t) PROVE NothingVanishes'
  <2>1. /\ call[t].at = "lock" /\ EnqueueAccept(call[t].item)
        /\ owed' \subseteq owed \cup {call[t].item}
        /\ UNCHANGED <<log, hand, exported>>
    BY <1>4, ReturnEffect DEF Accept
  <2>2. Queued' = Queued \cup {call[t].item}
    BY <1>0, <2>1, AcceptQueued DEF FlowOK
  <2> QED
    BY <1>0, <1>2, <2>1, <2>2
<1>5. ASSUME NEW t \in Enqueuers, StoreReturn(t) PROVE NothingVanishes'
  <2>1. /\ call[t].at = "store"
        /\ owed' \subseteq owed \cup (IF result'.status = "spilled" THEN {call[t].item}
                                     ELSE {})
        /\ UNCHANGED <<queues, hand, exported>>
    <3>1. Return(t, result'.status = "spilled")
      BY <1>5 DEF StoreReturn
    <3>2. owed' = IF result'.status = "spilled" /\ t = "producer"
                  THEN owed \cup {call[t].item} ELSE owed
      BY <3>1, ReturnEffect
    <3> QED
      BY <1>5, <3>2 DEF StoreReturn, EnqueueSpill, queueVars
  <2>2. Bytes[call[t].item] \in Items
    BY <1>0, <2>1, FormsClosed DEF FlowOK
  <2>3. /\ Logged \subseteq Logged'
        /\ result'.status = "spilled" => Bytes[call[t].item] \in Logged'
    BY <1>5, <2>2, LogGrows
  <2>4. Kept \subseteq Kept' /\ Logged' \subseteq Kept'
    BY <1>0, <1>1, <2>1, <2>3
  <2>5. ASSUME NEW i \in owed' PROVE i \in Kept' \/ Bytes[i] \in Kept'
    <3>1. i \in owed \/ Bytes[i] \in Logged'
      BY <2>1, <2>3
    <3> QED
      BY <2>4, <3>1
  <2> QED
    BY <2>5
<1>6. CASE Take
  <2>1. hand = NoItem /\ UNCHANGED <<log, exported, owed>>
    BY <1>6 DEF Take, account
  <2>2. CASE DequeueItem /\ hand' = result'.item
    <3>1. Queued \subseteq Queued' \cup {hand'} /\ NoItem \notin Queued
      BY <1>0, <2>2, DequeueQueued DEF FlowOK
    <3>2. Kept \ {NoItem} \subseteq Kept'
      BY <1>0, <1>2, <2>1, <3>1
    <3>3. \A i \in owed : i # NoItem /\ Bytes[i] # NoItem
      BY <1>0, FormsClosed DEF FlowOK
    <3> QED
      BY <2>1, <3>2, <3>3
  <2>3. CASE (DequeueEmpty \/ DequeueMiss) /\ UNCHANGED hand
    BY <1>3, <2>1, <2>3 DEF DequeueEmpty, DequeueMiss, queueVars
  <2> QED
    BY <1>6, <2>2, <2>3 DEF Take
<1>7. CASE Acknowledged
  BY <1>0, <1>1, <1>2, <1>7 DEF Acknowledged, vars
<1> QED
  BY <1>3, <1>4, <1>5, <1>6, <1>7
  DEF PipelineNext, pipelineVars, vars, account, Connect, SetSpillFunc, queueVars,
      Produce, EnqueueStep, Spill, StoreItem, StartReplay, ReplayStep, TakeSegment,
      DeliverFrame, EndPass, DropSegment, Post, Serve, Operate

\* The invariant holds throughout.
LEMMA PipelineInvariant == PipelineSpec => []PipelineInv
<1>1. PipelineInv /\ [PipelineNext]_pipelineVars => PipelineInv'
  <2> SUFFICES ASSUME PipelineInv, [PipelineNext]_pipelineVars PROVE PipelineInv'
    OBVIOUS
  <2>1. UpstreamInv'
    BY UpstreamStep DEF PipelineInv
  <2> QED
    BY <2>1, QueueStep, CallersStep, ReplayStepOK, FlowStep, SpillStep, KeptStep
    DEF PipelineInv
<1> QED
  BY <1>1, InitPipeline, PTL DEF PipelineSpec

-----------------------------------------------------------------------------
(* The properties.                                                         *)

\* Every variable keeps its type, and a mutex is held by whoever is in the
\* section it protects (plugin.go:151-172, file_storage.go:169-211, 504-528).
THEOREM PipelineTypeCorrect == PipelineSpec => []PipelineTypeOK
<1>1. PipelineInv => PipelineTypeOK
  <2> SUFFICES ASSUME PipelineInv PROVE PipelineTypeOK
    OBVIOUS
  <2>1. replay.passed \in 0 .. Len(log)
    BY LenProperties DEF PipelineInv, ReplayOK
  <2>2. hand \in Items \cup {NoItem} /\ exported \subseteq FormsOf(produced)
    BY FormsClosed DEF PipelineInv, FlowOK, Forms
  <2> QED
    BY <2>1, <2>2
    DEF PipelineInv, IInv, UpstreamInv, CallersOK, ReplayOK, FlowOK, PipelineTypeOK
<1> QED
  BY <1>1, PipelineInvariant, PTL

\* The spill decision of plugin.go:160 is still right when the callback of
\* line 163 returns, however slow it is.
THEOREM SpillsAreJustified == PipelineSpec => []SpillJustified
<1>1. PipelineInv => SpillJustified
  BY DEF PipelineInv
<1> QED
  BY <1>1, PipelineInvariant, PTL

\* An item whose Enqueue returned nil stays in the queue, on the disk or in
\* the exporter's hand until the upstream has acknowledged it
\* (plugin.go:151-210, file_storage.go:169-211, 555-617).
THEOREM NothingOwedVanishes == PipelineSpec => []NothingVanishes
<1>1. PipelineInv => NothingVanishes
  BY DEF PipelineInv
<1> QED
  BY <1>1, PipelineInvariant, PTL

\* An answer tells of an outage flag the request has met (main.go:106-135).
THEOREM AnswersAreHonest == PipelineSpec => []AnswersHonest
<1>1. PipelineInv => AnswersHonest
  BY DEF PipelineInv, UpstreamInv, AnswersHonest
<1> QED
  BY <1>1, PipelineInvariant, PTL
==============================================================================
