--------------------------- MODULE DLQReplay_proofs ---------------------------
(***************************************************************************)
(* For any items, segments, budgets and number of replays: the write path  *)
(* under a replay is still that of DLQStorage and, as long as one loop     *)
(* runs at a time and bodies only grow, a replay delivers what was stored  *)
(* when it began, oldest first and completely.                             *)
(***************************************************************************)
EXTENDS DLQReplay, DLQStorage_proofs

-----------------------------------------------------------------------------
(* The invariants.                                                         *)

\* The faults that never shorten a file, apart from a crash.
FilesGrow == ~SameSecond /\ "header" \notin IOFaults

LoopStates ==
    [at : {"none", "select", "wait", "cancelled", "next", "read", "done",
           "error", "ended"},
     watched : Nat, live : BOOLEAN, available : Int,
     segment : Nat \cup {None}, passed : Nat, processed : Nat]

\* The shared state: there is a queue only while a replay is active.
SharedOK ==
    /\ replayQueue \subseteq DOMAIN files
    /\ replayActive \in BOOLEAN
    /\ replays \in 0 .. MaxReplays /\ replayCtx \in 0 .. replays
    /\ cancelled \subseteq 1 .. replays
    /\ replayActive => replayCtx # 0
    /\ ~replayActive => replayQueue = {}

\* What the budget allows: a loop that is between two segments has tokens
\* left, one that reads has not used them up and, when files only grow, is not
\* beyond the end of its own.
LoopOK(l) ==
    /\ loop[l].watched <= replays
    /\ loop[l].available <= MaxBudget
    /\ loop[l].at \in {"next", "done"} => loop[l].available > 0
    /\ loop[l].at = "read" =>
          /\ loop[l].segment \in DOMAIN files
          /\ FilesGrow => loop[l].passed <= Len(frames(l))
          /\ loop[l].processed < loop[l].available

\* A due frame is in its file.
DueOK ==
    FilesGrow => \A p \in due :
        /\ p \in Nat \X Nat /\ p[1] \in DOMAIN files
        /\ p[2] \in 1 .. Len(files[p[1]].body)

ControlOK ==
    /\ SharedOK
    /\ loop \in [Loops -> LoopStates]
    /\ \A l \in Loops : LoopOK(l)
    /\ DueOK

\* One loop at a time: the one started last, which watches its own context
\* and runs on after the end of its replay only to see that it is cancelled.
OneLoop ==
    /\ \A l \in Loops :
          /\ Running(l) => /\ l = replays /\ replayCtx = replays
                           /\ replayActive \/ replayCtx \in cancelled
          /\ loop[l].at = "wait" => loop[l].watched = replayCtx
          /\ loop[l].at = "cancelled" => replayCtx \in cancelled
    /\ replayActive => replays \in Loops /\ Running(replays)

Settled(p) == p \in delivered \/ p[1] \in failed

\* Whoever may still end by itself has passed over nothing.
Unstopped == replayCtx # 0 /\ replayCtx \notin cancelled

\* Due frames outside the queue are settled.
QueueSettled ==
    replayQueue # {} \/ Unstopped
        => \A p \in due : p[1] \notin replayQueue => Settled(p)

\* A pass is over the head of the queue, unless the replay has been stopped,
\* and the due frames before its position are settled.
PassSettled(l) ==
    /\ loop[l].at \in {"read", "done", "error"} =>
          /\ Unstopped => replayQueue # {}
          /\ replayQueue # {} => loop[l].segment = NextSegment
    /\ loop[l].at = "read" =>
          \A p \in due :
              \/ p[1] < loop[l].segment
              \/ p[1] = loop[l].segment /\ p[2] <= loop[l].passed
              => Settled(p)
    /\ loop[l].at = "done" =>
          \A p \in due : p[1] = loop[l].segment => Settled(p)
    /\ loop[l].at = "error" => loop[l].segment \in failed

InOrderInv == QueueSettled /\ \A l \in Loops : PassSettled(l)

-----------------------------------------------------------------------------
(* The write path under a replay.                                          *)

\* Every step of the replay is a step of the write path or leaves it alone.
LEMMA StorageStep ==
    ASSUME [ReplayNext]_allVars
    PROVE  /\ [Next]_vars
           /\ \/ Writer /\ UNCHANGED replayVars
              \/ Crash
              \/ Stop
              \/ UNCHANGED vars
BY DEF ReplayNext, allVars, Writer, Next, StartReplay, StopReplay, CancelContext,
   StopExtension, Step, Select, Toggle, TokenTick, Cancelled, ReadFrame,
   ClearCancelled, TakeSegment, DropSegment, ReplayCrash

\* Replay only reads the directory: whatever is proved of the write path
\* holds while segments are replayed (lines 214-267 and 452-617).
THEOREM ReplayKeepsStorage == ReplaySpec => Spec
<1>1. ReplayInit => Init
  BY DEF ReplayInit
<1>2. [ReplayNext]_allVars => [Next]_vars
  BY StorageStep
<1> QED
  BY <1>1, <1>2, PTL DEF ReplaySpec, Spec

\* A write at the offset never shortens a body.
LEMMA WritesGrow ==
    ASSUME NEW b \in Seq(Frames), offset \in 0 .. Len(b), NEW i \in Items
    PROVE  /\ Len(b) <= Len(Torn(b, i))
           /\ Len(b) <= Len(Opened(b, i))
<1>1. Len(b) \in Nat
  BY LenProperties
<1>2. Len(b) <= Len(Torn(b, i))
  <2>1. CASE offset >= Len(b)
    <3>1. Torn(b, i) = Append(b, Frame(i, FALSE)) /\ Frame(i, FALSE) \in Frames
      BY <2>1 DEF Torn, Frame, Frames
    <3>2. Len(Append(b, Frame(i, FALSE))) = Len(b) + 1
      BY <3>1, AppendProperties, Zenon
    <3> QED
      BY <1>1, <3>1, <3>2
  <2>2. CASE ~ (offset >= Len(b))
    <3> DEFINE f == [k \in 1 .. Len(b) |->
                        IF k > offset THEN Frame(b[k].item, FALSE) ELSE b[k]]
    <3>1. Torn(b, i) = f
      BY <2>2, Zenon DEF Torn
    <3>2. DOMAIN f = 1 .. Len(b)
      OBVIOUS
    <3>3. Torn(b, i) \in Seq(Frames)
      BY TornType
    <3>4. DOMAIN Torn(b, i) = 1 .. Len(Torn(b, i)) /\ Len(Torn(b, i)) \in Nat
      BY <3>3, LenProperties
    <3>5. 1 .. Len(Torn(b, i)) = 1 .. Len(b)
      BY <3>1, <3>2, <3>4, Zenon
    <3> QED
      BY <1>1, <3>4, <3>5
  <2> QED
    BY <2>1, <2>2
<1> QED
  BY <1>1, <1>2 DEF Opened

\* While the header can be written, the offset is inside it only between the
\* seek and the last of its bytes: no write of an item begins there.
OffHeader == offset \in Nat \/ pc \in {"count", "hash"}

LEMMA StepOffset ==
    ASSUME "header" \notin IOFaults, OffHeader, [Next]_vars
    PROVE  OffHeader'
<1>1. CASE \/ UNCHANGED vars \/ Tick \/ Start \/ Stop
           \/ (\E i \in Items : StoreItem(i)) \/ Return \/ Close \/ Create
  BY <1>1 DEF OffHeader, vars, memory, Tick, Start, Stop, StoreItem, Return, Close, Create
<1>2. CASE WriteSize
  <2>1. offset \in Nat /\ (offset' = offset \/ offset' = offset + 1)
    BY <1>2 DEF OffHeader, WriteSize, WriteSizeOk, WriteSizeFail
  <2> QED
    BY <2>1 DEF OffHeader
<1>3. CASE WriteData
  <2>1. offset \in Nat /\ ~ (offset < 0)
    BY <1>3 DEF OffHeader, WriteData
  <2>2. offset' = offset \/ offset' = offset + 1
    BY <1>3, <2>1, Zenon DEF WriteData, WriteDataOk, WriteDataFail
  <2> QED
    BY <2>1, <2>2 DEF OffHeader
<1>4. CASE Finalize
  BY <1>4 DEF OffHeader, Finalize, SeekHeader, WriteCount, WriteHash, Sync, May
<1>5. CASE Placeholder \/ Crash
  BY <1>5 DEF OffHeader, Placeholder, PlaceholderOk, PlaceholderFail, memory, Crash
<1> QED
  BY <1>1, <1>2, <1>3, <1>4, <1>5 DEF Next

\* No step but a crash takes a file away or makes a body shorter.
Grown(t) == t \in DOMAIN files' /\ Len(files[t].body) <= Len(files'[t].body)

LEMMA StepGrows ==
    ASSUME FilesGrow, IInv, OffHeader, Writer \/ Stop \/ UNCHANGED vars,
           NEW t \in DOMAIN files
    PROVE  Grown(t)
<1>1. /\ files \in [DOMAIN files -> SegmentFiles]
      /\ files[t].body \in Seq(Frames) /\ Len(files[t].body) \in Nat
  <2>1. files \in [DOMAIN files -> SegmentFiles]
    BY DEF IInv, TypeOK
  <2>2. files[t].body \in Seq(Frames)
    BY <2>1 DEF SegmentFiles
  <2> QED
    BY <2>1, <2>2, LenProperties
<1>2. ASSUME UNCHANGED files PROVE Grown(t)
  BY <1>1, <1>2 DEF Grown
<1>3. ASSUME NEW s, NEW h, files' = [files EXCEPT ![s].header = h]
      PROVE  Grown(t)
  <2>1. t \in DOMAIN files' /\ files'[t].body = files[t].body
    BY <1>1, <1>3 DEF SegmentFiles
  <2> QED
    BY <1>1, <2>1 DEF Grown
<1>4. ASSUME NEW b, currentSegment \in DOMAIN files, Len(body) <= Len(b),
             files' = [files EXCEPT ![currentSegment].body = b]
      PROVE  Grown(t)
  <2>1. CASE t = currentSegment
    <3>1. t \in DOMAIN files' /\ files'[t].body = b
      BY <1>1, <1>4, <2>1 DEF SegmentFiles
    <3> QED
      BY <1>4, <2>1, <3>1 DEF Grown, body
  <2>2. CASE t # currentSegment
    <3>1. t \in DOMAIN files' /\ files'[t] = files[t]
      BY <1>4, <2>2
    <3> QED
      BY <1>1, <3>1 DEF Grown
  <2> QED
    BY <2>1, <2>2
<1>5. CASE UNCHANGED vars \/ Tick \/ Start \/ Stop
           \/ (\E i \in Items : StoreItem(i)) \/ Return \/ Close
  BY <1>2, <1>5 DEF vars, Tick, Start, Stop, StoreItem, Return, Close
<1>6. CASE WriteSize
  <2>1. currentSegment # None /\ item \in Items /\ offset \in Nat
    BY <1>6 DEF WriteSize, IInv, CallOK, TypeOK, OffHeader
  <2>2. /\ currentSegment \in DOMAIN files /\ body \in Seq(Frames)
        /\ offset \in 0 .. Len(body)
    BY <2>1, BodyType DEF IInv
  <2>3. Len(body) <= Len(Torn(body, item)) /\ Len(body) <= Len(Opened(body, item))
    BY <2>1, <2>2, WritesGrow
  <2>4. \/ UNCHANGED files
        \/ files' = [files EXCEPT ![currentSegment].body = Torn(body, item)]
        \/ files' = [files EXCEPT ![currentSegment].body = Opened(body, item)]
    BY <1>6, <2>2 DEF WriteSize, WriteSizeOk, WriteSizeFail, body
  <2> QED
    BY <1>2, <1>4, <2>2, <2>3, <2>4
<1>7. CASE WriteData
  <2>1. currentSegment # None /\ item \in Items /\ pc = "data" /\ offset \in Nat
    BY <1>7 DEF WriteData, IInv, CallOK, TypeOK, OffHeader
  <2>2. /\ currentSegment \in DOMAIN files /\ body \in Seq(Frames)
        /\ offset \in 0 .. Len(body) - 1 /\ Len(body) \in Nat
    BY <2>1, BodyType DEF IInv, CallOK
  <2>3. Len(body) <= Len(Torn(body, item))
    BY <2>1, <2>2, WritesGrow
  <2>4. Len(body) <= Len(Filled(body, item))
    BY <2>1, <2>2, FilledType
  <2>5. \/ files' = [files EXCEPT ![currentSegment].body = Filled(body, item)]
        \/ files' = [files EXCEPT ![currentSegment].body = Torn(body, item)]
    <3>1. ~ (offset < 0)
      BY <2>2
    <3> QED
      BY <1>7, <3>1, Zenon DEF WriteData, WriteDataOk, WriteDataFail, body
  <2> QED
    BY <1>4, <2>2, <2>3, <2>4, <2>5
<1>8. CASE Finalize
  BY <1>2, <1>3, <1>8 DEF Finalize, SeekHeader, WriteCount, WriteHash, Sync,
     TearHeader, SealHeader
<1>9. CASE Create
  BY <1>1, <1>2, <1>9 DEF Create, CreateOk, CreateFail, Grown, FilesGrow
<1>10. CASE Placeholder
  BY <1>2, <1>3, <1>10 DEF Placeholder, PlaceholderOk, PlaceholderFail
<1> QED
  BY <1>5, <1>6, <1>7, <1>8, <1>9, <1>10 DEF Writer

-----------------------------------------------------------------------------
(* The control state of a replay.                                          *)

\* The head of a queue that is not empty is in it, and before all others.
LEMMA HeadOfQueue ==
    ASSUME IInv, SharedOK, replayQueue # {}
    PROVE  /\ NextSegment \in replayQueue /\ replayQueue \subseteq Nat
           /\ \A t \in replayQueue : NextSegment <= t
<1>1. replayQueue \in SUBSET Nat
  BY DEF IInv, TypeOK, Times, SharedOK
<1>2. \E t \in replayQueue : \A u \in replayQueue : t <= u
  BY <1>1, LeastNatural
<1> QED
  BY <1>1, <1>2 DEF NextSegment

\* What is readable when a replay begins is in the files.
LEMMA PlacesInFiles ==
    ASSUME IInv, NEW p \in Places
    PROVE  /\ p \in Nat \X Nat /\ p[1] \in DOMAIN files
           /\ p[2] \in 1 .. Len(files[p[1]].body)
<1>1. PICK t \in DOMAIN files : p \in {t} \X Readable(files[t].body)
  BY DEF Places
<1>2. t \in Nat
  BY DEF IInv, TypeOK, Times
<1>3. p = <<t, p[2]>> /\ p[1] = t /\ p[2] \in 1 .. Len(files[t].body)
  BY <1>1 DEF Readable
<1> QED
  BY <1>2, <1>3

\* The frame at the position of a pass is one of an item with a length.
LEMMA FrameAtPosition ==
    ASSUME IInv, ControlOK, NEW l \in Loops, loop[l].at = "read"
    PROVE  /\ Len(frames(l)) \in Nat
           /\ loop[l].passed < Len(frames(l)) =>
                 FrameBytes[frame(l).item] \in Nat \ {0}
<1>1. loop[l].segment \in DOMAIN files /\ loop[l] \in LoopStates
  BY DEF ControlOK, LoopOK
<1>2. frames(l) \in Seq(Frames)
  BY <1>1 DEF frames, IInv, TypeOK, SegmentFiles
<1>3. Len(frames(l)) \in Nat
  BY <1>2, LenProperties
<1>4. ASSUME loop[l].passed < Len(frames(l))
      PROVE  FrameBytes[frame(l).item] \in Nat \ {0}
  <2>1. loop[l].passed + 1 \in 1 .. Len(frames(l))
    BY <1>1, <1>3, <1>4 DEF LoopStates
  <2>2. frame(l) \in Frames
    BY <1>2, <2>1, ElementOfSeq DEF frame
  <2> QED
    BY <2>2, DLQAssumption DEF Frames, DLQAssumption
<1> QED
  BY <1>3, <1>4

\* A write to the directory leaves positions and due frames in their files.
LEMMA WriterControl ==
    ASSUME IInv, ControlOK, UNCHANGED replayVars,
           \A t \in DOMAIN files : t \in DOMAIN files' /\ (FilesGrow => Grown(t)),
           IInv'
    PROVE  ControlOK'
<1>0. UNCHANGED <<replayQueue, replayActive, replayCtx, cancelled, replays, loop, due>>
  BY DEF replayVars, shared, progress
<1>1. SharedOK'
  BY <1>0 DEF ControlOK, SharedOK
<1>2. ASSUME FilesGrow, NEW t \in DOMAIN files
      PROVE  /\ Len(files[t].body) \in Nat /\ Len(files'[t].body) \in Nat
             /\ t \in DOMAIN files'
             /\ Len(files[t].body) <= Len(files'[t].body)
  <2>1. t \in DOMAIN files' /\ Len(files[t].body) <= Len(files'[t].body)
    BY <1>2 DEF Grown
  <2>2. files[t].body \in Seq(Frames) /\ files'[t].body \in Seq(Frames)
    BY <2>1 DEF IInv, TypeOK, SegmentFiles
  <2> QED
    BY <2>1, <2>2, LenProperties
<1>3. ASSUME NEW l \in Loops PROVE LoopOK(l)'
  <2>1. LoopOK(l) /\ loop[l] \in LoopStates /\ loop' = loop /\ replays' = replays
    BY <1>0 DEF ControlOK
  <2>2. ASSUME loop[l].at = "read"
        PROVE  /\ loop[l].segment \in DOMAIN files'
               /\ FilesGrow => loop[l].passed <= Len(frames(l)')
    <3>1. /\ loop[l].segment \in DOMAIN files
          /\ FilesGrow => loop[l].passed <= Len(frames(l))
      BY <2>1, <2>2 DEF LoopOK
    <3>2. frames(l) = files[loop[l].segment].body
          /\ frames(l)' = files'[loop[l].segment].body
      BY <2>1 DEF frames
    <3> QED
      BY <1>2, <2>1, <3>1, <3>2 DEF LoopStates
  <2> QED
    BY <2>1, <2>2 DEF LoopOK
<1>4. DueOK'
  <2> SUFFICES ASSUME FilesGrow, NEW p \in due
               PROVE  /\ p \in Nat \X Nat /\ p[1] \in DOMAIN files'
                      /\ p[2] \in 1 .. Len(files'[p[1]].body)
    BY <1>0 DEF DueOK
  <2>1. /\ p \in Nat \X Nat /\ p[1] \in DOMAIN files
        /\ p[2] \in 1 .. Len(files[p[1]].body)
    BY DEF ControlOK, DueOK
  <2> QED
    BY <1>2, <2>1
<1> QED
  BY <1>0, <1>1, <1>3, <1>4 DEF ControlOK

\* The states a loop begins and ends in.
LEMMA LoopBegins ==
    /\ NoLoop \in LoopStates /\ NoLoop.watched = 0 /\ NoLoop.available = 0
    /\ NoLoop.at = "none"
    /\ NewLoop \in LoopStates /\ NewLoop.watched = 0 /\ NewLoop.available = 0
    /\ NewLoop.at = "select"
    /\ [NoLoop EXCEPT !.at = "ended"] \in LoopStates
    /\ [NoLoop EXCEPT !.at = "ended"].at = "ended"
    /\ [NoLoop EXCEPT !.at = "ended"].watched = 0
    /\ [NoLoop EXCEPT !.at = "ended"].available = 0
<1>1. NoLoop \in LoopStates
  BY DEF NoLoop, LoopStates
<1>2. ASSUME NEW r \in LoopStates, NEW a \in {"select", "ended"}
      PROVE  /\ [r EXCEPT !.at = a] \in LoopStates
             /\ [r EXCEPT !.at = a].at = a
             /\ [r EXCEPT !.at = a].watched = r.watched
             /\ [r EXCEPT !.at = a].available = r.available
  BY DEF LoopStates
<1>3. NoLoop.watched = 0 /\ NoLoop.available = 0 /\ NoLoop.at = "none"
  BY DEF NoLoop
<1> QED
  BY <1>1, <1>2, <1>3 DEF NewLoop

\* The requests: a new loop starts from nothing, the others go on.
LEMMA RequestsControl ==
    ASSUME IInv, ControlOK, StartReplay \/ StopReplay \/ CancelContext
    PROVE  ControlOK'
<1>1. CASE StartReplay
  <2>1. /\ replays' = replays + 1 /\ replays' \in Loops /\ UNCHANGED files
        /\ replays \in Nat /\ replayCtx \in 0 .. replays
    BY <1>1, ReplayAssumption
       DEF StartReplay, ControlOK, SharedOK, Loops, ReplayAssumption, vars
  <2>2. SharedOK'
    <3>1. /\ replayQueue' = DOMAIN files /\ replayActive' = TRUE
          /\ replayCtx' = replays + 1 /\ cancelled' = cancelled
      BY <1>1 DEF StartReplay
    <3>2. /\ replays' \in 0 .. MaxReplays /\ replayCtx' \in 0 .. replays'
          /\ replayCtx' # 0
      BY <2>1, <3>1 DEF Loops
    <3>3. cancelled \subseteq 1 .. replays'
      BY <2>1 DEF ControlOK, SharedOK
    <3> QED
      BY <2>1, <3>1, <3>2, <3>3 DEF SharedOK
  <2>3. NewLoop \in LoopStates /\ NewLoop.at = "select"
        /\ NewLoop.watched = 0 /\ NewLoop.available = 0
    BY LoopBegins
  <2>4. /\ loop' \in [Loops -> LoopStates] /\ loop'[replays + 1] = NewLoop
        /\ \A l \in Loops \ {replays + 1} : loop'[l] = loop[l]
    BY <1>1, <2>1, <2>3 DEF StartReplay, ControlOK
  <2>5. ASSUME NEW l \in Loops PROVE LoopOK(l)'
    <3>1. CASE l = replays + 1
      BY <2>1, <2>3, <2>4, <3>1, ReplayAssumption DEF LoopOK, ReplayAssumption
    <3>2. CASE l # replays + 1
      <4>1. loop'[l] = loop[l] /\ LoopOK(l) /\ loop[l] \in LoopStates
        BY <2>4, <3>2 DEF ControlOK
      <4>2. loop[l].watched <= replays'
        BY <2>1, <4>1 DEF LoopOK, LoopStates
      <4> QED
        BY <2>1, <4>1, <4>2 DEF LoopOK, frames
    <3> QED
      BY <3>1, <3>2
  <2>6. DueOK'
    BY <1>1, <2>1, PlacesInFiles DEF DueOK, StartReplay
  <2> QED
    BY <2>2, <2>4, <2>5, <2>6 DEF ControlOK
<1>2. CASE StopReplay \/ CancelContext
  <2>1. /\ UNCHANGED <<files, replayCtx, replays, loop, due>>
        /\ cancelled' = cancelled \cup {replayCtx} /\ replayCtx # 0
        /\ \/ replayActive' = FALSE /\ replayQueue' = {}
           \/ UNCHANGED <<replayActive, replayQueue>>
    BY <1>2 DEF StopReplay, CancelContext, progress, ControlOK, SharedOK, vars
  <2>2. replayCtx \in 1 .. replays
    BY <2>1 DEF ControlOK, SharedOK
  <2>3. SharedOK'
    <3>1. cancelled' \subseteq 1 .. replays'
      BY <2>1, <2>2 DEF ControlOK, SharedOK
    <3>2. /\ replayQueue' \subseteq DOMAIN files' /\ replayActive' \in BOOLEAN
          /\ ~replayActive' => replayQueue' = {}
      <4>1. CASE replayActive' = FALSE /\ replayQueue' = {}
        BY <4>1
      <4>2. CASE UNCHANGED <<replayActive, replayQueue>>
        BY <2>1, <4>2 DEF ControlOK, SharedOK
      <4> QED
        BY <2>1, <4>1, <4>2
    <3> QED
      BY <2>1, <3>1, <3>2 DEF ControlOK, SharedOK
  <2>4. \A l \in Loops : LoopOK(l)'
    BY <2>1 DEF ControlOK, LoopOK, frames
  <2>5. DueOK'
    BY <2>1 DEF ControlOK, DueOK
  <2> QED
    BY <2>1, <2>3, <2>4, <2>5 DEF ControlOK
<1> QED
  BY <1>1, <1>2

\* A step of one loop that only takes from the queue, or ends the replay.
LEMMA LoopStepControl ==
    ASSUME ControlOK, NEW l \in Loops,
           UNCHANGED <<files, replayCtx, cancelled, replays, due>>,
           replayQueue' \subseteq replayQueue,
           \/ replayActive' = replayActive
           \/ replayActive' = FALSE /\ replayQueue' = {},
           NEW r \in LoopStates, loop' = [loop EXCEPT ![l] = r], LoopOK(l)'
    PROVE  ControlOK'
<1>1. loop' \in [Loops -> LoopStates] /\ \A m \in Loops \ {l} : loop'[m] = loop[m]
  BY DEF ControlOK
<1>2. SharedOK'
  <2>1. replayActive' \in BOOLEAN /\ (~replayActive' => replayQueue' = {})
    <3>1. CASE replayActive' = replayActive
      BY <3>1 DEF ControlOK, SharedOK
    <3>2. CASE replayActive' = FALSE /\ replayQueue' = {}
      BY <3>2
    <3> QED
      BY <3>1, <3>2
  <2>2. replayActive' => replayCtx' # 0
    BY DEF ControlOK, SharedOK
  <2> QED
    BY <2>1, <2>2 DEF ControlOK, SharedOK
<1>3. ASSUME NEW m \in Loops, m # l PROVE LoopOK(m)'
  BY <1>1, <1>3 DEF ControlOK, LoopOK, frames
<1>4. DueOK'
  BY DEF ControlOK, DueOK
<1> QED
  BY <1>1, <1>2, <1>3, <1>4 DEF ControlOK

\* The select statement: its context, the mode, tokens up to the bound.
LEMMA SelectControl ==
    ASSUME ControlOK, NEW l \in Loops,
           Select(l) \/ Toggle(l) \/ TokenTick(l) \/ Cancelled(l)
    PROVE  ControlOK'
<1>1. /\ UNCHANGED <<files, replayQueue, replayActive, replayCtx, cancelled,
                     replays, due>>
      /\ loop[l] \in LoopStates /\ LoopOK(l)
      /\ replayCtx \in 0 .. replays /\ replays \in Nat
  BY DEF Select, Toggle, TokenTick, Cancelled, vars, shared, progress,
         ControlOK, SharedOK
<1>2. ASSUME NEW r \in LoopStates, loop' = [loop EXCEPT ![l] = r],
             r.at \in {"select", "wait", "cancelled", "next"},
             r.watched <= replays, r.available <= MaxBudget,
             r.at = "next" => r.available > 0
      PROVE  ControlOK'
  <2>1. loop'[l] = r
    BY <1>2 DEF ControlOK
  <2>2. LoopOK(l)'
    BY <1>1, <1>2, <2>1 DEF LoopOK
  <2> QED
    BY <1>1, <1>2, <2>2, LoopStepControl
<1>3. /\ loop[l].watched <= replays /\ loop[l].available <= MaxBudget
      /\ replayCtx \in Nat /\ replayCtx <= replays
  BY <1>1 DEF LoopOK
<1>4. CASE Select(l)
  <2> DEFINE r == [loop[l] EXCEPT !.at = "wait", !.watched = replayCtx]
  <2>1. r \in LoopStates /\ r.at = "wait" /\ r.watched = replayCtx
        /\ r.available = loop[l].available
    BY <1>1, <1>3 DEF LoopStates
  <2>2. loop' = [loop EXCEPT ![l] = r]
    BY <1>4 DEF Select
  <2> HIDE DEF r
  <2> QED
    BY <1>1, <1>2, <1>3, <2>1, <2>2
<1>5. CASE Toggle(l)
  <2> DEFINE r == [loop[l] EXCEPT !.at = "select", !.live = ~loop[l].live]
  <2>1. r \in LoopStates /\ r.at = "select" /\ r.watched = loop[l].watched
        /\ r.available = loop[l].available
    BY <1>1 DEF LoopStates
  <2>2. loop' = [loop EXCEPT ![l] = r]
    BY <1>5 DEF Toggle
  <2> HIDE DEF r
  <2> QED
    BY <1>2, <1>3, <2>1, <2>2
<1>6. CASE TokenTick(l)
  <2> DEFINE n == Refilled(l)
             a == IF ~loop[l].live /\ n > 0 THEN "next" ELSE "select"
             r == [loop[l] EXCEPT !.available = n, !.at = a]
  <2>1. n \in Int /\ n <= MaxBudget
    BY <1>1, ReplayAssumption DEF Refilled, LoopStates, ReplayAssumption
  <2>2. loop' = [loop EXCEPT ![l] = r]
    BY <1>6 DEF TokenTick
  <2> HIDE DEF n
  <2>3. a \in {"select", "next"} /\ (a = "next" => n > 0)
    OBVIOUS
  <2> HIDE DEF a
  <2>4. r \in LoopStates /\ r.at = a /\ r.watched = loop[l].watched
        /\ r.available = n
    BY <1>1, <2>1, <2>3 DEF LoopStates
  <2> HIDE DEF r
  <2> QED
    BY <1>2, <1>3, <2>1, <2>2, <2>3, <2>4
<1>7. CASE Cancelled(l)
  <2> DEFINE r == [loop[l] EXCEPT !.at = "cancelled"]
  <2>1. r \in LoopStates /\ r.at = "cancelled" /\ r.watched = loop[l].watched
        /\ r.available = loop[l].available
    BY <1>1 DEF LoopStates
  <2>2. loop' = [loop EXCEPT ![l] = r]
    BY <1>7 DEF Cancelled
  <2> HIDE DEF r
  <2> QED
    BY <1>2, <1>3, <2>1, <2>2
<1> QED
  BY <1>4, <1>5, <1>6, <1>7

\* The queue under the mutex: the end, the next segment, and leaving one.
LEMMA QueueControl ==
    ASSUME IInv, ControlOK, NEW l \in Loops,
           ClearCancelled(l) \/ TakeSegment(l) \/ DropSegment(l)
    PROVE  ControlOK'
<1>1. /\ UNCHANGED <<files, replayCtx, cancelled, replays, due>>
      /\ loop[l] \in LoopStates /\ LoopOK(l)
      /\ replays \in Nat
  BY DEF ClearCancelled, TakeSegment, DropSegment, vars, progress, ControlOK, SharedOK
<1>2. loop[l].watched <= replays /\ loop[l].available <= MaxBudget
  BY <1>1 DEF LoopOK
<1>3. CASE End(l)
  <2> DEFINE r == [NoLoop EXCEPT !.at = "ended"]
  <2>1. r \in LoopStates /\ r.at = "ended" /\ r.watched = 0 /\ r.available = 0
    BY LoopBegins
  <2>2. loop' = [loop EXCEPT ![l] = r] /\ replayActive' = FALSE /\ replayQueue' = {}
    BY <1>3 DEF End
  <2> HIDE DEF r
  <2>3. loop'[l] = r
    BY <2>2 DEF ControlOK
  <2>4. LoopOK(l)'
    BY <1>1, <2>1, <2>3, ReplayAssumption DEF LoopOK, ReplayAssumption
  <2> QED
    BY <1>1, <2>1, <2>2, <2>4, LoopStepControl
<1>4. CASE TakeSegment(l) /\ replayQueue # {} /\ ~End(l)
  <2> DEFINE r == [loop[l] EXCEPT !.at = "read", !.segment = NextSegment,
                                  !.passed = 0, !.processed = 0]
  <2>1. NextSegment \in DOMAIN files /\ NextSegment \in Nat
    BY <1>4, HeadOfQueue DEF ControlOK, SharedOK
  <2>2. /\ r \in LoopStates /\ r.at = "read" /\ r.segment = NextSegment
        /\ r.passed = 0 /\ r.processed = 0
        /\ r.watched = loop[l].watched /\ r.available = loop[l].available
    BY <1>1, <2>1 DEF LoopStates
  <2>3. loop' = [loop EXCEPT ![l] = r] /\ UNCHANGED <<replayActive, replayQueue>>
    BY <1>4 DEF TakeSegment
  <2> HIDE DEF r
  <2>4. loop'[l] = r
    BY <2>3 DEF ControlOK
  <2>5. frames(l)' = files[NextSegment].body
    BY <1>1, <2>2, <2>4 DEF frames
  <2>6. files[NextSegment].body \in Seq(Frames)
    BY <2>1 DEF IInv, TypeOK, SegmentFiles
  <2>7. Len(frames(l)') \in Nat
    BY <2>5, <2>6, LenProperties
  <2>8. loop[l].available > 0
    BY <1>1, <1>4 DEF TakeSegment, LoopOK
  <2>9. LoopOK(l)'
    BY <1>1, <1>2, <2>1, <2>2, <2>4, <2>7, <2>8 DEF LoopOK
  <2> QED
    BY <1>1, <2>2, <2>3, <2>9, LoopStepControl
<1>5. CASE DropSegment(l)
  <2> DEFINE a == IF loop[l].at = "done" THEN "next" ELSE "select"
             r == [loop[l] EXCEPT !.at = a, !.segment = None,
                                  !.passed = 0, !.processed = 0]
  <2>1. a \in {"next", "select"} /\ (a = "next" => loop[l].available > 0)
    BY <1>1 DEF LoopOK
  <2>2. loop' = [loop EXCEPT ![l] = r]
    BY <1>5 DEF DropSegment
  <2> HIDE DEF a
  <2>3. /\ r \in LoopStates /\ r.at = a
        /\ r.watched = loop[l].watched /\ r.available = loop[l].available
    BY <1>1, <2>1 DEF LoopStates
  <2> HIDE DEF r
  <2>4. loop'[l] = r
    BY <2>2 DEF ControlOK
  <2>5. LoopOK(l)'
    BY <1>1, <1>2, <2>1, <2>3, <2>4 DEF LoopOK
  <2>6. replayActive' = replayActive /\ replayQueue' \subseteq replayQueue
    BY <1>5 DEF DropSegment
  <2> QED
    BY <1>1, <2>2, <2>3, <2>5, <2>6, LoopStepControl
<1> QED
  BY <1>3, <1>4, <1>5 DEF ClearCancelled, TakeSegment

\* Reading: a pass goes on only while its budget lasts.
LEMMA ReadControl ==
    ASSUME IInv, ControlOK, NEW l \in Loops, ReadFrame(l)
    PROVE  ControlOK'
<1>1. /\ UNCHANGED <<files, replayQueue, replayActive, replayCtx, cancelled,
                     replays, due>>
      /\ loop[l] \in LoopStates /\ LoopOK(l) /\ loop[l].at = "read"
  BY DEF ReadFrame, EndOfFile, ReadError, DeliverFrame, vars, shared, progress,
         ControlOK
<1>2. /\ loop[l].watched <= replays /\ loop[l].available <= MaxBudget
      /\ loop[l].processed < loop[l].available /\ loop[l].processed \in Nat
      /\ loop[l].available \in Int /\ loop[l].passed \in Nat
      /\ loop[l].segment \in DOMAIN files
  BY <1>1 DEF LoopOK, LoopStates
<1>3. /\ Len(frames(l)) \in Nat
      /\ loop[l].passed < Len(frames(l)) => FrameBytes[frame(l).item] \in Nat \ {0}
  BY <1>1, FrameAtPosition
<1>4. ASSUME NEW r \in LoopStates, loop' = [loop EXCEPT ![l] = r], LoopOK(l)'
      PROVE  ControlOK'
  BY <1>1, <1>4, LoopStepControl
<1>5. CASE EndOfFile(l)
  <2> DEFINE n == loop[l].available - loop[l].processed
             r == [loop[l] EXCEPT !.at = "done", !.available = n]
  <2>1. n \in Int /\ n > 0 /\ n <= MaxBudget
    BY <1>2, ReplayAssumption DEF ReplayAssumption
  <2>2. loop' = [loop EXCEPT ![l] = r]
    BY <1>5 DEF EndOfFile
  <2> HIDE DEF n
  <2>3. /\ r \in LoopStates /\ r.at = "done"
        /\ r.watched = loop[l].watched /\ r.available = n
    BY <1>1, <2>1 DEF LoopStates
  <2> HIDE DEF r
  <2>4. loop'[l] = r
    BY <2>2 DEF ControlOK
  <2>5. LoopOK(l)'
    BY <1>1, <1>2, <2>1, <2>3, <2>4 DEF LoopOK
  <2> QED
    BY <1>4, <2>2, <2>3, <2>5
<1>6. CASE ReadError(l)
  <2> DEFINE r == [loop[l] EXCEPT !.at = "error"]
  <2>1. /\ r \in LoopStates /\ r.at = "error"
        /\ r.watched = loop[l].watched /\ r.available = loop[l].available
    BY <1>1 DEF LoopStates
  <2>2. loop' = [loop EXCEPT ![l] = r]
    BY <1>6 DEF ReadError
  <2> HIDE DEF r
  <2>3. loop'[l] = r
    BY <2>2 DEF ControlOK
  <2>4. LoopOK(l)'
    BY <1>1, <1>2, <2>1, <2>3 DEF LoopOK
  <2> QED
    BY <1>4, <2>1, <2>2, <2>4
<1>7. CASE DeliverFrame(l) /\ BudgetUsed(l)
  <2> DEFINE bytes == FrameBytes[frame(l).item]
             n == loop[l].available - (loop[l].processed + bytes)
             r == [loop[l] EXCEPT !.at = "select", !.segment = None,
                                  !.passed = 0, !.processed = 0, !.available = n]
  <2>1. bytes \in Nat
    BY <1>3, <1>7 DEF DeliverFrame
  <2>2. loop' = [loop EXCEPT ![l] = r]
    BY <1>7 DEF BudgetUsed
  <2> HIDE DEF bytes
  <2>3. n \in Int /\ n <= MaxBudget
    BY <1>2, <2>1, ReplayAssumption DEF ReplayAssumption
  <2> HIDE DEF n
  <2>4. /\ r \in LoopStates /\ r.at = "select"
        /\ r.watched = loop[l].watched /\ r.available = n
    BY <1>1, <2>3 DEF LoopStates
  <2> HIDE DEF r
  <2>5. loop'[l] = r
    BY <2>2 DEF ControlOK
  <2>6. LoopOK(l)'
    BY <1>1, <1>2, <2>3, <2>4, <2>5 DEF LoopOK
  <2> QED
    BY <1>4, <2>2, <2>4, <2>6
<1>8. CASE DeliverFrame(l) /\ BudgetLeft(l) /\ ~LimitReached(l)
  <2> DEFINE bytes == FrameBytes[frame(l).item]
             k == loop[l].passed + 1
             n == loop[l].processed + bytes
             r == [loop[l] EXCEPT !.passed = k, !.processed = n]
  <2>1. bytes \in Nat /\ loop[l].passed < Len(frames(l)) /\ ~ (n >= loop[l].available)
    BY <1>3, <1>8 DEF DeliverFrame, LimitReached
  <2>2. loop' = [loop EXCEPT ![l] = r]
    BY <1>8 DEF BudgetLeft
  <2> HIDE DEF bytes
  <2>3. k \in Nat /\ k <= Len(frames(l)) /\ n \in Nat /\ n < loop[l].available
    <3>1. k \in Nat /\ k <= Len(frames(l))
      BY <1>2, <1>3, <2>1
    <3>2. n \in Nat
      BY <1>2, <2>1
    <3> HIDE DEF n
    <3>3. n < loop[l].available
      BY <1>2, <2>1, <3>2
    <3> QED
      BY <3>1, <3>2, <3>3
  <2> HIDE DEF k, n
  <2>4. /\ r \in LoopStates /\ r.at = "read" /\ r.passed = k /\ r.processed = n
        /\ r.segment = loop[l].segment
        /\ r.watched = loop[l].watched /\ r.available = loop[l].available
    BY <1>1, <2>3 DEF LoopStates
  <2> HIDE DEF r
  <2>5. loop'[l] = r
    BY <2>2 DEF ControlOK
  <2>6. frames(l)' = frames(l)
    BY <1>1, <2>4, <2>5 DEF frames
  <2>7. LoopOK(l)'
    BY <1>1, <1>2, <2>3, <2>4, <2>5, <2>6 DEF LoopOK
  <2> QED
    BY <1>4, <2>2, <2>4, <2>7
<1> QED
  BY <1>5, <1>6, <1>7, <1>8 DEF ReadFrame, DeliverFrame

\* A crash ends every loop.
LEMMA CrashControl == ASSUME ControlOK, ReplayCrash PROVE ControlOK'
<1>1. /\ replayQueue' = {} /\ replayActive' = FALSE /\ replayCtx' = 0
      /\ cancelled' = {} /\ replays' = replays /\ replays \in 0 .. MaxReplays
      /\ due' = {}
  BY DEF ReplayCrash, ControlOK, SharedOK
<1>2. SharedOK'
  <2>1. replays \in 0 .. MaxReplays /\ 0 \in 0 .. replays
    BY <1>1, ReplayAssumption DEF ReplayAssumption
  <2> QED
    BY <1>1, <2>1, Zenon DEF SharedOK
<1>3. \A l \in Loops :
         /\ loop'[l].watched = 0 /\ loop'[l].available = 0
         /\ loop'[l].at \in {"none", "ended"}
  BY LoopBegins DEF ReplayCrash
<1>4. loop' \in [Loops -> LoopStates]
  BY LoopBegins DEF ReplayCrash
<1>5. ASSUME NEW l \in Loops PROVE LoopOK(l)'
  <2>1. /\ loop'[l].watched = 0 /\ loop'[l].available = 0
        /\ loop'[l].at \in {"none", "ended"}
    BY <1>3
  <2> QED
    BY <1>1, <2>1, ReplayAssumption DEF LoopOK, ReplayAssumption
<1>6. DueOK'
  BY <1>1 DEF DueOK
<1> QED
  BY <1>2, <1>4, <1>5, <1>6 DEF ControlOK

\* Stop of the extension touches the context and, with Stop, the write path.
LEMMA StopControl ==
    ASSUME ControlOK, StopExtension
    PROVE  ControlOK'
<1>1. UNCHANGED <<files, replayQueue, replayActive, replayCtx, replays, loop, due>>
  BY DEF StopExtension, Stop, vars, progress
<1>2. SharedOK'
  <2>1. cancelled' \subseteq 1 .. replays
    BY DEF StopExtension, ControlOK, SharedOK
  <2> QED
    BY <1>1, <2>1 DEF ControlOK, SharedOK
<1>3. \A l \in Loops : LoopOK(l)'
  BY <1>1 DEF ControlOK, LoopOK, frames
<1>4. DueOK'
  BY <1>1 DEF ControlOK, DueOK
<1> QED
  BY <1>1, <1>2, <1>3, <1>4 DEF ControlOK

LEMMA StepControl ==
    ASSUME IInv, FilesGrow => OffHeader, ControlOK, [ReplayNext]_allVars
    PROVE  ControlOK'
<1>1. IInv'
  BY StorageStep, StepIInv
<1>2. CASE (Writer /\ UNCHANGED replayVars) \/ UNCHANGED allVars
  <2>1. UNCHANGED replayVars /\ (Writer \/ Stop \/ UNCHANGED vars)
    BY <1>2 DEF allVars
  <2>2. \A t \in DOMAIN files : FilesGrow => Grown(t)
    BY <2>1, StepGrows
  <2>3. \A t \in DOMAIN files : t \in DOMAIN files'
    BY <2>1, DirectoryKept, StorageStep
  <2> QED
    BY <1>1, <2>1, <2>2, <2>3, WriterControl
<1>3. CASE StartReplay \/ StopReplay \/ CancelContext
  BY <1>3, RequestsControl
<1>4. CASE StopExtension
  BY <1>4, StopControl
<1>5. ASSUME NEW l \in Loops, Step(l) PROVE ControlOK'
  BY <1>5, SelectControl, QueueControl, ReadControl DEF Step
<1>6. CASE ReplayCrash
  BY <1>6, CrashControl
<1> QED
  BY <1>2, <1>3, <1>4, <1>5, <1>6 DEF ReplayNext

LEMMA InitControl == ReplayInit => ControlOK
<1> SUFFICES ASSUME ReplayInit PROVE ControlOK
  OBVIOUS
<1>1. SharedOK
  <2>1. 0 \in 0 .. MaxReplays /\ 0 \in 0 .. 0
    BY ReplayAssumption DEF ReplayAssumption
  <2> QED
    BY <2>1, Zenon DEF ReplayInit, SharedOK
<1>2. loop \in [Loops -> LoopStates] /\ \A l \in Loops : loop[l] = NoLoop
  BY LoopBegins DEF ReplayInit
<1>3. \A l \in Loops : LoopOK(l)
  BY <1>1, <1>2, LoopBegins, ReplayAssumption DEF SharedOK, LoopOK, ReplayAssumption
<1>4. DueOK
  BY DEF ReplayInit, DueOK
<1> QED
  BY <1>1, <1>2, <1>3, <1>4 DEF ControlOK

\* The control state is sound throughout, however many loops run.
ReplayInv == IInv /\ (FilesGrow => OffHeader) /\ ControlOK

LEMMA ControlInvariant == ReplaySpec => []ReplayInv
<1>1. ReplayInit => ReplayInv
  BY InitIInv, InitControl DEF ReplayInv, ReplayInit, Init, OffHeader
<1>2. ReplayInv /\ [ReplayNext]_allVars => ReplayInv'
  <2> SUFFICES ASSUME ReplayInv, [ReplayNext]_allVars PROVE ReplayInv'
    OBVIOUS
  <2>1. [Next]_vars
    BY StorageStep
  <2>2. FilesGrow => OffHeader'
    BY <2>1, StepOffset DEF ReplayInv, FilesGrow
  <2> QED
    BY <2>1, <2>2, StepIInv, StepControl DEF ReplayInv
<1> QED
  BY <1>1, <1>2, PTL DEF ReplaySpec

\* When no write can shorten a file, a pass of any of the loops, overlapping
\* or not, never stands beyond the end of its segment and never goes on with
\* its budget used up (lines 520-617).
THEOREM ReplayTypeCorrect == FilesGrow => (ReplaySpec => []ReplayTypeOK)
<1> SUFFICES ASSUME FilesGrow PROVE ReplaySpec => []ReplayTypeOK
  OBVIOUS
<1>1. ReplayInv => ReplayTypeOK
  <2> SUFFICES ASSUME IInv, ControlOK PROVE ReplayTypeOK
    BY DEF ReplayInv
  <2>1. ASSUME NEW l \in Loops
        PROVE  /\ loop[l] \in LoopStates
               /\ loop[l].watched \in 0 .. replays
               /\ loop[l].available <= MaxBudget
               /\ loop[l].at = "read" =>
                     /\ loop[l].segment \in DOMAIN files
                     /\ loop[l].passed \in 0 .. Len(frames(l))
                     /\ loop[l].processed < loop[l].available
    <3>1. loop[l] \in LoopStates /\ LoopOK(l) /\ replays \in Nat
      BY DEF ControlOK, SharedOK
    <3>2. loop[l].at = "read" => Len(frames(l)) \in Nat
      BY FrameAtPosition
    <3> QED
      BY <3>1, <3>2 DEF LoopOK, LoopStates
  <2> QED
    BY <2>1 DEF ReplayTypeOK, IInv, ControlOK, SharedOK, LoopStates
<1> QED
  BY <1>1, ControlInvariant, PTL

-----------------------------------------------------------------------------
(* One loop at a time.                                                     *)

\* A step of a loop is one of a loop that runs, and leaves the others alone.
LEMMA OthersStay ==
    ASSUME ControlOK, NEW l \in Loops, Step(l)
    PROVE  /\ Running(l)
           /\ \A m \in Loops \ {l} : loop'[m] = loop[m]
           /\ UNCHANGED <<replayCtx, cancelled, replays, due>>
<1>1. loop \in [Loops -> LoopStates]
  BY DEF ControlOK
<1>2. CASE Select(l) \/ Toggle(l) \/ TokenTick(l) \/ Cancelled(l)
  BY <1>1, <1>2 DEF Select, Toggle, TokenTick, Cancelled, Running, shared, progress
<1>3. CASE ClearCancelled(l) \/ TakeSegment(l) \/ DropSegment(l)
  BY <1>1, <1>3 DEF ClearCancelled, TakeSegment, DropSegment, End, Running, progress
<1>4. CASE ReadFrame(l)
  BY <1>1, <1>4 DEF ReadFrame, EndOfFile, ReadError, DeliverFrame, BudgetUsed,
     BudgetLeft, Running, shared, progress
<1> QED
  BY <1>2, <1>3, <1>4 DEF Step

\* Where a step takes the loop.
LEMMA LoopMoves ==
    ASSUME ControlOK, NEW l \in Loops, Step(l)
    PROVE  \/ /\ UNCHANGED replayActive
              /\ \/ loop'[l].at \in {"select", "next", "read", "done", "error"}
                 \/ loop'[l].at = "wait" /\ loop'[l].watched = replayCtx
                 \/ /\ loop[l].at = "wait" /\ loop[l].watched \in cancelled
                    /\ loop'[l].at = "cancelled"
           \/ replayActive' = FALSE /\ loop'[l].at = "ended"
<1>1. loop \in [Loops -> LoopStates] /\ loop[l] \in LoopStates
  BY DEF ControlOK
<1>2. CASE Select(l) \/ Toggle(l) \/ TokenTick(l) \/ Cancelled(l)
  BY <1>1, <1>2 DEF Select, Toggle, TokenTick, Cancelled, shared, LoopStates
<1>3. CASE End(l)
  BY <1>1, <1>3, LoopBegins DEF End
<1>4. CASE (TakeSegment(l) /\ ~End(l)) \/ DropSegment(l)
  BY <1>1, <1>4 DEF TakeSegment, DropSegment, LoopStates
<1>5. CASE ReadFrame(l)
  BY <1>1, <1>5 DEF ReadFrame, EndOfFile, ReadError, DeliverFrame, BudgetUsed,
     BudgetLeft, shared, LoopStates
<1> QED
  BY <1>2, <1>3, <1>4, <1>5 DEF Step, ClearCancelled

LEMMA StepOneLoop ==
    ASSUME ~Overlap, ControlOK, OneLoop, [ReplayNext]_allVars
    PROVE  OneLoop'
<1>1. CASE (Writer /\ UNCHANGED replayVars) \/ UNCHANGED allVars
  BY <1>1 DEF allVars, replayVars, shared, OneLoop, Running
<1>2. CASE StartReplay
  <2>1. /\ replays' = replays + 1 /\ replays' \in Loops /\ replayCtx' = replays'
        /\ replayActive' = TRUE
        /\ \A l \in Loops : ~Running(l)
    BY <1>2, ReplayAssumption
       DEF StartReplay, ControlOK, SharedOK, Loops, ReplayAssumption
  <2>2. /\ loop'[replays'] = NewLoop
        /\ \A l \in Loops \ {replays'} : loop'[l] = loop[l]
    BY <1>2, <2>1 DEF StartReplay, ControlOK
  <2>3. ASSUME NEW l \in Loops, l # replays'
        PROVE  loop'[l].at \in {"none", "ended"}
    BY <2>1, <2>2, <2>3 DEF Running
  <2>4. loop'[replays'].at = "select"
    BY <2>2, LoopBegins
  <2> QED
    BY <2>1, <2>3, <2>4 DEF OneLoop, Running
<1>3. CASE StopReplay
  BY <1>3 DEF StopReplay, OneLoop, Running
<1>4. CASE CancelContext \/ StopExtension
  BY <1>4 DEF CancelContext, StopExtension, OneLoop, Running
<1>5. ASSUME NEW l \in Loops, Step(l) PROVE OneLoop'
  <2>1. /\ Running(l) /\ l = replays /\ replayCtx = replays
        /\ replayActive \/ replayCtx \in cancelled
        /\ \A m \in Loops \ {l} : loop'[m] = loop[m] /\ ~Running(m)
        /\ UNCHANGED <<replayCtx, cancelled, replays>>
    BY <1>5, OthersStay DEF OneLoop
  <2>2. ASSUME NEW m \in Loops, m # l PROVE loop'[m].at \in {"none", "ended"}
    BY <2>1, <2>2 DEF Running
  <2>3. loop[l].at = "wait" => loop[l].watched = replayCtx
    BY DEF OneLoop
  <2> QED
    BY <1>5, <2>1, <2>2, <2>3, LoopMoves DEF OneLoop, Running
<1>6. CASE ReplayCrash
  <2>1. \A l \in Loops : loop'[l].at \in {"none", "ended"}
    BY <1>6, LoopBegins DEF ReplayCrash
  <2> QED
    BY <1>6, <2>1 DEF ReplayCrash, OneLoop, Running
<1> QED
  BY <1>1, <1>2, <1>3, <1>4, <1>5, <1>6 DEF ReplayNext

LEMMA OneLoopInvariant == ~Overlap => (ReplaySpec => [](ReplayInv /\ OneLoop))
<1> SUFFICES ASSUME ~Overlap PROVE ReplaySpec => [](ReplayInv /\ OneLoop)
  OBVIOUS
<1>1. ReplayInit => OneLoop
  BY LoopBegins DEF ReplayInit, OneLoop, Running
<1>2. ReplayInv /\ OneLoop /\ [ReplayNext]_allVars => OneLoop'
  BY StepOneLoop DEF ReplayInv
<1> QED
  BY <1>1, <1>2, ControlInvariant, PTL DEF ReplaySpec

\* While StartReplay answers that a replay is in progress, the loop it started
\* last runs, whatever fails, as long as the caller waits for one to be gone
\* before it starts the next (lines 216-246 and 474-551).
THEOREM ReplayNotWedged == ~Overlap => (ReplaySpec => []ActiveHasLoop)
BY OneLoopInvariant, PTL DEF OneLoop, ActiveHasLoop

-----------------------------------------------------------------------------
(* Oldest first, and completely.                                           *)

\* Whoever is not running has no position to be right about.
LEMMA OthersSettled ==
    ASSUME ControlOK, OneLoop, NEW l \in Loops, Step(l),
           QueueSettled', PassSettled(l)'
    PROVE  InOrderInv'
<1>1. ASSUME NEW m \in Loops, m # l PROVE PassSettled(m)'
  <2>1. loop'[m] = loop[m] /\ ~Running(m)
    BY <1>1, OthersStay DEF OneLoop
  <2> QED
    BY <2>1 DEF PassSettled, Running
<1> QED
  BY <1>1 DEF InOrderInv

\* The loop that runs, within the select statement and at its end.
LEMMA SelectInOrder ==
    ASSUME ControlOK, OneLoop, InOrderInv, NEW l \in Loops,
           \/ Select(l) \/ Toggle(l) \/ TokenTick(l) \/ Cancelled(l)
           \/ ClearCancelled(l) \/ (TakeSegment(l) /\ End(l))
    PROVE  InOrderInv'
<1>1. Step(l) /\ loop \in [Loops -> LoopStates] /\ loop[l] \in LoopStates
  BY DEF Step, ControlOK
<1>2. loop'[l].at \in {"select", "wait", "cancelled", "next", "ended"}
  <2>1. CASE End(l)
    BY <1>1, <2>1, LoopBegins DEF End
  <2>2. CASE Select(l) \/ Toggle(l) \/ TokenTick(l) \/ Cancelled(l)
    BY <1>1, <2>2 DEF Select, Toggle, TokenTick, Cancelled, LoopStates
  <2> QED
    BY <2>1, <2>2 DEF ClearCancelled
<1>3. PassSettled(l)'
  BY <1>2 DEF PassSettled
<1>4. UNCHANGED <<replayCtx, cancelled, due, delivered, failed>>
  BY DEF Select, Toggle, TokenTick, Cancelled, ClearCancelled, TakeSegment,
     shared, progress
<1>5. QueueSettled'
  <2>1. CASE replayQueue' = replayQueue
    BY <1>4, <2>1 DEF InOrderInv, QueueSettled, Unstopped, Settled
  <2>2. CASE ClearCancelled(l)
    <3>1. replayCtx \in cancelled /\ replayQueue' = {}
      BY <2>2 DEF ClearCancelled, End, OneLoop
    <3> QED
      BY <1>4, <3>1 DEF QueueSettled, Unstopped
  <2>3. CASE TakeSegment(l) /\ End(l)
    <3>1. replayQueue' = {} /\ (replayQueue = {} \/ loop'[l].at = "read")
      <4>1. TakeSegment(l) /\ replayQueue # {} => loop'[l].at = "read"
        BY <1>1 DEF TakeSegment, End, LoopStates
      <4> QED
        BY <2>3, <4>1 DEF End
    <3> QED
      BY <1>2, <2>1, <3>1
  <2> QED
    BY <2>1, <2>2, <2>3 DEF Select, Toggle, TokenTick, Cancelled, shared
<1> QED
  BY <1>1, <1>3, <1>5, OthersSettled

\* The loop takes the head of the queue: what is older has left it.
LEMMA TakeInOrder ==
    ASSUME FilesGrow, IInv, ControlOK, OneLoop, InOrderInv, NEW l \in Loops,
           TakeSegment(l), ~End(l)
    PROVE  InOrderInv'
<1>1. /\ Step(l) /\ loop \in [Loops -> LoopStates] /\ loop[l] \in LoopStates
      /\ SharedOK
  BY DEF Step, ControlOK
<1>2. /\ UNCHANGED <<replayQueue, replayCtx, cancelled, due, delivered, failed>>
      /\ replayQueue # {} /\ NextSegment' = NextSegment
      /\ loop'[l].at = "read" /\ loop'[l].segment = NextSegment
      /\ loop'[l].passed = 0
  <2>1. /\ UNCHANGED <<replayQueue, replayCtx, cancelled, due, delivered, failed>>
        /\ replayQueue # {}
        /\ loop' = [loop EXCEPT ![l].at = "read", ![l].segment = NextSegment,
                                ![l].passed = 0, ![l].processed = 0]
    BY Zenon DEF TakeSegment, progress
  <2>2. NextSegment' = NextSegment
    BY <2>1 DEF NextSegment
  <2>3. /\ loop'[l].at = "read" /\ loop'[l].segment = NextSegment
        /\ loop'[l].passed = 0
    BY <1>1, <2>1 DEF LoopStates
  <2> QED
    BY <2>1, <2>2, <2>3
<1>3. QueueSettled /\ QueueSettled'
  BY <1>2 DEF InOrderInv, QueueSettled, Unstopped, Settled
<1>4. ASSUME NEW q \in due,
             q[1] < NextSegment \/ (q[1] = NextSegment /\ q[2] <= 0)
      PROVE  Settled(q)
  <2>1. q \in Nat \X Nat /\ q[2] \in 1 .. Len(files[q[1]].body)
    BY DEF ControlOK, DueOK
  <2>2. ~ (q[2] <= 0)
    BY <2>1
  <2>3. NextSegment \in Nat /\ \A t \in replayQueue : NextSegment <= t
    BY <1>1, <1>2, HeadOfQueue
  <2>4. q[1] \notin replayQueue
    BY <1>4, <2>1, <2>2, <2>3
  <2> QED
    BY <1>2, <1>3, <2>4 DEF QueueSettled
<1>5. PassSettled(l)'
  BY <1>2, <1>4 DEF PassSettled, Unstopped, Settled
<1> QED
  BY <1>1, <1>3, <1>5, OthersSettled

\* The segment that is left has been settled.
LEMMA DropInOrder ==
    ASSUME FilesGrow, IInv, ControlOK, OneLoop, InOrderInv, NEW l \in Loops,
           DropSegment(l)
    PROVE  InOrderInv'
<1>1. /\ Step(l) /\ loop \in [Loops -> LoopStates] /\ loop[l] \in LoopStates
      /\ PassSettled(l) /\ QueueSettled
  BY DEF Step, ControlOK, InOrderInv
<1>2. /\ UNCHANGED <<replayCtx, cancelled, due, delivered, failed>>
      /\ replayQueue' = IF replayQueue = {} THEN {} ELSE replayQueue \ {NextSegment}
      /\ loop[l].at \in {"done", "error"}
      /\ loop'[l].at \in {"next", "select"}
  BY <1>1 DEF DropSegment, progress, LoopStates
<1>3. QueueSettled'
  <2> SUFFICES ASSUME replayQueue # {}, NEW q \in due, q[1] \notin replayQueue'
               PROVE  Settled(q)
    BY <1>1, <1>2 DEF QueueSettled, PassSettled, Unstopped, Settled
  <2>1. CASE q[1] \notin replayQueue
    BY <1>1, <2>1 DEF QueueSettled
  <2>2. CASE q[1] = NextSegment
    <3>1. q[1] = loop[l].segment
      BY <1>1, <1>2, <2>2 DEF PassSettled
    <3> QED
      BY <1>1, <1>2, <3>1 DEF PassSettled, Settled
  <2> QED
    BY <1>2, <2>1, <2>2
<1>4. PassSettled(l)'
  BY <1>2 DEF PassSettled
<1> QED
  BY <1>1, <1>3, <1>4, OthersSettled

\* A pass settles the frames it goes past.
LEMMA ReadInOrder ==
    ASSUME FilesGrow, IInv, ControlOK, OneLoop, InOrderInv, NEW l \in Loops,
           ReadFrame(l)
    PROVE  InOrderInv'
<1>1. /\ Step(l) /\ loop \in [Loops -> LoopStates] /\ loop[l] \in LoopStates
      /\ PassSettled(l) /\ QueueSettled
      /\ loop[l].at = "read" /\ loop[l].passed \in Nat
  BY DEF Step, ControlOK, InOrderInv, ReadFrame, LoopStates
<1>2. /\ UNCHANGED <<replayQueue, replayCtx, cancelled, due>>
      /\ NextSegment' = NextSegment
      /\ delivered \subseteq delivered' /\ failed \subseteq failed'
  BY DEF ReadFrame, EndOfFile, ReadError, DeliverFrame, shared, progress, NextSegment
<1>3. \A q : Settled(q) => Settled(q)'
  BY <1>2 DEF Settled
<1>4. QueueSettled'
  BY <1>1, <1>2, <1>3 DEF QueueSettled, Unstopped
<1>5. PassSettled(l)'
  <2>0. /\ Unstopped' = Unstopped
        /\ Unstopped => replayQueue # {}
        /\ replayQueue # {} => loop[l].segment = NextSegment
        /\ \A q \in due :
              q[1] < loop[l].segment
                  \/ (q[1] = loop[l].segment /\ q[2] <= loop[l].passed) => Settled(q)'
    BY <1>1, <1>2, <1>3 DEF PassSettled, Unstopped
  <2>1. CASE EndOfFile(l)
    <3>1. /\ loop'[l].at = "done" /\ loop'[l].segment = loop[l].segment
          /\ loop[l].passed >= Len(frames(l))
      BY <1>1, <2>1 DEF EndOfFile, LoopStates
    <3>2. ASSUME NEW q \in due, q[1] = loop[l].segment PROVE Settled(q)'
      <4>1. q[2] \in 1 .. Len(frames(l))
        BY <3>2 DEF ControlOK, DueOK, frames
      <4>2. Len(frames(l)) \in Nat
        BY <1>1, FrameAtPosition
      <4>3. q[2] <= loop[l].passed
        BY <1>1, <3>1, <4>1, <4>2
      <4> QED
        BY <2>0, <3>2, <4>3
    <3> QED
      BY <1>2, <2>0, <3>1, <3>2 DEF PassSettled
  <2>2. CASE ReadError(l)
    <3>1. /\ loop'[l].at = "error" /\ loop'[l].segment = loop[l].segment
          /\ loop[l].segment \in failed'
      BY <1>1, <2>2 DEF ReadError, LoopStates
    <3> QED
      BY <1>2, <2>0, <3>1 DEF PassSettled
  <2>3. CASE DeliverFrame(l) /\ BudgetUsed(l)
    <3>1. loop'[l].at = "select"
      BY <1>1, <2>3 DEF BudgetUsed, LoopStates
    <3> QED
      BY <3>1 DEF PassSettled
  <2>4. CASE DeliverFrame(l) /\ BudgetLeft(l)
    <3>1. /\ loop'[l].at = "read" /\ loop'[l].segment = loop[l].segment
          /\ loop'[l].passed = loop[l].passed + 1
          /\ <<loop[l].segment, loop[l].passed + 1>> \in delivered'
      BY <1>1, <2>4 DEF DeliverFrame, BudgetLeft, LoopStates
    <3>2. ASSUME NEW q \in due, q[1] = loop[l].segment, q[2] <= loop[l].passed + 1
          PROVE  Settled(q)'
      <4>1. q \in Nat \X Nat
        BY DEF ControlOK, DueOK
      <4>2. q[2] <= loop[l].passed \/ q[2] = loop[l].passed + 1
        BY <1>1, <3>2, <4>1
      <4>3. CASE q[2] = loop[l].passed + 1
        <5>1. q = <<loop[l].segment, loop[l].passed + 1>>
          BY <3>2, <4>1, <4>3
        <5> QED
          BY <3>1, <5>1 DEF Settled
      <4> QED
        BY <2>0, <3>2, <4>2, <4>3
    <3> QED
      BY <1>2, <2>0, <3>1, <3>2 DEF PassSettled
  <2> QED
    BY <2>1, <2>2, <2>3, <2>4 DEF ReadFrame, DeliverFrame
<1> QED
  BY <1>1, <1>4, <1>5, OthersSettled

\* Requests, the clock, the write path and crashes.
LEMMA RequestsInOrder ==
    ASSUME IInv, ControlOK, OneLoop, InOrderInv, ~Overlap,
           \/ Writer /\ UNCHANGED replayVars
           \/ UNCHANGED allVars
           \/ StartReplay \/ StopReplay \/ CancelContext \/ StopExtension
           \/ ReplayCrash
    PROVE  InOrderInv'
<1>1. CASE (Writer /\ UNCHANGED replayVars) \/ UNCHANGED allVars
  BY <1>1 DEF allVars, replayVars, shared, progress, InOrderInv, QueueSettled,
     PassSettled, Unstopped, Settled, NextSegment
<1>2. CASE StartReplay
  <2>1. \A l \in Loops : loop'[l].at \in {"none", "ended", "select"}
    BY <1>2, LoopBegins DEF StartReplay, ControlOK, Running
  <2>2. \A q \in due' : q[1] \in replayQueue'
    BY <1>2, PlacesInFiles DEF StartReplay
  <2> QED
    BY <2>1, <2>2 DEF InOrderInv, QueueSettled, PassSettled
<1>3. CASE StopReplay
  <2>1. /\ replayQueue' = {} /\ ~Unstopped' /\ UNCHANGED <<loop, due, delivered, failed>>
    BY <1>3 DEF StopReplay, Unstopped, progress
  <2> QED
    BY <2>1 DEF InOrderInv, QueueSettled, PassSettled, Settled
<1>4. CASE CancelContext \/ StopExtension
  <2>1. /\ UNCHANGED <<replayQueue, loop, due, delivered, failed>>
        /\ NextSegment' = NextSegment /\ (Unstopped' => Unstopped)
    BY <1>4 DEF CancelContext, StopExtension, Unstopped, progress, NextSegment
  <2> QED
    BY <2>1 DEF InOrderInv, QueueSettled, PassSettled, Settled
<1>5. CASE ReplayCrash
  <2>1. \A l \in Loops : loop'[l].at \in {"none", "ended"}
    BY <1>5, LoopBegins DEF ReplayCrash
  <2>2. due' = {}
    BY <1>5 DEF ReplayCrash
  <2> QED
    BY <2>1, <2>2 DEF InOrderInv, QueueSettled, PassSettled
<1> QED
  BY <1>1, <1>2, <1>3, <1>4, <1>5

\* Every step keeps the order, as long as no write can shorten a file and one
\* loop runs at a time.
InOrderAlways == ReplayInv /\ OneLoop /\ InOrderInv

LEMMA InOrderInvariant ==
    FilesGrow /\ ~Overlap => (ReplaySpec => []InOrderAlways)
<1> SUFFICES ASSUME FilesGrow, ~Overlap PROVE ReplaySpec => []InOrderAlways
  OBVIOUS
<1>1. ReplayInit => InOrderInv
  BY LoopBegins DEF ReplayInit, InOrderInv, QueueSettled, PassSettled
<1>2. ReplayInv /\ OneLoop /\ InOrderInv /\ [ReplayNext]_allVars => InOrderInv'
  <2> SUFFICES ASSUME IInv, ControlOK, OneLoop, InOrderInv, [ReplayNext]_allVars
               PROVE  InOrderInv'
    BY DEF ReplayInv
  <2>1. ASSUME NEW l \in Loops, Step(l) PROVE InOrderInv'
    BY <2>1, SelectInOrder, TakeInOrder, DropInOrder, ReadInOrder DEF Step
  <2> QED
    BY <2>1, RequestsInOrder DEF ReplayNext
<1> QED
  BY <1>1, <1>2, OneLoopInvariant, PTL DEF ReplaySpec, InOrderAlways

\* A replay that comes to its end by itself has delivered every frame that was
\* readable when it began, but for the segments it gave up with an error, as
\* long as no second loop overlaps it and no write shortens a file (lines
\* 214-267 and 474-617).
THEOREM ReplayIsComplete ==
    FilesGrow /\ ~Overlap => (ReplaySpec => []ReplayComplete)
<1> SUFFICES ASSUME FilesGrow, ~Overlap PROVE ReplaySpec => []ReplayComplete
  OBVIOUS
<1>1. InOrderAlways => ReplayComplete
  BY DEF InOrderAlways, ReplayInv, ControlOK, SharedOK, InOrderInv, QueueSettled,
     Unstopped, Settled, EndedByItself, ReplayComplete
<1> QED
  BY <1>1, InOrderInvariant, PTL

-----------------------------------------------------------------------------
(* Replay implements InOrderReplay.                                        *)

\* The abstract state, and what a step may do to it.
promised == <<due, delivered, failed, EndedByItself>>

\* Only the end of a loop that nobody stopped completes a replay.
LEMMA NotEnded ==
    ASSUME OneLoop, NEW l \in Loops, Running(l)
    PROVE  ~EndedByItself
BY DEF OneLoop, EndedByItself

LEMMA RequestsImplement ==
    ASSUME InOrderAlways,
           \/ Writer /\ UNCHANGED replayVars
           \/ UNCHANGED allVars
           \/ StartReplay \/ StopReplay \/ CancelContext \/ StopExtension
           \/ ReplayCrash
    PROVE  InOrder!Begin \/ UNCHANGED promised
<1>1. CASE (Writer /\ UNCHANGED replayVars) \/ UNCHANGED allVars
  BY <1>1 DEF allVars, replayVars, shared, progress, promised, EndedByItself
<1>2. CASE StartReplay \/ ReplayCrash
  BY <1>2 DEF StartReplay, ReplayCrash, InOrder!Begin, EndedByItself
<1>3. CASE StopReplay
  BY <1>3 DEF StopReplay, progress, promised, EndedByItself
<1>4. CASE CancelContext
  <2>1. ~EndedByItself
    BY <1>4, NotEnded DEF CancelContext, InOrderAlways
  <2>2. EndedByItself' = EndedByItself
    BY <1>4, <2>1 DEF CancelContext, EndedByItself
  <2>3. UNCHANGED <<due, delivered, failed>>
    BY <1>4 DEF CancelContext, progress
  <2> QED
    BY <2>2, <2>3, Zenon DEF promised
<1>5. CASE StopExtension
  <2>1. UNCHANGED <<replayActive, replayCtx, progress>>
        /\ cancelled' = IF replayActive THEN cancelled \cup {replayCtx} ELSE cancelled
    BY <1>5 DEF StopExtension
  <2>2. EndedByItself' = EndedByItself
    BY <2>1 DEF EndedByItself
  <2>3. UNCHANGED <<due, delivered, failed>>
    BY <2>1 DEF progress
  <2> QED
    BY <2>2, <2>3, Zenon DEF promised
<1> QED
  BY <1>1, <1>2, <1>3, <1>4, <1>5

LEMMA LoopImplements ==
    ASSUME FilesGrow, InOrderAlways, NEW l \in Loops, Step(l)
    PROVE  InOrder!Next \/ UNCHANGED promised
<1>1. /\ ~EndedByItself /\ ControlOK /\ OneLoop /\ PassSettled(l)
      /\ UNCHANGED <<replayCtx, cancelled, due>>
      /\ loop[l] \in LoopStates
  BY OthersStay, NotEnded DEF InOrderAlways, ReplayInv, InOrderInv, ControlOK
<1>2. CASE \/ Select(l) \/ Toggle(l) \/ TokenTick(l) \/ Cancelled(l)
           \/ DropSegment(l) \/ (TakeSegment(l) /\ ~End(l))
  <2>1. UNCHANGED <<replayActive, replayCtx, cancelled, progress>>
    BY <1>1, <1>2 DEF Select, Toggle, TokenTick, Cancelled, DropSegment,
       TakeSegment, shared
  <2> QED
    BY <2>1 DEF progress, promised, EndedByItself
<1>3. CASE ClearCancelled(l)
  <2>1. replayCtx \in cancelled /\ UNCHANGED progress
    BY <1>1, <1>3 DEF ClearCancelled, OneLoop
  <2>2. EndedByItself' = EndedByItself
    BY <1>1, <2>1 DEF EndedByItself
  <2> QED
    BY <2>1, <2>2, Zenon DEF progress, promised
<1>4. CASE TakeSegment(l) /\ End(l)
  <2>1. UNCHANGED progress /\ replayActive' = FALSE
    BY <1>4 DEF TakeSegment, End
  <2>2. replayQueue = {}
    <3>1. loop'[l].at = "ended"
      BY <1>1, <1>4, LoopBegins DEF End, ControlOK
    <3>2. replayQueue # {} => loop'[l].at = "read"
      BY <1>1, <1>4, <3>1 DEF TakeSegment, ControlOK, LoopStates
    <3> QED
      BY <3>1, <3>2
  <2>3. CASE Unstopped
    <3>1. EndedByItself' = TRUE
      BY <1>1, <2>1, <2>3 DEF EndedByItself, Unstopped
    <3>2. \A q \in due : Settled(q)
      BY <2>2, <2>3 DEF InOrderAlways, InOrderInv, QueueSettled
    <3>3. InOrder!Complete
      BY <2>1, <3>1, <3>2 DEF InOrder!Complete, InOrder!Settled, Settled, progress
    <3> QED
      BY <3>3 DEF InOrder!Next
  <2>4. CASE ~Unstopped
    <3>1. EndedByItself' = EndedByItself
      BY <1>1, <2>4 DEF EndedByItself, Unstopped
    <3> QED
      BY <2>1, <3>1, Zenon DEF progress, promised
  <2> QED
    BY <2>3, <2>4
<1>5. CASE ReadFrame(l)
  <2>1. EndedByItself' = EndedByItself /\ loop[l].at = "read"
    BY <1>1, <1>5 DEF ReadFrame, shared, EndedByItself
  <2>2. CASE EndOfFile(l)
    BY <2>1, <2>2, Zenon DEF EndOfFile, progress, promised
  <2>3. CASE ReadError(l)
    <3>1. InOrder!GiveUp(loop[l].segment) /\ loop[l].segment \in failed'
      BY <2>1, <2>3 DEF ReadError, InOrder!GiveUp
    <3> QED
      BY <3>1 DEF InOrder!Next
  <2>4. CASE DeliverFrame(l)
    <3> DEFINE p == <<loop[l].segment, loop[l].passed + 1>>
    <3>1. /\ delivered' = delivered \cup {p} /\ UNCHANGED <<due, failed>>
      BY <2>4 DEF DeliverFrame
    <3>2. ASSUME NEW q \in due, InOrder!Older(q, p) PROVE InOrder!Settled(q)
      <4>1. \/ q[1] < loop[l].segment
            \/ (q[1] = loop[l].segment /\ q[2] < loop[l].passed + 1)
        BY <3>2 DEF InOrder!Older
      <4>2. q \in Nat \X Nat /\ loop[l].passed \in Nat
        BY <1>1 DEF ControlOK, DueOK, LoopStates
      <4>3. q[2] < loop[l].passed + 1 => q[2] <= loop[l].passed
        BY <4>2
      <4>4. Settled(q)
        BY <1>1, <2>1, <4>1, <4>3 DEF PassSettled
      <4> QED
        BY <4>4 DEF Settled, InOrder!Settled
    <3>3. InOrder!Deliver(p)
      BY <2>1, <3>1, <3>2, Zenon DEF InOrder!Deliver
    <3> QED
      BY <3>1, <3>3 DEF InOrder!Next
  <2> QED
    BY <1>5, <2>2, <2>3, <2>4 DEF ReadFrame
<1> QED
  BY <1>2, <1>3, <1>4, <1>5 DEF Step

\* Replay hands over what was stored when it began oldest first and leaves
\* nothing out in silence, wherever its budget cuts a pass off and whatever is
\* appended, sealed or created meanwhile (lines 214-267 and 452-617), under
\* the conditions of ReplayIsComplete.
THEOREM ReplayImplemented == FilesGrow /\ ~Overlap => (ReplaySpec => ImplementsReplay)
<1> SUFFICES ASSUME FilesGrow, ~Overlap PROVE ReplaySpec => ImplementsReplay
  OBVIOUS
<1>1. ReplayInit => InOrder!Init
  BY DEF ReplayInit, InOrder!Init, EndedByItself
<1>2. InOrderAlways /\ [ReplayNext]_allVars
          => [InOrder!Next]_<<due, delivered, failed, EndedByItself>>
  <2> SUFFICES ASSUME InOrderAlways, [ReplayNext]_allVars
               PROVE  InOrder!Next \/ UNCHANGED promised
    BY DEF promised
  <2> QED
    BY RequestsImplement, LoopImplements DEF ReplayNext, InOrder!Next
<1> QED
  BY <1>1, <1>2, InOrderInvariant, PTL DEF ReplaySpec, ImplementsReplay, InOrder!Spec
=============================================================================
