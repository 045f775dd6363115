------------------------------- MODULE DLQReplay -------------------------------
(***************************************************************************)
(* Replay, plugins/dlq/file_storage.go:214-267 and 452-617: StartReplay    *)
(* lists the segments and starts replayLoop, which hands their items to a  *)
(* callback as a token bucket allows, in periods that alternate with live  *)
(* traffic, until the queue is empty or its context is cancelled.          *)
(*                                                                         *)
(* The loop takes the mutex of DLQStorage (free when no call is in         *)
(* progress, pc = "idle") only to look at the queue; it reads the files,   *)
(* and the field replayCtx, without it.  So each loop is a process of its  *)
(* own, and a second StartReplay may come before the first loop is gone.   *)
(* The callback is code of the caller: it returns, with or without error.  *)
(***************************************************************************)
EXTENDS DLQStorage

CONSTANTS
    MaxReplays,   \* bound: how often StartReplay succeeds
    PerInterval,  \* bytesPerInterval
    MaxBudget,    \* bound: bytes that pile up during a live period
    Overlap       \* may StartReplay come while an earlier loop still runs?

ASSUME ReplayAssumption ==
    /\ MaxReplays \in Nat
    /\ PerInterval \in Nat \ {0}
    /\ MaxBudget \in Nat \ {0}
    /\ Overlap \in BOOLEAN

Loops == 1 .. MaxReplays

VARIABLES
    replayQueue,   \* the segments still to replay, the oldest first
    replayActive,
    replayCtx,     \* the context of the last StartReplay, 0 for nil
    cancelled,     \* the contexts that have been cancelled
    replays,       \* how many loops have been started
    loop,          \* the loops' positions and local variables
    due,           \* the frames stored when the last replay began
    delivered,     \* those handed to the callback since
    failed         \* the segments it gave up with an error

shared == <<replayQueue, replayActive, replayCtx, cancelled, replays>>
progress == <<due, delivered, failed>>
replayVars == <<shared, loop, progress>>
allVars == <<vars, replayVars>>

\* A loop before it starts, and one that starts: no tokens, live period.
NoLoop == [at |-> "none", watched |-> 0, live |-> TRUE, available |-> 0,
           segment |-> None, passed |-> 0, processed |-> 0]
NewLoop == [NoLoop EXCEPT !.at = "select"]

Running(l) == loop[l].at \notin {"none", "ended"}

\* Variant: the directory is read newest first.
NextSegmentLast == CHOOSE t \in replayQueue : \A u \in replayQueue : t >= u

\* os.ReadDir sorts by name: replayQueue[0] is the oldest.
NextSegment == CHOOSE t \in replayQueue : \A u \in replayQueue : t <= u

-----------------------------------------------------------------------------
ReplayInit ==
    /\ Init
    /\ replayQueue = {} /\ replayActive = FALSE /\ replayCtx = 0
    /\ cancelled = {} /\ replays = 0
    /\ loop = [l \in Loops |-> NoLoop]
    /\ due = {} /\ delivered = {} /\ failed = {}

\* A StartReplay that is refused or finds no segment changes nothing.
StartReplay ==
    /\ pc = "idle" /\ ~replayActive /\ DOMAIN files # {}
    /\ replays < MaxReplays
    /\ Overlap \/ \A l \in Loops : ~Running(l)
    /\ replayQueue' = DOMAIN files
    /\ replayActive' = TRUE
    /\ replayCtx' = replays + 1
    /\ replays' = replays + 1
    /\ loop' = [loop EXCEPT ![replays + 1] = NewLoop]
    /\ due' = Places /\ delivered' = {} /\ failed' = {}
    /\ UNCHANGED <<vars, cancelled>>

StopReplay ==
    /\ pc = "idle" /\ replayActive
    /\ cancelled' = cancelled \cup {replayCtx}
    /\ replayActive' = FALSE /\ replayQueue' = {}
    /\ UNCHANGED <<vars, replayCtx, replays, loop, progress>>

\* The caller cancels the context it gave to StartReplay; when nothing runs
\* any more nobody notices.
CancelContext ==
    /\ replayCtx \notin cancelled \cup {0}
    /\ \E l \in Loops : Running(l)
    /\ cancelled' = cancelled \cup {replayCtx}
    /\ UNCHANGED <<vars, replayQueue, replayActive, replayCtx, replays, loop, progress>>

\* Stop of the extension cancels the replay before it seals the segment.
StopExtension ==
    /\ \/ Stop
       \/ pc = "idle" /\ currentSegment = None /\ UNCHANGED vars
    /\ cancelled' = IF replayActive THEN cancelled \cup {replayCtx} ELSE cancelled
    /\ UNCHANGED <<replayQueue, replayActive, replayCtx, replays, loop, progress>>

-----------------------------------------------------------------------------
(* replayLoop, lines 474-551.                                              *)

\* The select statement is entered: it reads the field replayCtx, which may
\* hold another replay's context by now.
Select(l) ==
    /\ loop[l].at = "select"
    /\ loop' = [loop EXCEPT ![l].at = "wait", ![l].watched = replayCtx]
    /\ UNCHANGED <<vars, shared, progress>>

Toggle(l) ==
    /\ loop[l].at = "wait"
    /\ loop' = [loop EXCEPT ![l].at = "select", ![l].live = ~@]
    /\ UNCHANGED <<vars, shared, progress>>

\* Tokens pile up in live periods too; MaxBudget stands for how many.
Refilled(l) ==
    IF loop[l].available + PerInterval <= MaxBudget
    THEN loop[l].available + PerInterval ELSE MaxBudget

TokenTick(l) ==
    /\ loop[l].at = "wait"
    /\ loop' = [loop EXCEPT
          ![l].available = Refilled(l),
          ![l].at = IF ~loop[l].live /\ Refilled(l) > 0 THEN "next" ELSE "select"]
    /\ UNCHANGED <<vars, shared, progress>>

\* The context it watches is done; the lock comes later.
Cancelled(l) ==
    /\ loop[l].at = "wait" /\ loop[l].watched \in cancelled
    /\ loop' = [loop EXCEPT ![l].at = "cancelled"]
    /\ UNCHANGED <<vars, shared, progress>>

\* Variant: the end of the loop is not recorded.
EndQuiet(l) ==
    /\ replayQueue' = {} /\ UNCHANGED replayActive
    /\ loop' = [loop EXCEPT ![l] = [NoLoop EXCEPT !.at = "ended"]]

\* The loop clears the shared state, whoever it belongs to, and returns.
End(l) ==
    /\ replayActive' = FALSE /\ replayQueue' = {}
    /\ loop' = [loop EXCEPT ![l] = [NoLoop EXCEPT !.at = "ended"]]

ClearCancelled(l) ==
    /\ loop[l].at = "cancelled" /\ pc = "idle"
    /\ End(l)
    /\ UNCHANGED <<vars, replayCtx, cancelled, replays, progress>>

\* Next segment, or the end of the replay.
TakeSegment(l) ==
    /\ loop[l].at = "next" /\ pc = "idle"
    /\ \/ replayQueue = {} /\ End(l)
       \/ /\ replayQueue # {}
          /\ loop' = [loop EXCEPT ![l].at = "read", ![l].segment = NextSegment,
                                  ![l].passed = 0, ![l].processed = 0]
          /\ UNCHANGED <<replayActive, replayQueue>>
    /\ UNCHANGED <<vars, replayCtx, cancelled, replays, progress>>

\* The segment is left, finished or given up: the head of the queue goes,
\* whichever segment that is by now.
DropSegment(l) ==
    /\ loop[l].at \in {"done", "error"} /\ pc = "idle"
    /\ replayQueue' = IF replayQueue = {} THEN {} ELSE replayQueue \ {NextSegment}
    /\ loop' = [loop EXCEPT ![l].at = IF @ = "done" THEN "next" ELSE "select",
                            ![l].segment = None, ![l].passed = 0, ![l].processed = 0]
    /\ UNCHANGED <<vars, replayActive, replayCtx, cancelled, replays, progress>>

-----------------------------------------------------------------------------
(* processSomeItems, lines 555-617, one frame at a time.  Every call starts *)
(* at the first frame.                                                      *)

frames(l) == files[loop[l].segment].body
frame(l) == frames(l)[loop[l].passed + 1]

EndOfFile(l) ==
    /\ loop[l].passed >= Len(frames(l))
    /\ loop' = [loop EXCEPT ![l].at = "done",
                            ![l].available = @ - loop[l].processed]
    /\ UNCHANGED progress

\* Variant: any error is taken for the end of the file.
ReadErrorAsEnd(l) ==
    /\ loop[l].passed < Len(frames(l))
    /\ loop' = [loop EXCEPT ![l].at = "done"]
    /\ UNCHANGED progress

\* The frame is still being written, or the callback returns an error: what
\* was processed is not charged, and the rest of the segment is given up.
ReadError(l) ==
    /\ loop[l].passed < Len(frames(l))
    /\ loop' = [loop EXCEPT ![l].at = "error"]
    /\ failed' = failed \cup {loop[l].segment}
    /\ UNCHANGED <<due, delivered>>

\* Variant: the budget is not charged.
BudgetUsedFree(l) ==
    loop' = [loop EXCEPT ![l].at = "next"]

\* The limit is reached: back to the select statement, the position is lost.
BudgetUsed(l) ==
    loop' = [loop EXCEPT ![l].at = "select", ![l].segment = None,
                         ![l].passed = 0, ![l].processed = 0,
                         ![l].available = @ - (loop[l].processed + FrameBytes[frame(l).item])]

BudgetLeft(l) ==
    loop' = [loop EXCEPT ![l].passed = @ + 1,
                         ![l].processed = @ + FrameBytes[frame(l).item]]

\* Variant: the limit is noticed a frame late.
LimitReachedLate(l) ==
    loop[l].processed + FrameBytes[frame(l).item] > loop[l].available

LimitReached(l) ==
    loop[l].processed + FrameBytes[frame(l).item] >= loop[l].available

DeliverFrame(l) ==
    /\ loop[l].passed < Len(frames(l)) /\ frame(l).whole
    /\ delivered' = delivered \cup {<<loop[l].segment, loop[l].passed + 1>>}
    /\ IF LimitReached(l) THEN BudgetUsed(l) ELSE BudgetLeft(l)
    /\ UNCHANGED <<due, failed>>

ReadFrame(l) ==
    /\ loop[l].at = "read"
    /\ EndOfFile(l) \/ ReadError(l) \/ DeliverFrame(l)
    /\ UNCHANGED <<vars, shared>>

-----------------------------------------------------------------------------
\* Everything but the directory dies with the process.
ReplayCrash ==
    /\ Crash
    /\ replayQueue' = {} /\ replayActive' = FALSE /\ replayCtx' = 0
    /\ cancelled' = {}
    /\ loop' = [l \in Loops |->
                   IF loop[l].at = "none" THEN NoLoop ELSE [NoLoop EXCEPT !.at = "ended"]]
    /\ due' = {} /\ delivered' = {} /\ failed' = {}
    /\ UNCHANGED replays

Writer ==
    \/ Tick
    \/ Start \/ \E i \in Items : StoreItem(i)
    \/ WriteSize \/ WriteData \/ Return
    \/ Finalize \/ Close \/ Create \/ Placeholder

Step(l) ==
    \/ Select(l) \/ Toggle(l) \/ TokenTick(l) \/ Cancelled(l)
    \/ ReadFrame(l) \/ ClearCancelled(l) \/ TakeSegment(l) \/ DropSegment(l)

ReplayNext ==
    \/ Writer /\ UNCHANGED replayVars
    \/ StartReplay \/ StopReplay \/ CancelContext \/ StopExtension
    \/ \E l \in Loops : Step(l)
    \/ ReplayCrash

\* A loop that can run does; the items are finitely many, so the mutex is not
\* taken again and again.  Of several ready cases select takes any, so one
\* that is ready again and again is taken.  Without Overlap one loop runs at
\* a time, and what is fair to the loops together is fair to each.
Fairness ==
    /\ WF_allVars(\E l \in Loops : Select(l) \/ ReadFrame(l))
    /\ WF_allVars(\E l \in Loops : ClearCancelled(l) \/ TakeSegment(l) \/ DropSegment(l))
    /\ SF_allVars(\E l \in Loops : Cancelled(l))

ReplaySpec == ReplayInit /\ [][ReplayNext]_allVars /\ Fairness

-----------------------------------------------------------------------------
\* Every variable has its type; a pass over a segment that is not over is
\* within its budget.
ReplayTypeOK ==
    /\ TypeOK
    /\ replayQueue \subseteq DOMAIN files
    /\ replayActive \in BOOLEAN
    /\ replays \in 0 .. MaxReplays /\ replayCtx \in 0 .. replays
    /\ cancelled \subseteq 1 .. replays
    /\ \A l \in Loops :
          /\ loop[l].at \in {"none", "select", "wait", "cancelled", "next",
                             "read", "done", "error", "ended"}
          /\ loop[l].watched \in 0 .. replays
          /\ loop[l].live \in BOOLEAN
          /\ loop[l].available <= MaxBudget
          /\ loop[l].at = "read" =>
                /\ loop[l].segment \in DOMAIN files
                /\ loop[l].passed \in 0 .. Len(frames(l))
                /\ loop[l].processed < loop[l].available

\* The replay is over and nobody has stopped it.
EndedByItself == ~replayActive /\ replayCtx # 0 /\ replayCtx \notin cancelled

\* Line 214, "begins replaying items from the DLQ", and README.md:65, "replay
\* when connectivity is restored": a replay that nobody stops has, when it is
\* over, delivered all that was stored when it began, but for the segments it
\* reported an error for.
ReplayComplete ==
    EndedByItself => \A p \in due : p \in delivered \/ p[1] \in failed

\* Replay delivers oldest first whatever is appended, sealed or created in the
\* meantime and wherever its budget cuts a pass off.
InOrder == INSTANCE InOrderReplay WITH complete <- EndedByItself
ImplementsReplay == InOrder!Spec

\* Replay is never wedged: while StartReplay answers "replay already in
\* progress" (line 220) the loop it started last is there to end.
ActiveHasLoop == replayActive => Running(replays)

\* A cancelled loop ends, as long as calls release the mutex: neither tokens
\* nor toggles nor items keep it from seeing its context (lines 476-482).
CancelledEnds ==
    []<>(pc = "idle") =>
        (replayCtx \in cancelled
            ~> replayCtx \notin cancelled \/ \A l \in Loops : ~Running(l))

\* Line 612, "Save position for next call": no frame is delivered by the same
\* replay a second time.
SavesPosition ==
    [][\A l \in Loops : loop[l].at = "read" /\ DeliverFrame(l)
          => <<loop[l].segment, loop[l].passed + 1>> \notin delivered]_allVars
=============================================================================
