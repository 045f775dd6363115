------------------------------ MODULE APQBlocking ------------------------------
(***************************************************************************)
(* DequeueBlocking of plugins/apq/plugin.go:213-251 over the queue of APQ. *)
(*                                                                         *)
(* A call is two goroutines.  The caller tries Dequeue and, when that      *)
(* fails for whatever reason, waits on a condition variable of its own.    *)
(* The ticker it started looks at Size every 50 ms and signals; it ends    *)
(* when the context does.  sync.Cond forgets a signal nobody waits for.    *)
(* Enqueue itself signals nobody.                                          *)
(***************************************************************************)
EXTENDS APQ

CONSTANT Waiters  \* the calls of DequeueBlocking, one context each

VARIABLES
    pc,         \* pc[w]: where the calling goroutine is
    ticker,     \* ticker[w]: where the goroutine of lines 219-231 is
    cancelled,  \* cancelled[w]: whether the context of call w is done
    got         \* got[w]: the item call w returned

callVars == <<pc, ticker, cancelled, got>>
allVars == <<vars, callVars>>

-----------------------------------------------------------------------------
BlockingInit ==
    /\ Init
    /\ pc = [w \in Waiters |-> "idle"]
    /\ ticker = [w \in Waiters |-> "none"]
    /\ cancelled = [w \in Waiters |-> FALSE]
    /\ got = [w \in Waiters |-> NoItem]

Call(w) ==
    /\ pc[w] = "idle"
    /\ pc' = [pc EXCEPT ![w] = "try"]
    /\ ticker' = [ticker EXCEPT ![w] = "sleeping"]
    /\ UNCHANGED <<vars, cancelled, got>>

Cancel(w) ==
    /\ pc[w] # "idle" /\ ~cancelled[w]
    /\ cancelled' = [cancelled EXCEPT ![w] = TRUE]
    /\ UNCHANGED <<vars, pc, ticker, got>>

\* Variant: the error of Dequeue is ignored.
TryDequeueBlind(w) ==
    /\ pc[w] = "try"
    /\ Dequeue
    /\ pc' = [pc EXCEPT ![w] = "returned"]
    /\ got' = [got EXCEPT ![w] = result'.item]
    /\ UNCHANGED <<ticker, cancelled>>

\* Any error of Dequeue, a miss on a queue with items included, means wait.
TryDequeue(w) ==
    /\ pc[w] = "try"
    /\ Dequeue
    /\ IF result'.status = "dequeued"
       THEN /\ pc' = [pc EXCEPT ![w] = "returned"]
            /\ got' = [got EXCEPT ![w] = result'.item]
       ELSE /\ pc' = [pc EXCEPT ![w] = "select"]
            /\ UNCHANGED got
    /\ UNCHANGED <<ticker, cancelled>>

\* The context is looked at once, before the wait.
Select(w) ==
    /\ pc[w] = "select"
    /\ pc' = [pc EXCEPT ![w] = IF cancelled[w] THEN "ctxErr" ELSE "waiting"]
    /\ UNCHANGED <<vars, ticker, cancelled, got>>

\* Variant: a lone item is not worth a signal.
TickerFireLate(w) ==
    /\ ticker[w] = "sleeping" /\ getTotalSize > 1
    /\ ticker' = [ticker EXCEPT ![w] = "signal"]
    /\ UNCHANGED <<vars, pc, cancelled, got>>

\* 50 ms have passed; with an empty queue nothing happens.
TickerFire(w) ==
    /\ ticker[w] = "sleeping" /\ getTotalSize > 0
    /\ ticker' = [ticker EXCEPT ![w] = "signal"]
    /\ UNCHANGED <<vars, pc, cancelled, got>>

Woken(w) == pc' = [pc EXCEPT ![w] = IF @ = "waiting" THEN "try" ELSE @]

\* Variant: the ticker signals once and ends.
TickerSignalOnce(w) ==
    /\ ticker[w] = "signal"
    /\ ticker' = [ticker EXCEPT ![w] = "exited"]
    /\ Woken(w)
    /\ UNCHANGED <<vars, cancelled, got>>

TickerSignal(w) ==
    /\ ticker[w] = "signal"
    /\ ticker' = [ticker EXCEPT ![w] = "sleeping"]
    /\ Woken(w)
    /\ UNCHANGED <<vars, cancelled, got>>

\* The ticker ends with the context, without a signal, whether or not the
\* call has returned.
TickerExit(w) ==
    /\ ticker[w] = "sleeping" /\ cancelled[w]
    /\ ticker' = [ticker EXCEPT ![w] = "exited"]
    /\ UNCHANGED <<vars, pc, cancelled, got>>

BlockingNext ==
    \/ \E i \in Items : Enqueue(i) /\ UNCHANGED callVars
    \/ \E w \in Waiters :
          \/ Call(w) \/ Cancel(w)
          \/ TryDequeue(w) \/ Select(w)
          \/ TickerFire(w) \/ TickerSignal(w) \/ TickerExit(w)

\* Goroutines that can run do, and timers fire.  Of two ready cases select
\* may take either, so a cancelled ticker ends sooner or later.
Fairness ==
    \A w \in Waiters :
        /\ WF_allVars(TryDequeue(w))
        /\ WF_allVars(Select(w))
        /\ WF_allVars(TickerFire(w))
        /\ WF_allVars(TickerSignal(w))
        /\ SF_allVars(TickerExit(w))

BlockingSpec == BlockingInit /\ [][BlockingNext]_allVars /\ Fairness

-----------------------------------------------------------------------------
\* Every variable has its type, and a call has an item exactly when it
\* returned one.
BlockingTypeOK ==
    /\ TypeOK
    /\ pc \in [Waiters -> {"idle", "try", "select", "waiting", "returned", "ctxErr"}]
    /\ ticker \in [Waiters -> {"none", "sleeping", "signal", "exited"}]
    /\ cancelled \in [Waiters -> BOOLEAN]
    /\ got \in [Waiters -> Items \cup {NoItem}]
    /\ \A w \in Waiters : (pc[w] = "returned") <=> (got[w] # NoItem)

\* Nobody but its own context can strand a caller: while it waits and is not
\* cancelled, a ticker is there to wake it (plugin.go:219-231, 248).
OnlyCancelStrands ==
    \A w \in Waiters :
        pc[w] = "waiting" /\ ~cancelled[w] => ticker[w] \in {"sleeping", "signal"}

\* No wake-up is lost for good: a caller that waits while there are items gets
\* one, or the others empty the queue, or it is cancelled, however its steps,
\* the ticker's and the other callers' interleave and however often Dequeue
\* misses (plugin.go:225-249).
WaiterServed ==
    \A w \in Waiters :
        pc[w] = "waiting" /\ getTotalSize > 0
            ~> pc[w] = "returned" \/ getTotalSize = 0 \/ cancelled[w]

\* The comment of plugin.go:212, "waits for an item to be available and then
\* dequeues it": a caller does not go on waiting next to an item.
WaitsOnlyForItems ==
    \A w \in Waiters :
        pc[w] = "waiting" /\ getTotalSize > 0
            ~> pc[w] # "waiting" \/ getTotalSize = 0
=============================================================================
