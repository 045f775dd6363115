# Verification of the NRDOT MVP plugins

TLA+ models of the three plugins of this repository (the adaptive priority
queue, the dead letter queue and the cardinality limiter), of the mock upstream
and of their composition, the TLC runs that check them on small instances, and
proofs that TLAPS checks for every value of the constants.  Every definition is translated from the Go source; paths below
are relative to the repository.

## 1. The system

| Component | State it keeps | Operations | Where it is |
|---|---|---|---|
| Adaptive priority queue (APQ) | one FIFO lane per priority class, the class in turn, its remaining tokens, the spill callback, gauges | `Enqueue`, `Dequeue`, `DequeueBlocking`, `Size`, `SetSpillFunc` | `plugins/apq/plugin.go` |
| Dead letter queue (DLQ), write path | the segment files, the current segment and its size, count and hasher | `Start`, `StoreItem`, `Stop`, rotation and finalizing | `plugins/dlq/file_storage.go:129-345` |
| DLQ, verification | a goroutine, no state of its own but a counter | `verificationLoop`, `verifySegments`, `verifySegment` | `plugins/dlq/file_storage.go:364-450` |
| DLQ, replay | replay flag, queue of segments, token bucket, cancel function | `StartReplay`, `StopReplay`, `replayLoop`, `processSomeItems` | `plugins/dlq/file_storage.go:214-267, 452-617` |
| Cardinality limiter (CL) | the map of tracked keys, gauge and counter | `processMetrics` on number, histogram and summary points | `plugins/cl/plugin.go` |
| Mock upstream | outage flag, failure rate | `POST /v1/metrics`, `/control/outage`, `/control/failure-rate`, `GET /control/status` | `cmd/mock-upstream/main.go` |
| Collector executable | none (registers factories) | | `cmd/collector/main.go` |
| Command line and load scripts, dashboards, compose files | none | | `nrdot-cli.*`, `scripts/`, `*.yaml` |

How they interact, according to `README.md` and `otel-config/collector.yaml`:
metrics pass through CL into the exporter's APQ; an item that finds the APQ
nearly full is given to the spill callback, which would be `StoreItem` of the
DLQ; replay gives stored items back to a callback, which would be `Enqueue`.
In the source itself nobody calls `SetSpillFunc`, `StartReplay` or
`StoreItem`, and the exporter factory of the APQ is a stub.  The plugins are
therefore modelled one by one, against any caller, and then once together,
wired as the documents say (`Pipeline`), with the wiring marked external.  The commit does not
compile as it stands (`file_storage.go` uses `hash` and `bytes` without
importing them and has an unused variable); the models take the code as it
reads with those imports added.  There are no Go tests.

### What is hard in it

* **APQ.** One mutex makes each call atomic, but the scheduler carries state
  (class, tokens) from call to call: its properties are about sequences of
  calls.  A class keeps its turn as long as it has tokens, whether or not
  anything waits in its lane.  `DequeueBlocking` adds a condition variable, a
  ticker goroutine and a context per call, and `Enqueue` signals nobody.
* **DLQ write path.** A call that rotates makes a dozen system calls; the
  process may die or the power go between any two and each may fail, leaving
  file, write offset, hasher, counters and `currentSegment` to disagree.  Only
  the end of a segment is synced.  Names have a resolution of one second.
* **DLQ verification.** Takes no lock: it reads `currentSegment` twice and the
  files in pieces while the writer goes on.
* **CL.** Concurrent calls share a bounded map, and the gauge is set from a
  second critical section.
* **Replay.** A goroutine, a cancellation and a queue that outlive each other;
  a token budget that cuts passes off; a segment that is read while it grows.
* **Together.** `Enqueue` calls the store with its mutex held and replay calls
  `Enqueue`; a replay into a full queue spills into the segment it reads; the
  upstream's outage begins and ends in the middle of requests.

`PROJECT.json` lists the hazards line by line with the property that looks at
each.  What makes each component correct:

* APQ: nothing lost, repeated or reordered in a class; the fill stays under
  the 5% rule; no class starves; reports show the queue as it is.
* Blocking dequeue: no caller is left waiting beside an item.
* DLQ: an append-only log of what was acknowledged; segments that are sealed
  and synced never change and their headers are true.
* Verification: a verdict of "intact" is never wrong.
* CL: the map is bounded, the gauge ends up at its size.
* Replay: stored items are delivered in order and none is passed over without
  an error; a replay that is marked active has a loop; a cancelled loop ends.
* Together: nothing accepted vanishes, no call is blocked for good, and the
  queue drains when an outage ends.

## 2. Modules

| Module | Models | Used by |
|---|---|---|
| `APQ` | queue, scheduler, spill rule, gauges | `APQBlocking`, `MCAPQ`, `APQ_proofs` |
| `PriorityBuffer` | what the queue promises: a bounded buffer, FIFO within a class | refined by `APQ` (`ImplementsBuffer`) |
| `APQBlocking` | `DequeueBlocking` over `APQ` | `MCAPQBlocking` |
| `DLQStorage` | write path down to the system calls, crashes, faults | `DLQVerify`, `DLQReplay`, `MCDLQStorage` |
| `DurableLog` | what the DLQ promises: a log that grows at its end | refined by `DLQStorage` (`ImplementsLog`) |
| `DLQVerify` | the verifier over `DLQStorage` | `MCDLQVerify` |
| `DLQReplay` | replay loops over `DLQStorage` | `MCDLQReplay` |
| `InOrderReplay` | what a replay promises: oldest first, nothing passed over in silence | refined by `DLQReplay` (`ImplementsReplay`) |
| `MockUpstream` | the test server, its outage flag and failure rate | `Pipeline` |
| `Pipeline` | `APQ`, spill, store, replay, exporter and `MockUpstream` together | `MCPipeline` |
| `CardinalityLimiter` | CL with concurrent calls | `MCCardinalityLimiter` |
| `MC*` | the instances TLC checks: items, patterns, weights, sizes | the `.cfg` files |
| `APQ_proofs` | theorems about `APQ`, its refinement of `PriorityBuffer` | `APQBlocking_proofs`, `Pipeline_proofs` |
| `APQBlocking_proofs` | theorems about `APQBlocking`, and that those about `APQ` carry over | |
| `DLQStorage_proofs` | types, segments whose seal is synced, the others | `DLQHeader_proofs`, `DLQVerify_proofs`, `DLQReplay_proofs` |
| `DLQHeader_proofs` | headers, the refinement of `DurableLog`, the size of segments | |
| `DLQVerify_proofs` | theorems about `DLQVerify` | |
| `DLQReplay_proofs` | theorems about `DLQReplay`, its refinement of `InOrderReplay` | |
| `Pipeline_proofs` | theorems about `Pipeline` and the `MockUpstream` in it | |
| `CardinalityLimiter_proofs` | theorems about `CardinalityLimiter` | |

Definitions commented *Variant* are slips a programmer might make in the
definition below them.  No specification uses them; each one, put in the place
of that definition, makes TLC report the property named beside it in
`PROJECT.json`.

### APQ

`queues`, `currentClass`, `remainingTokens`, `spillFunc` are the fields of
`AdaptivePriorityQueue` (lines 43-60); `gauges` are the two Prometheus gauges
that cache lane sizes and fill; `result` is what the last call returned.
`Enqueue`, `Dequeue` and `Size` hold `queueMutex` throughout, so one call is
one action; the outcomes of a call are its disjuncts: `EnqueueAccept`,
`EnqueueSpill` (callback nil or error), `EnqueueReject`; `DequeueEmpty`,
`DequeueMiss` ("selected queue is empty", after the scheduler has moved),
`DequeueItem`.  `selectPriorityClass` is split into `SelectedClass` and
`TokensLeft`; the scan of lines 301-318 is `NextClass`.  The comparison
`freeSlots/capacity < 0.05` is done in integers.  `Int32` is the conversion of
lines 320-321: nothing bounds a weight, and one beyond `MaxInt32` wraps around
and may leave no or negative tokens, with which the turn is over at the next
call.  `Matches` gives for each
item the classes whose regular expressions match; `classifyItem` takes the
first, the last class when there is none.

A repeated item is enqueued only after its earlier copy has left: the queue
never compares items, so this names the copies apart and costs no behaviour.

### APQBlocking

Each call (`Waiters`) is a pair: `pc` for the caller (lines 234-249), `ticker`
for its goroutine (219-231).  `TryDequeue` is the whole `Dequeue` of `APQ`;
any error leads to `Select`, which looks at the context once and then waits.
`TickerSignal` wakes the caller only if it is in `cond.Wait` at that moment
(`Woken`).  `TickerExit` models the goroutine that sees its context done; it
does not signal.

### DLQStorage

`files` is the directory (segments named by the second), each with a header
and a body of frames; a frame is whole once its data has been written.
`currentSegment`, `currentSize`, `currentItemCount`, `hasher` are the fields of
lines 43-51; `isOpen` and `offset` are the descriptor's state; `pc`, `caller`,
`item`, `fresh` the position and locals of the call that holds the mutex.
`StoreItem`, `Start` and `Stop` begin a call; `WriteSize`, `WriteData`,
`Return`, `Finalize`, `Close`, `Create`, `Placeholder` are its system calls.
`Finalize` is one of four: `SeekHeader`, `WriteCount` (the magic bytes, which do
not change, and the count), `WriteHash`, `Sync`; between the seek and the last
byte of the hash the offset is inside the header and the header is torn.
`durable` is the set of segments whose `Sync` has succeeded.  `Crash` clears all
memory; with `PowerCuts` it may also take what was not synced (`PowerCut`), and
the header that is in the file says nothing about that.  What a power cut
leaves is an assumption about the file system (`Remains`): a synced file stays,
and so does its name; of any other file stays the name at least, or some of its
first frames under the old header or the new.  `IOFaults` names the system
calls that may fail, `SameSecond` says whether two segments may get the same
second.  Abstracted:
bytes (a frame has a length), compression (invertible), hashing (a hash is
what was hashed, so two inputs never collide).

### DLQVerify

`List`, `Guard`, `Name`, `ReadHeader`, `CompareHash` are the verifier's
separate reads; any writer step may come between them.  `HashedByWriter` and
`HashedByVerifier` say what each side feeds to its hash.  `Quit` is the end of
the context given to `Start`.

### DLQReplay

`replayQueue`, `replayActive`, `replayCtx` are the fields of lines 54-56 (the
queue as a set: it is sorted by name and only shrinks from its head);
`cancelled` holds the contexts that are done.  Each `StartReplay` makes a loop
of its own, a record of position, the context its select watches, live flag,
tokens, and the segment, frames and bytes of the pass in progress.  `Select`
reads the field `replayCtx`, as the select statement does each time round;
`Cancelled` and `ClearCancelled` are apart because the mutex comes between;
`TokenTick` and `Toggle` are the tickers; `TakeSegment` and `DropSegment` the
locked sections; `EndOfFile`, `ReadError` and `DeliverFrame` one round of
`processSomeItems`.  `ReadError` is open to every frame: the callback may
return an error, or the frame is still being written.  `due`, `delivered` and
`failed` record what the last replay owes and has done.  A loop takes the mutex
only when no call of `DLQStorage` is in progress.  `Overlap` says whether
`StartReplay` may come while an earlier loop is still on its way out.

### MockUpstream

`outageMode` and `failureRatePerc` are the two atomic variables, `request` the
position of each client's request, `seen` the values the outage flag has had
since it came in.  `CheckOutage` and `DrawFailure` are the handler's two reads;
`Draws` says what `rand.Intn(100) < rate` may come out as; `Clamped` is the
normalisation of the rate.

### Pipeline

The callers of `Enqueue` are a producer and the replay loop.  `Accept` is the
call when there is room, one step as in `APQ`; otherwise `Spill` keeps
`queueMutex` (the check of lines 155-160), `StoreItem` takes the store's mutex,
and `StoreReturn` ends both calls with one of three outcomes: stored; not
stored and an error; stored and an error (a rotation that fails, line 204).
`log` is one segment's whole frames.  The disk holds bytes: what comes back from
it is not the item that was spilled but its form `Bytes[i]`, and since
`classifyItem` prints a byte slice as a list of numbers (`plugin.go:275`) its
class is that of its form, in the instance the default class, as
`README.md:88` warns.  Who turns an item into bytes is external.  The replay reads it frame by frame
without the mutex, from the first frame in each pass; where a pass ends is a
free choice (its budget), and an error of the callback ends the replay.
`Take`, `Post` and `Acknowledged` are the exporter, which posts an item until
the answer is 200.  `Connect`, the producer and the exporter are external.

### CardinalityLimiter

`keyMap` is the domain of the shared map, `keysUsed` the gauge,
`droppedSamples` the points the drop counter counted.  `batch`, `done`,
`tracked` belong to a call in progress.  `ProcessPoint` is one iteration of the
loops of lines 113-199 including its locked section (the rest touches the
caller's data only), `Finish` the read-locked refresh of lines 101-107.  Map
iteration order is a free choice of the key to evict, the new one included.
Scores are kept in percent and without rounding.

## 3. Runs

Properties are stated and explained in the modules.

| Run | Instance and bounds | Shows |
|---|---|---|
| `apq` | 3 classes with weights 3, 2, 5 and integers up to 3, so that the last weight wraps around to a negative one; capacity 4; 6 items, two per class, one matching two patterns, one none | spill rule (`Headroom`), gauges, `FreshTurnHasWork`, `ServiceProgress`, `EventuallyDequeued`, `ImplementsBuffer` |
| `apq_blocking` | 2 calls, 2 classes, capacity 3, 3 items | `OnlyCancelStrands`, `WaiterServed`: lost signals are made good by the next tick |
| `apq_stranded` | same | **fails**: a call cancelled inside `cond.Wait` never wakes |
| `dlq_storage` | 3 items of 10, 20 and 20 bytes, segments of 62 (30 without the header: filled exactly, or overfilled), 4 seconds, 2 crashes; Close and Create may fail | `ImplementsLog`, `HeaderHonest`, `UnsealedBound`, `SegmentBound` |
| `dlq_same_second` | 1 crash, names may repeat | **fails**: a restart in the same second empties a segment of acknowledged items |
| `dlq_verify` | 2 items, 2 seconds, 1 crash or power cut, every system call may fail | `VerdictSound`, and `SealedForever` (a synced segment stays) under all faults |
| `dlq_verify_intact` | no faults | **fails**: every intact segment with an item is reported as corrupted |
| `dlq_replay` | 2 items of 10 and 20 bytes, segments of 52 (20 without the header), 2 seconds, 1 crash or power cut, 2 replays, 20 bytes per token tick, at most 40 piled up | `ImplementsReplay`, `ReplayComplete`, `ActiveHasLoop`, `CancelledEnds`, and `HeaderHonest` under power cuts |
| `replay_overlap` | `Overlap`, no crash | **fails**: the loop of a stopped replay clears the queue of the next |
| `replay_position` | segments of 82, 1 replay | **fails**: items before the point where the budget ran out are delivered again |
| `pipeline` | 2 requests of 2 classes and their bytes, capacity 1, 2 frames on the disk, rates -1, 50 and 101 | `SpillJustified`, `NothingVanishes`, `AnswersHonest`, `EnqueueReturns`, `HealedDrains` |
| `cl` | 2 calls, map of 2 keys, batches that give 5 keys | `KeysBounded`, `GaugeCatchesUp`, `NeverShrinks` |

The runs marked **fails** are expected to: each checks one sentence of a
comment or of `README.md` that the code does not keep, quoted under "findings"
in `PROJECT.json`.

Why the bounds are enough to be interesting.  *apq*: with capacity 4 the queue
is full with items of at least two classes, the weights make turns of
different length, a weight that wraps around among them, and a lane can run
empty in the middle of a turn; each class can be first, last or alone in the scan.  *apq_blocking*: two callers compete
for one item, so a ticker can signal for an item another caller takes.
*dlq_storage*: three items reach a second and third segment, two crashes let a
restart follow a restart, and a rotation can fail with the segment closed.
*dlq_verify*: two segments and one crash let the
verifier hold a list that is out of date.  *cl*: five keys against room for
two, so that eviction happens inside either call.  *dlq_replay*: an item is half
of one budget, all of it, or more than what is left of it, so that passes end
below, at and above their budget, at the first frame or the last; the two items fill a first segment or spread
over two; a power cut can fall between a header and its `Sync`; the second
replay follows one that ended, was stopped, cancelled or died; the active segment is among those replayed and grows meanwhile.
`MaxBudget` stands for how many tokens pile up while live traffic has its turn.
`replay_position` needs a segment larger than one budget.  *pipeline*: with one
place in the queue the second item spills; it comes back by replay, as bytes
and in another class than it went for one of the two, and into a
full queue it is spilled again, until the disk (`MaxStored`) is full and the
store fails; the rates give a server that never fails, may fail and always
fails.

Deadlock is checked in `apq`, `cl` and `pipeline`.  In `apq_blocking` all calls may be
over; in the DLQ runs the items, the clock and the crashes run out (`MaxTime`,
`MaxCrashes` and the set of items are the bounds of the model); there the
check is off.

Symmetry is not used: classes, weights and frame lengths tell the items apart.

### Fairness

`apq`: weak fairness of `Dequeue` only: the exporter's consumers keep asking;
nobody has to enqueue and the spill callback owes nothing.  `EventuallyDequeued`
holds for a caller that retries after the error of a miss.

`apq_blocking`: weak fairness of each goroutine's steps (the Go scheduler runs
what can run; a `time.Ticker` fires).  Strong fairness of `TickerExit`: with a
timer and a finished context both ready, `select` chooses at random, so the
exit is taken sooner or later.  No fairness of `Call`, `Cancel` or `Enqueue`.

`dlq_replay`: weak fairness of the loop's own steps, and of those that take the
mutex.  `CancelledEnds` is stated for histories in which the mutex is free again
and again: it is not `StoreItem`'s duty to return from a system call.  Strong
fairness of `Cancelled`, as for `TickerExit`: the select has a done context and
two tickers to choose from.  No fairness of the tickers, the writer, the
callers.

`pipeline`: strong fairness of each `Enqueue` and of the exporter's `Take`: a
`sync.Mutex` that is free again and again is got, since Go hands it over in
order once somebody has waited a millisecond.  Weak fairness of the replay
loop's steps, the exporter's and the server's.  Strong fairness of the answer
200 when it is possible: draws are independent.  No fairness of the producer,
of `StartReplay` or of the operator.

The other DLQ runs and `cl` state safety only.

## 4. Proofs

TLAPS checks each theorem for every value of the constants that satisfies the
module's named assumption (`APQAssumption`, `DLQAssumption`, `CLAssumption`:
what the constructors and the configuration enforce, and that there is a null
value outside the items).  Conditions beyond these are part of the theorem.

| Theorem | States |
|---|---|
| `APQ_proofs!TypeCorrect` | `Spec => []TypeOK` for weights of any size: when there are tokens they are fewer than the weight of the class in turn |
| `APQ_proofs!HeadroomHolds` | `Spec => []Headroom` |
| `APQ_proofs!GaugesAreFresh` | `Spec => []GaugesFresh` |
| `APQ_proofs!FreshTurns` | `Spec => []FreshTurnHasWork` |
| `APQ_proofs!NoStarvation` | `Spec => ServiceProgress` |
| `APQ_proofs!BufferImplemented` | `Spec => ImplementsBuffer` |
| `APQBlocking_proofs!QueueUnderCalls` | `BlockingSpec => Spec`: calls that block use the queue only through its operations |
| `APQBlocking_proofs!BlockingTypeCorrect` | `BlockingSpec => []BlockingTypeOK` |
| `APQBlocking_proofs!OnlyCancellationStrands` | `BlockingSpec => []OnlyCancelStrands` |
| `DLQStorage_proofs!TypeCorrect` | `Spec => []TypeOK`, under every fault |
| `DLQStorage_proofs!SealedSegmentsStay` | `Spec => SealedForever` if names do not repeat: a synced segment stays, under every fault, crash and power cut |
| `DLQStorage_proofs!FewUnsealed` | `Spec => []UnsealedBound` under `HeadersWork`: no seek, header, sync or placeholder write fails; names may repeat and the power may go |
| `DLQHeader_proofs!HeadersAreHonest` | `Spec => []HeaderHonest` under `WritesWork`: names do not repeat and no write or sync of an adopted segment fails; with power cuts it speaks of synced segments |
| `DLQHeader_proofs!AcknowledgedIsReadable` | `Spec => []AckedReadable` under `WritesWork`, without power cuts |
| `DLQHeader_proofs!LogImplemented` | `Spec => ImplementsLog` under `WritesWork`, without power cuts |
| `DLQHeader_proofs!SegmentsAreBounded` | `Spec => []SegmentBound` under `RotationSeeks`: `WritesWork`, and no seek fails either |
| `DLQVerify_proofs!VerifyKeepsStorage` | `VerifySpec => Spec`, and so `SealedForever` under the verifier if names do not repeat |
| `DLQVerify_proofs!VerifyTypeCorrect` | `VerifySpec => []VerifyTypeOK`, under every fault |
| `DLQVerify_proofs!VerificationSound` | `VerifySpec => []VerdictSound` if names do not repeat, under every fault |
| `DLQReplay_proofs!ReplayKeepsStorage` | `ReplaySpec => Spec`: replay only reads the directory |
| `DLQReplay_proofs!ReplayTypeCorrect` | `ReplaySpec => []ReplayTypeOK` under `FilesGrow`: names do not repeat and no header write fails; loops may overlap |
| `DLQReplay_proofs!ReplayNotWedged` | `ReplaySpec => []ActiveHasLoop` without overlap, under every fault |
| `DLQReplay_proofs!ReplayIsComplete` | `ReplaySpec => []ReplayComplete` under `FilesGrow`, without overlap |
| `DLQReplay_proofs!ReplayImplemented` | `ReplaySpec => ImplementsReplay` under `FilesGrow`, without overlap |
| `Pipeline_proofs!PipelineTypeCorrect` | `PipelineSpec => []PipelineTypeOK` |
| `Pipeline_proofs!SpillsAreJustified` | `PipelineSpec => []SpillJustified` |
| `Pipeline_proofs!NothingOwedVanishes` | `PipelineSpec => []NothingVanishes` |
| `Pipeline_proofs!AnswersAreHonest` | `PipelineSpec => []AnswersHonest` |
| `CardinalityLimiter_proofs!TypeCorrect` | `Spec => []TypeOK` |
| `CardinalityLimiter_proofs!KeysAreBounded` | `Spec => []KeysBounded` |
| `CardinalityLimiter_proofs!GaugeIsCaughtUp` | `Spec => []GaugeCatchesUp` |
| `CardinalityLimiter_proofs!MapNeverShrinks` | `Spec => NeverShrinks` |

**APQ** (any number of classes, any weights, capacity and items).  That the
tokens are an `int32` whatever the weight is lemma `Int32Type`.  The inductive invariant is `IInv`: `TypeOK`, finiteness of the set of
slots in use, `Headroom` and `GaugesFresh`.  Finiteness is needed because
`getTotalSize` is a cardinality and the provers know nothing of the cardinality
of a set not known to be finite.  `Headroom` needs only that one `Enqueue` adds
one slot to a queue that was not nearly full and `Dequeue` takes one away; both
follow from two lemmas on slots.

`FreshTurnHasWork` is not an invariant of the steps but a consequence of
`TypeOK`: the scan from `currentClass + 1` around reaches every other class
(`ClassReached`), so when it comes back empty-handed only the current class can
have work.  `ServiceProgress` rests on the distance from the current class to a
waiting one (`Distance`, arithmetic modulo `NumClasses`): a new turn goes to a
class that lies at or before the waiting one in the cycle, so the distance
falls, or it is the waiting class itself; within a turn the tokens fall.

`BufferImplemented` maps the lanes to a set of items and the order within each
class.  Each action is one step of `PriorityBuffer` by two facts on lanes:
appending an item adds it after all of its class, and taking the head removes an
item that nothing of its class precedes.  Both need the invariant `BufferInv`:
no item waits in two slots, since `Enqueue` takes only items that do not wait
(two calls may enqueue equal items; the model tells them apart), so that there
are as many items as slots and the two capacities agree.

**Blocking dequeue** (any number of calls).  Every step of `BlockingSpec` is a
step or a stutter of the queue (`BlockingStepIsStep`), so `QueueUnderCalls`
carries all theorems about `APQ` over.  `OnlyCancelStrands` alone is not
inductive: it speaks of callers in `cond.Wait`, and a caller reaches that state
from others.  `TickerAlive` extends it to the whole call: from `Call` on there is
a ticker, and it exits only when the context is done.  That a returned call
holds an item needs the queue's `TypeOK` (the head of a lane is not nil).

**DLQ write path** (any items, sizes, number of segments and crashes).  `IInv`
is `TypeOK` and `CallOK`.  `TypeOK` is not inductive because what a system call
does depends on the position of the call: the write of the data needs an offset
inside the body that the write of the size has left, and closing or creating
needs to know which of `Start`, `StoreItem` and rotation is under way; `CallOK`
says these things for each `pc`.  `SealedSegmentsStay` rests on `DurableOK`: a
synced segment is sealed and, if it is still open, about to be closed, so that
nobody writes to it; `Create` picks a free second, which is the condition that
`dlq_same_second` shows to be needed, and a power cut spares what is synced.  A
segment that is sealed while its `Sync` failed, or between the two, is not
covered, and rightly: the next item overwrites it, and a power cut may take it.

`HeadersAreHonest` is about memory against disk.  `HeaderHonest` is strengthened
to `HonestOK`: while a segment is open its offset and item count are the length
of its body and the hasher holds exactly its items (`Appending`), between the
two writes of an item it is one frame ahead (`MidFrame`), while the header is
written count and hasher still describe the body (`Counted`), between its last
byte and `Sync` the header does, and a segment whose descriptor is closed is
written by nobody.  A rotation that fails in Close, Create or the placeholder
does not disturb this, nor does a crash.  A power cut does, for a segment that
is not synced: it may keep the header and take frames; hence `Untouched` in the
statement.  A failed write of an item or of a header or a failed sync does too,
since the offset then leaves the end of the file.

For the log, `LogInv` adds where the next item goes and where the current one
is.  `AtEnd`: the open segment has the latest name, so what is appended to it is
read after everything else.  `ItemStored`: an item is in the log exactly from
the write of its data on, through the rotation that may follow, and is
acknowledged only then.  `WriteData` is the one step that changes the log: half
a frame cannot be read, headers are no part of it, a new file is empty
(`BodiesKept`, `LogGrown`).  Power cuts are excluded because nothing is synced
before the segment is sealed.  A step that fails in rotation returns an error
for an item that is in the log: the log keeps more than was acknowledged, never
less.

`SegmentsAreBounded` compares `currentSize` with the bytes on the disk
(`SizeOK`).  `BytesOf` is a recursive function; that it exists and is what its
equation says is proved here for these functions, by the least number of frames
for which it would not be (`BytesExist`, `LeastNatural`), since the library's
induction theorems cannot be instantiated.  Seeks must succeed: otherwise the
rotation returns with the full segment still in use, and TLC shows that it then
grows without end.

`FewUnsealed` counts, by cardinalities of finite sets: `UnsealedInv` says that
the segments that are not sealed and synced, other than the one in use
(`Abandoned`), are at most as many as crashes; whoever leaves a segment has
synced it (`LeftDurable`).

**DLQ verification** (any list of segments, every fault).  The verifier's reads
interleave with the writer's steps, so what it holds may be out of date.  That
it is still sound has a narrow reason, which the invariant `EmptyInv` states:
the two sides hash different bytes (`HashedByWriter`, `HashedByVerifier`), so
their hashes agree only on an empty segment (`OnlyEmptyMatches`); only `Stop`
seals one, and nobody writes to it again, so the header the verifier read is
still that of the file (`HeaderFresh`).  The proof shows how little the verdict
is worth; `dlq_verify_intact` shows the price.

**DLQ replay** (any items, segments, budgets, number of replays).  The
conditions are those under which a file's frames are never taken away while it
is read: a second file of the same name empties it, and a failed header write
sends the next item over its first frames (`FilesGrow`).  During a rotation the offset is inside the
header, and it is so only from the seek to the last byte of the header
(`OffHeader`): no item is written there.  A power cut may
shorten a file, but no loop survives it.  `ControlOK` relates each loop's
position, tokens and segment to the files and the queue; `OneLoop` says whose
loop may run and which context it watches: the field `replayCtx` is read anew in
each round, so with overlap a loop may watch the context of its successor, which
is why `ActiveHasLoop` needs the caller to wait.  `InOrderInv` is the argument
for completeness: what is due and no longer in the queue is settled, and a pass
has settled the frames of its segment before its position.  `ReplayImplemented`
follows, since the frame that is delivered next is then the oldest that is not
settled.

**Pipeline** (any items, classes, capacity, disk and failure rates).
`PipelineInv` joins the queue's `IInv`, which every step keeps because it is a
step or a stutter of `APQ` or none of its business (`QueueStep`), with who holds
the two mutexes (`CallersOK`), where the replay stands on the disk (`ReplayOK`)
and that
whatever is in the system is an item of the producer or its bytes (`FlowOK`,
`Forms`).  `NothingVanishes` then
holds because the disk only grows (`LogGrows`) and each move puts an item into
its next place before it leaves the last; `SpillJustified` because the queue's
mutex is held from the check to the end of the callback (`SpillStep`).

**Cardinality limiter** (any number of calls, batches and keys).  `IInv` adds to
the two invariants that the map is finite, that the gauge is never above the
size of the map (a value it once had, and the map does not shrink), and the
type of `tracked`.  `TrackBounds` is the lemma about the locked section: a key
is evicted only when one was added.  `TypeCorrect` needs that removal leaves
labels (`AggregatedType`); `Kept` is a recursive function and handled like
`BytesOf`.

Every invariant, every action property and every refinement that a passing run
checks is thus a theorem, some under the conditions named above.  Only
model-checked:

* liveness under fairness (`EventuallyDequeued`, `WaiterServed`, `CancelledEnds`,
  `EnqueueReturns`, `HealedDrains`), which the prover does not handle;
  `ServiceProgress` is the variant argument behind the first,
  `OnlyCancelStrands` and `ActiveHasLoop` are the safety halves of the second
  and third;
* the sentences that the code does not keep (the runs marked **fails**), for
  which a counterexample is the proof.

## 5. What is not modelled

* In `Pipeline`: crashes, several segments, the limiter and the batch processor
  in front of the queue.  Crashes and segments are in `DLQReplay`, the limiter
  hands every point on and shares nothing with the queue.
* Overlapping replays beyond `replay_overlap`: with two loops on one queue each
  drops the head the other may be reading, and both deliver the same items.
* The request counters, status page and shutdown of the mock upstream.
* `updateMetrics` of the DLQ (two gauges nothing reads) and the counters of the
  APQ and the DLQ that nothing reads.
* `Start` and `StoreItem` at the same time: `Start` calls
  `rotateSegmentIfNeeded` without the mutex, but the collector starts an
  extension before anything uses it.
* `SetSpillFunc` racing with `Enqueue`: it writes the field without the mutex.
  Nobody calls it; the model takes it as a step between calls.
* Factories, default configuration, scripts, dashboards: no state.

Disagreements between code and documents met while modelling that no run
checks:

* a sample counted as dropped is tracked and passed on (`cl/plugin.go:117`
  against 116 and 42);
* what a pass delivered before an error is not charged to its tokens
  (`file_storage.go:518-529`);
* above 95% fill critical items are turned away like any other
  (`plugin.go:155-172` against `README.md:64`);
* a `Dequeue` can miss although the comment of `plugin.go:198` says it should
  not (bounded by `FreshTurnHasWork` and `ServiceProgress`);
* `StoreItem` returns before anything is synced, so a power cut takes
  acknowledged items of the current segment; it returns an error for an item
  that is stored when the rotation after it fails (line 204);
* a rotation whose seek fails leaves the full segment in use, which then grows
  beyond `max_segment_mib`;
* when `os.Create` or Close fails in a rotation the closed file stays
  `currentSegment`, and since `rotateSegmentIfNeeded` looks only for nil no later
  `StoreItem` succeeds (`file_storage.go:284,294` against the comment of 174;
  what was acknowledged stays readable, as `dlq_storage` shows);
* a failed data write leaves half a frame, and what is acknowledged behind it
  cannot be read (`file_storage.go:194` against 169);
* a rotation whose `Sync` or header write fails leaves the write offset at the
  header, and the next items overwrite acknowledged ones
  (`file_storage.go:281` against 169);
* a segment that is created but not yet adopted passes the verifier's check and
  is hashed while it is the active one (`file_storage.go:389` against 388);
* a `Stop` between the verifier's two reads of `currentSegment` makes it panic
  (`file_storage.go:390`, the place `panic` of `DLQVerify`);
* keys depend on the order of labels (`cl/plugin.go:240-242`, admitted in
  `README.md:89`).

## 6. Plan

Done: `APQ` with `PriorityBuffer`, `APQBlocking`, `DLQStorage` with
`DurableLog`, `DLQVerify`, `DLQReplay` with `InOrderReplay`,
`CardinalityLimiter`, `MockUpstream`, `Pipeline`, and the proofs of section 4.

Next, in this order:

1. Weaker conditions where the code promises more than the theorem says:
   `ReplayIsComplete` for segments without a torn header, `HeaderHonest` of the
   segments sealed before the first failed write.
2. `ReplayImplemented` and `LogImplemented` composed: what was acknowledged is
   delivered by a replay that ends by itself.
3. The safety facts the liveness runs rest on, as theorems: the order in which
   `Pipeline` takes its two mutexes, and the variant of `HealedDrains`.
