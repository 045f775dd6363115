------------------------------ MODULE DLQStorage ------------------------------
(***************************************************************************)
(* The write path of FileStorageExtension, plugins/dlq/file_storage.go:    *)
(* StoreItem appends a frame (4 byte size, compressed data) to the current *)
(* segment file, rotates it when it is full, and Stop seals the last one.  *)
(*                                                                         *)
(* mutex serialises StoreItem and Stop, and the host calls Start first, so *)
(* one call is in progress at a time; its system calls are separate        *)
(* actions because the process may die between any two of them, and each   *)
(* may fail on its own.  Segment names carry the time in whole seconds.    *)
(*                                                                         *)
(* Data is abstracted to items: compression is invertible and a hash is    *)
(* the sequence that was hashed.  A frame is whole once its data is        *)
(* written; replay stops at the first frame that is not.  The gauges of    *)
(* updateMetrics are read by nobody and left out.                          *)
(*                                                                         *)
(* "Variant" definitions are slips the properties notice, not the code.    *)
(***************************************************************************)
EXTENDS Integers, Sequences, FiniteSets

CONSTANTS
    Items,       \* the payloads of the StoreItem calls, one call each
    None,        \* nil
    FrameBytes,  \* FrameBytes[i]: bytes of the frame of item i
    MaxSegment,  \* MaxSegmentMiB in bytes
    MaxTime,     \* bound: the clock stops here
    MaxCrashes,  \* bound: how often the process dies
    IOFaults,    \* the system calls that may fail
    SameSecond,  \* may a rotation come within a second of an earlier one?
    PowerCuts    \* may a crash take what was not synced?

headerSize == 32
Times == 0 .. MaxTime
IOSteps == {"create", "placeholder", "size", "data", "seek", "header", "sync", "close"}

ASSUME DLQAssumption ==
    /\ FrameBytes \in [Items -> Nat \ {0}]
    /\ MaxSegment \in Nat /\ MaxSegment > headerSize
    /\ MaxTime \in Nat /\ MaxCrashes \in Nat
    /\ IOFaults \subseteq IOSteps
    /\ SameSecond \in BOOLEAN /\ PowerCuts \in BOOLEAN
    /\ None \notin Items /\ None \notin Nat

VARIABLES
    files,             \* the directory: a segment for each time in its domain
    now,               \* the clock, in seconds
    currentSegment,    \* the segment items go to, None for nil
    isOpen,            \* whether its descriptor is still open
    offset,            \* frames before its write offset, -1 inside the header
    currentSize,
    currentItemCount,
    hasher,            \* the items hashed since the segment was created
    pc,                \* the next system call of the call in progress
    caller,            \* what that call is doing
    item,              \* the item it stores
    fresh,             \* the file rotateSegment has created but not adopted
    submitted,         \* items given to StoreItem
    acked,             \* items whose StoreItem returned nil
    crashes,
    durable            \* the segments whose Sync has succeeded

memory == <<currentSegment, isOpen, offset, currentSize, currentItemCount, hasher>>
call == <<caller, item, fresh>>
history == <<submitted, acked, crashes, durable>>
vars == <<files, now, memory, pc, call, history>>

-----------------------------------------------------------------------------
Blank(kind) == [kind |-> kind, count |-> 0, hash |-> <<>>]
Sealed(count, hash) == [kind |-> "sealed", count |-> count, hash |-> hash]
Frame(i, whole) == [item |-> i, whole |-> whole]
EmptyFile == [header |-> Blank("none"), body |-> <<>>]

body == files[currentSegment].body

\* The frames of a segment that a reader gets to, starting after the header.
Readable(b) == {k \in 1 .. Len(b) : \A j \in 1 .. k : b[j].whole}

\* Every readable frame in the directory, and the item it holds.
Places == UNION {{t} \X Readable(files[t].body) : t \in DOMAIN files}
ItemAt(p) == files[p[1]].body[p[2]].item

\* The order replay visits places in: by segment name, then by offset.
Precedes(p, q) == p[1] < q[1] \/ (p[1] = q[1] /\ p[2] < q[2])

IsSealed(t) == files[t].header.kind = "sealed"

\* A write at the offset that does not end where a frame ends: beyond the end
\* it leaves a part of a frame, over frames it tears them.
Torn(b, i) ==
    IF offset >= Len(b) THEN Append(b, Frame(i, FALSE))
    ELSE [k \in 1 .. Len(b) |-> IF k > offset THEN Frame(b[k].item, FALSE) ELSE b[k]]

\* The size of item i is written: over one of the same length it changes nothing.
Opened(b, i) ==
    IF /\ offset < Len(b) /\ b[offset + 1].whole
       /\ FrameBytes[b[offset + 1].item] = FrameBytes[i]
    THEN b
    ELSE Torn(b, i)

\* Variant: the data always goes right after the header.
FilledFirst(b, i) == [b EXCEPT ![1] = Frame(i, TRUE)]

\* The data follows: the frame at the offset is that of item i.
Filled(b, i) == [b EXCEPT ![offset + 1] = Frame(i, TRUE)]

May(step) == step \in IOFaults
-----------------------------------------------------------------------------
Init ==
    /\ files = [t \in {} |-> EmptyFile]
    /\ now = 0
    /\ currentSegment = None /\ isOpen = FALSE /\ offset = 0
    /\ currentSize = 0 /\ currentItemCount = 0 /\ hasher = <<>>
    /\ pc = "idle" /\ caller = "start" /\ item = None /\ fresh = None
    /\ submitted = {} /\ acked = {} /\ crashes = 0 /\ durable = {}

Tick ==
    /\ now < MaxTime
    /\ now' = now + 1
    /\ UNCHANGED <<files, memory, pc, call, history>>

-----------------------------------------------------------------------------
(* The calls.  One that finds nothing to do returns at once.               *)

\* Start: rotateSegmentIfNeeded, the first call of a process.
Start ==
    /\ pc = "idle" /\ currentSegment = None /\ caller = "start"
    /\ pc' = "create"
    /\ UNCHANGED <<files, now, memory, call, history>>

StoreItem(i) ==
    /\ pc = "idle" /\ i \notin submitted
    /\ submitted' = submitted \cup {i} /\ item' = i
    /\ IF currentSegment = None
       THEN pc' = "create" /\ caller' = "ensure"
       ELSE pc' = "size" /\ caller' = "write"
    /\ UNCHANGED <<files, now, memory, fresh, acked, crashes, durable>>

\* Variant: the segment is closed without its header.
StopUnsealed ==
    /\ pc = "idle" /\ currentSegment # None
    /\ pc' = "close" /\ caller' = "stop"
    /\ UNCHANGED <<files, now, memory, item, fresh, history>>

Stop ==
    /\ pc = "idle" /\ currentSegment # None
    /\ pc' = "finalize" /\ caller' = "stop"
    /\ UNCHANGED <<files, now, memory, item, fresh, history>>

\* An error return: nothing that was done is undone.
Fail == pc' = "idle"

-----------------------------------------------------------------------------
(* StoreItem after it has ensured a segment, lines 179-211.                *)

WriteSizeOk ==
    /\ isOpen
    /\ files' = IF offset < 0
                THEN [files EXCEPT ![currentSegment].header = Blank("torn")]
                ELSE [files EXCEPT ![currentSegment].body = Opened(@, item)]
    /\ pc' = "data"
    /\ UNCHANGED offset

\* A closed descriptor writes nothing; a failed write may leave some bytes.
WriteSizeFail ==
    /\ ~isOpen \/ May("size")
    /\ \/ UNCHANGED <<files, offset>>
       \/ /\ isOpen /\ offset >= 0
          /\ files' = [files EXCEPT ![currentSegment].body = Torn(@, item)]
          /\ offset' = offset + 1
    /\ Fail

WriteSize ==
    /\ pc = "size"
    /\ hasher' = Append(hasher, item)
    /\ WriteSizeOk \/ WriteSizeFail
    /\ UNCHANGED <<now, currentSegment, isOpen, currentSize, currentItemCount,
                   call, history>>

\* Variant: a segment is full only beyond its limit.
WriteDataOkLate ==
    /\ offset >= 0
    /\ files' = [files EXCEPT ![currentSegment].body = Filled(@, item)]
    /\ offset' = offset + 1
    /\ currentSize' = currentSize + FrameBytes[item]
    /\ currentItemCount' = currentItemCount + 1
    /\ IF currentSize' > MaxSegment
       THEN pc' = "finalize" /\ caller' = "rotate"
       ELSE pc' = "return" /\ UNCHANGED caller

\* Inside the header the data may fit, or run on into the frames.
WriteDataOk ==
    /\ \/ /\ offset >= 0
          /\ files' = [files EXCEPT ![currentSegment].body = Filled(@, item)]
          /\ offset' = offset + 1
       \/ offset < 0 /\ UNCHANGED <<files, offset>>
       \/ /\ offset < 0
          /\ files' = [files EXCEPT ![currentSegment].body = <<Frame(item, FALSE)>>]
          /\ offset' = 1
    /\ currentSize' = currentSize + FrameBytes[item]
    /\ currentItemCount' = currentItemCount + 1
    /\ IF currentSize' >= MaxSegment
       THEN pc' = "finalize" /\ caller' = "rotate"
       ELSE pc' = "return" /\ UNCHANGED caller

WriteDataFail ==
    /\ May("data")
    /\ \/ offset < 0 /\ UNCHANGED <<files, offset>>
       \/ /\ offset >= 0
          /\ files' = [files EXCEPT ![currentSegment].body = Torn(@, item)]
          /\ offset' = offset + 1
    /\ Fail
    /\ UNCHANGED <<currentSize, currentItemCount, caller>>

WriteData ==
    /\ pc = "data"
    /\ WriteDataOk \/ WriteDataFail
    /\ UNCHANGED <<now, currentSegment, isOpen, hasher, item, fresh, history>>

\* The call returns nil.
Return ==
    /\ pc = "return"
    /\ pc' = "idle"
    /\ acked' = acked \cup {item}
    /\ UNCHANGED <<files, now, memory, call, submitted, crashes, durable>>

-----------------------------------------------------------------------------
(* finalizeSegment and rotateSegment, lines 278-345.                       *)

\* Stop logs the error and goes on to close; rotateSegment returns it.
FinalizeFail == pc' = IF caller = "stop" THEN "close" ELSE "idle"

TearHeader == files' = [files EXCEPT ![currentSegment].header = Blank("torn")]
SealHeader ==
    files' = [files EXCEPT ![currentSegment].header = Sealed(currentItemCount, hasher)]

\* The offset is inside the header until its last byte is written.
SeekHeader ==
    /\ pc = "finalize"
    /\ \/ isOpen /\ offset' = -1 /\ pc' = "count"
       \/ (~isOpen \/ May("seek")) /\ FinalizeFail /\ UNCHANGED offset
    /\ UNCHANGED <<files, durable>>

\* The magic bytes, which are there already, and the item count.
WriteCount ==
    /\ pc = "count"
    /\ \/ TearHeader /\ pc' = "hash"
       \/ May("header") /\ FinalizeFail /\ (TearHeader \/ UNCHANGED files)
    /\ UNCHANGED <<offset, durable>>

WriteHash ==
    /\ pc = "hash"
    /\ \/ SealHeader /\ offset' = 0 /\ pc' = "sync"
       \/ May("header") /\ FinalizeFail /\ UNCHANGED <<files, offset>>
    /\ UNCHANGED durable

Sync ==
    /\ pc = "sync"
    /\ \/ durable' = durable \cup {currentSegment} /\ pc' = "close"
       \/ May("sync") /\ FinalizeFail /\ UNCHANGED durable
    /\ UNCHANGED <<files, offset>>

Finalize ==
    /\ SeekHeader \/ WriteCount \/ WriteHash \/ Sync
    /\ UNCHANGED <<now, currentSegment, isOpen, currentSize, currentItemCount,
                   hasher, call, submitted, acked, crashes>>

\* Whatever Close reports, the descriptor is gone.
Close ==
    /\ pc = "close"
    /\ isOpen' = FALSE
    /\ \/ /\ isOpen
          /\ IF caller = "stop"
             THEN pc' = "idle" /\ currentSegment' = None
             ELSE pc' = "create" /\ UNCHANGED currentSegment
       \/ /\ ~isOpen \/ May("close")
          /\ Fail /\ UNCHANGED currentSegment
    /\ UNCHANGED <<files, now, offset, currentSize, currentItemCount, hasher,
                   call, history>>

\* Variants: a name that is rounded up, and one of a coarser clock.
CreateOkEarly ==
    /\ files' = [t \in DOMAIN files \cup {now + 1} |->
                    IF t = now + 1 THEN EmptyFile ELSE files[t]]
    /\ durable' = durable \ {now + 1}
    /\ fresh' = now + 1
    /\ pc' = "placeholder"
CreateOkCoarse ==
    /\ files' = [t \in DOMAIN files \cup {now \div 2} |->
                    IF t = now \div 2 THEN EmptyFile ELSE files[t]]
    /\ durable' = durable \ {now \div 2}
    /\ fresh' = now \div 2
    /\ pc' = "placeholder"

\* os.Create: a file of the same second is emptied.
CreateOk ==
    /\ SameSecond \/ now \notin DOMAIN files
    /\ files' = [t \in DOMAIN files \cup {now} |->
                    IF t = now THEN EmptyFile ELSE files[t]]
    /\ durable' = durable \ {now}
    /\ fresh' = now
    /\ pc' = "placeholder"

CreateFail == May("create") /\ Fail /\ UNCHANGED <<files, durable, fresh>>

Create ==
    /\ pc = "create"
    /\ CreateOk \/ CreateFail
    /\ UNCHANGED <<now, memory, caller, item, submitted, acked, crashes>>

\* Variant: the hash runs on from the previous segment.
PlaceholderOkHashing ==
    /\ files' = [files EXCEPT ![fresh].header = Blank("placeholder")]
    /\ currentSegment' = fresh /\ isOpen' = TRUE /\ offset' = 0
    /\ currentSize' = headerSize /\ currentItemCount' = 0 /\ UNCHANGED hasher
    /\ pc' = CASE caller = "start" -> "idle"
               [] caller = "ensure" -> "size"
               [] caller = "rotate" -> "return"

PlaceholderOk ==
    /\ files' = [files EXCEPT ![fresh].header = Blank("placeholder")]
    /\ currentSegment' = fresh /\ isOpen' = TRUE /\ offset' = 0
    /\ currentSize' = headerSize /\ currentItemCount' = 0 /\ hasher' = <<>>
    /\ pc' = CASE caller = "start" -> "idle"
               [] caller = "ensure" -> "size"
               [] caller = "rotate" -> "return"

PlaceholderFail ==
    /\ May("placeholder") /\ Fail
    /\ \/ files' = [files EXCEPT ![fresh].header = Blank("torn")]
       \/ UNCHANGED files
    /\ UNCHANGED memory

Placeholder ==
    /\ pc = "placeholder"
    /\ PlaceholderOk \/ PlaceholderFail
    /\ UNCHANGED <<now, call, history>>

-----------------------------------------------------------------------------
\* What a power cut may leave of a file that has not been synced: nothing, or
\* some of its first frames, under its header or the placeholder.
Remains(file) ==
    {EmptyFile} \cup
    {[header |-> h, body |-> SubSeq(file.body, 1, keep)] :
        h \in IF file = EmptyFile THEN {} ELSE {file.header, Blank("placeholder")},
        keep \in 0 .. Len(file.body)}

PowerCut ==
    LET atRisk == DOMAIN files \ durable
    IN  \E left \in [atRisk -> UNION {Remains(files[t]) : t \in atRisk}] :
            /\ \A t \in atRisk : left[t] \in Remains(files[t])
            /\ files' = [t \in DOMAIN files |->
                            IF t \in durable THEN files[t] ELSE left[t]]

\* The process dies between two system calls, and a new one starts over.
Crash ==
    /\ crashes < MaxCrashes
    /\ crashes' = crashes + 1
    /\ UNCHANGED files \/ (PowerCuts /\ PowerCut)
    /\ currentSegment' = None /\ isOpen' = FALSE /\ offset' = 0
    /\ currentSize' = 0 /\ currentItemCount' = 0 /\ hasher' = <<>>
    /\ pc' = "idle" /\ caller' = "start" /\ item' = None /\ fresh' = None
    /\ UNCHANGED <<now, submitted, acked, durable>>

Next ==
    \/ Tick
    \/ Start \/ Stop \/ \E i \in Items : StoreItem(i)
    \/ WriteSize \/ WriteData \/ Return
    \/ Finalize \/ Close \/ Create \/ Placeholder
    \/ Crash

Spec == Init /\ [][Next]_vars

-----------------------------------------------------------------------------
Headers == [kind : {"none", "placeholder", "sealed", "torn"}, count : Nat, hash : Seq(Items)]
Frames == [item : Items, whole : BOOLEAN]
SegmentFiles == [header : Headers, body : Seq(Frames)]

\* Every variable has its type: a count of frames is never out of the file.
TypeOK ==
    /\ DOMAIN files \subseteq 0 .. now
    /\ files \in [DOMAIN files -> SegmentFiles]
    /\ now \in Times
    /\ currentSegment \in DOMAIN files \cup {None}
    /\ fresh \in DOMAIN files \cup {None}
    /\ isOpen \in BOOLEAN
    /\ currentSegment # None => offset \in -1 .. Len(body)
    /\ currentSize \in Nat /\ currentItemCount \in Nat
    /\ hasher \in Seq(Items)
    /\ pc \in {"idle", "size", "data", "return", "finalize", "count", "hash",
               "sync", "close", "create", "placeholder"}
    /\ caller \in {"start", "ensure", "write", "rotate", "stop"}
    /\ item \in Items \cup {None}
    /\ submitted \subseteq Items /\ acked \subseteq submitted
    /\ crashes \in 0 .. MaxCrashes
    /\ durable \subseteq DOMAIN files

\* README.md:65, "Persist data through outages", and line 169, "StoreItem
\* persists an item to the DLQ": an item whose StoreItem returned nil can be
\* read back.
AckedReadable == acked \subseteq {ItemAt(p) : p \in Places}

\* The directory is an append-only log of whole items in the order the calls
\* came, and StoreItem returns nil only for items in it, crashes or not.
Log == INSTANCE DurableLog WITH
    stored <- {ItemAt(p) : p \in Places},
    older  <- {<<ItemAt(r[1]), ItemAt(r[2])>> :
                  r \in {s \in Places \X Places : Precedes(s[1], s[2])}}
ImplementsLog == Log!Spec

\* No power cut can have touched the segment.
Untouched(t) == t \in durable \/ ~PowerCuts

\* A sealed header describes its file: it counts the frames, all of them
\* whole, and its hash is over their items (lines 183, 199, 316-341).  When the
\* power may go, this can be said only once Sync has succeeded (line 344).
HeaderHonest ==
    \A t \in DOMAIN files : IsSealed(t) /\ Untouched(t) =>
        /\ files[t].header.count = Len(files[t].body)
        /\ files[t].header.hash =
              [k \in DOMAIN files[t].body |-> files[t].body[k].item]
        /\ \A k \in DOMAIN files[t].body : files[t].body[k].whole

\* A segment whose seal is complete, Sync included, never changes again,
\* whatever fails and whenever the process dies or the power goes: nobody
\* writes to it and no new segment takes its name (lines 278-312).
SealedForever ==
    [][\A t \in durable : t \in durable' /\ files'[t] = files[t]]_vars

\* Only a crash leaves a segment behind that is not sealed and synced: beside
\* the segment in use there is at most one for each crash, so that much is all
\* a power cut can damage (rotateSegment and Stop both finalize first).
UnsealedBound ==
    Cardinality({t \in DOMAIN files : ~IsSealed(t) \/ t \notin durable}) <= crashes + 1

\* The bytes of a segment file up to the end of each frame of b.
BytesOf(b) ==
    LET bytes[n \in 0 .. Len(b)] ==
            IF n = 0 THEN headerSize ELSE bytes[n - 1] + FrameBytes[b[n].item]
    IN  bytes

\* A segment is below its limit before its last frame (lines 198-206), so it
\* never exceeds max_segment_mib by more than one item.
SegmentBound ==
    \A t \in DOMAIN files :
        LET b == files[t].body
        IN  b # <<>> => BytesOf(b)[Len(b) - 1] < MaxSegment
=============================================================================
