--------------------------- MODULE DLQHeader_proofs ---------------------------
(***************************************************************************)
(* The segments as the disk has them, for any items, any crashes, and      *)
(* rotations that fail in Close, Create or the placeholder, as long as no  *)
(* read or write of an adopted segment fails and names do not repeat:      *)
(* every sealed header is true of its file (of a synced file, when the     *)
(* power may go), the directory is a log that only grows and holds all     *)
(* that was acknowledged, and a segment exceeds its limit by less than its *)
(* last frame.                                                             *)
(***************************************************************************)
EXTENDS DLQStorage_proofs

\* The items the frames of a body hold.
ItemsOf(b) == [k \in DOMAIN b |-> b[k].item]

\* The memory describes the frames of the current segment, all of them whole;
Counted ==
    /\ currentItemCount = Len(body)
    /\ hasher = ItemsOf(body)
    /\ \A k \in DOMAIN body : body[k].whole

\* between two items the offset is behind them.
Appending == offset = Len(body) /\ Counted

\* Between the size and the data of an item its frame is not counted yet.
MidFrame ==
    /\ offset = Len(body) - 1 /\ currentItemCount = offset /\ offset >= 0
    /\ hasher = ItemsOf(body) /\ hasher[Len(body)] = item
    /\ \A k \in 1 .. offset : body[k].whole

\* What a sealed header promises of its file.
Honest(file) ==
    file.header.kind = "sealed" =>
        /\ file.header.count = Len(file.body)
        /\ file.header.hash = ItemsOf(file.body)
        /\ \A k \in DOMAIN file.body : file.body[k].whole

\* The memory agrees with the open segment, so the header sealed from it is
\* true, and it is true before it is synced; a segment without descriptor is
\* written to by nobody.
HonestOK ==
    /\ HeaderHonest
    /\ pc \in {"data", "count", "hash", "sync"} => isOpen
    /\ pc = "sync" => Honest(files[currentSegment])
    /\ pc \in {"create", "placeholder"} => currentSegment = None \/ ~isOpen
    /\ pc = "placeholder" => files[fresh].body = <<>>
    /\ currentSegment # None /\ isOpen =>
          /\ pc \in {"idle", "size", "return", "finalize"} =>
                ~IsSealed(currentSegment) /\ Appending
          /\ pc = "data" => ~IsSealed(currentSegment) /\ MidFrame
          /\ pc \in {"count", "hash"} => ~IsSealed(currentSegment) /\ Counted

\* The faults under which the theorem holds.
WritesWork == ~SameSecond /\ IOFaults \subseteq {"seek", "close", "create", "placeholder"}

-----------------------------------------------------------------------------
\* Opening a frame at the end of a body appends it.
LEMMA OpenedAtEnd ==
    ASSUME NEW b \in Seq(Frames), offset = Len(b), NEW i \in Items
    PROVE  /\ Opened(b, i) = Append(b, Frame(i, FALSE))
           /\ Opened(b, i) \in Seq(Frames)
           /\ Len(Opened(b, i)) = Len(b) + 1
           /\ \A k \in 1 .. Len(b) : Opened(b, i)[k] = b[k]
           /\ Opened(b, i)[Len(b) + 1] = Frame(i, FALSE)
<1>1. Len(b) \in Nat /\ Frame(i, FALSE) \in Frames
  BY LenProperties DEF Frame, Frames
<1>2. ~ (offset < Len(b)) /\ offset >= Len(b)
  BY <1>1
<1>3. Opened(b, i) = Append(b, Frame(i, FALSE))
  BY <1>2, Zenon DEF Opened, Torn
<1> DEFINE frame == Frame(i, FALSE)
<1>4. frame \in Frames /\ Opened(b, i) = Append(b, frame)
  BY <1>1, <1>3
<1> HIDE DEF frame
<1>5. /\ Opened(b, i) \in Seq(Frames)
      /\ Len(Opened(b, i)) = Len(b) + 1
      /\ \A k \in 1 .. Len(b) : Opened(b, i)[k] = b[k]
      /\ Opened(b, i)[Len(b) + 1] = frame
  BY <1>4, AppendProperties
<1> QED
  BY <1>3, <1>5 DEF frame

\* The items of a longer body.
LEMMA ItemsAppended ==
    ASSUME NEW b \in Seq(Frames), NEW c \in Seq(Frames), NEW i \in Items,
           Len(c) = Len(b) + 1, \A k \in 1 .. Len(b) : c[k].item = b[k].item,
           c[Len(b) + 1].item = i
    PROVE  ItemsOf(c) = Append(ItemsOf(b), i)
<1>1. /\ Len(b) \in Nat /\ Len(c) \in Nat
      /\ DOMAIN b = 1 .. Len(b) /\ DOMAIN c = 1 .. Len(c)
  BY LenProperties
<1>2. \A s \in Seq(Frames) : ItemsOf(s) \in Seq(Items) /\ Len(ItemsOf(s)) = Len(s)
  <2> TAKE s \in Seq(Frames)
  <2>1. /\ Len(s) \in Nat /\ DOMAIN s = 1 .. Len(s)
        /\ s \in [1 .. Len(s) -> Frames]
    BY LenProperties
  <2>2. ItemsOf(s) \in [1 .. Len(s) -> Items]
    BY <2>1 DEF ItemsOf, Frames
  <2> QED
    BY <2>1, <2>2
<1>3. /\ Append(ItemsOf(b), i) \in Seq(Items)
      /\ Len(Append(ItemsOf(b), i)) = Len(b) + 1
      /\ \A k \in 1 .. Len(b) : Append(ItemsOf(b), i)[k] = ItemsOf(b)[k]
      /\ Append(ItemsOf(b), i)[Len(b) + 1] = i
  BY <1>2, AppendProperties
<1>4. \A k \in 1 .. Len(c) : ItemsOf(c)[k] = Append(ItemsOf(b), i)[k]
  <2> TAKE k \in 1 .. Len(c)
  <2>1. ItemsOf(c)[k] = c[k].item
    BY <1>1 DEF ItemsOf
  <2>2. CASE k \in 1 .. Len(b)
    BY <1>1, <1>3, <2>1, <2>2 DEF ItemsOf
  <2>3. CASE k = Len(b) + 1
    BY <1>3, <2>1, <2>3
  <2>4. k \in 1 .. Len(b) \/ k = Len(b) + 1
    BY <1>1
  <2> QED
    BY <2>2, <2>3, <2>4
<1> QED
  BY <1>2, <1>3, <1>4, SeqEqual

\* One file changes, and is honest afterwards.
LEMMA OneFile ==
    ASSUME HeaderHonest, NEW s, durable' \subseteq durable \cup {s},
           \A u \in DOMAIN files' \ {s} : u \in DOMAIN files /\ files'[u] = files[u],
           s \in DOMAIN files' => Honest(files'[s])
    PROVE  HeaderHonest'
BY DEF HeaderHonest, Honest, IsSealed, Untouched, ItemsOf

\* As long as the files stay and nothing is synced, no header becomes wrong.
LEMMA SameFiles ==
    ASSUME HeaderHonest, UNCHANGED files, durable' \subseteq durable
    PROVE  HeaderHonest'
BY DEF HeaderHonest, IsSealed, Untouched

-----------------------------------------------------------------------------
(* Action by action.                                                       *)

\* The faults that are left, and the names that are free.
LEMMA FaultsLeft ==
    ASSUME WritesWork
    PROVE  /\ ~May("size") /\ ~May("data")
           /\ ~May("header") /\ ~May("sync") /\ ~SameSecond
BY DEF WritesWork, May

\* The clock and the beginnings of calls change neither files nor memory.
LEMMA CallsHonest ==
    ASSUME IInv, HonestOK,
           \/ UNCHANGED vars \/ Tick \/ Start \/ Stop
           \/ (\E i \in Items : StoreItem(i)) \/ Return
    PROVE  HonestOK'
<1>1. UNCHANGED <<files, memory, durable>>
  BY DEF vars, history, Tick, Start, Stop, StoreItem, Return
<1>2. \/ UNCHANGED <<pc, item, fresh>>
      \/ /\ pc \in {"idle", "return"} /\ pc' \in {"idle", "size", "finalize"}
      \/ /\ pc = "idle" /\ pc' = "create" /\ currentSegment = None
  BY DEF vars, call, Tick, Start, Stop, StoreItem, Return
<1>3. HeaderHonest'
  BY <1>1, SameFiles DEF HonestOK
<1>4. UNCHANGED <<body, Appending, Counted>>
  BY <1>1 DEF memory, body, Appending, Counted, ItemsOf
<1>5. UNCHANGED item => MidFrame' = MidFrame
  BY <1>1 DEF memory, body, MidFrame, ItemsOf
<1>6. currentSegment' = currentSegment /\ isOpen' = isOpen
      /\ IsSealed(currentSegment)' = IsSealed(currentSegment)
  BY <1>1 DEF memory, IsSealed
<1> QED
  BY <1>1, <1>2, <1>3, <1>4, <1>5, <1>6 DEF HonestOK, Honest

\* A size is written: half a frame is appended to the segment.
LEMMA FrameOpened ==
    ASSUME WritesWork, IInv, HonestOK, WriteSize, isOpen
    PROVE  /\ currentSegment \in DOMAIN files /\ body \in Seq(Frames) /\ Len(body) \in Nat
           /\ DOMAIN files' = DOMAIN files
           /\ \A u \in DOMAIN files \ {currentSegment} : files'[u] = files[u]
           /\ \A u \in DOMAIN files : files'[u].header = files[u].header
           /\ body' \in Seq(Frames) /\ Len(body') = Len(body) + 1
           /\ \A k \in 1 .. Len(body) : body'[k] = body[k]
           /\ body'[Len(body) + 1] = Frame(item, FALSE)
           /\ pc' = "data" /\ offset' = offset
<1>1. /\ currentSegment # None /\ item \in Items /\ pc = "size"
      /\ currentSegment' = currentSegment
      /\ files \in [DOMAIN files -> SegmentFiles]
  BY DEF IInv, WriteSize, CallOK, TypeOK, call
<1>2. /\ currentSegment \in DOMAIN files /\ body \in Seq(Frames) /\ Len(body) \in Nat
  BY <1>1, BodyType DEF IInv
<1>3. offset = Len(body) /\ ~ (offset < 0)
  BY <1>1, <1>2 DEF HonestOK, Appending
<1>4. /\ files' = [files EXCEPT ![currentSegment].body = Opened(body, item)]
      /\ pc' = "data" /\ offset' = offset
  BY <1>3, FaultsLeft DEF WriteSize, WriteSizeOk, WriteSizeFail, body
<1> DEFINE c == Opened(body, item)
<1>5. /\ c \in Seq(Frames) /\ Len(c) = Len(body) + 1
      /\ \A k \in 1 .. Len(body) : c[k] = body[k]
      /\ c[Len(body) + 1] = Frame(item, FALSE)
  BY <1>1, <1>2, <1>3, OpenedAtEnd
<1>6. files' = [files EXCEPT ![currentSegment].body = c]
  BY <1>4
<1> HIDE DEF c
<1>7. /\ DOMAIN files' = DOMAIN files
      /\ body' = c
      /\ \A u \in DOMAIN files \ {currentSegment} : files'[u] = files[u]
      /\ \A u \in DOMAIN files : files'[u].header = files[u].header
  BY <1>1, <1>2, <1>5, <1>6, BodyWritten DEF body
<1> QED
  BY <1>2, <1>4, <1>5, <1>7

\* The segment is in the middle of a frame.
LEMMA WriteSizeHonest == ASSUME WritesWork, IInv, HonestOK, WriteSize PROVE HonestOK'
<1>1. /\ currentSegment # None /\ item \in Items /\ pc = "size"
      /\ currentSegment' = currentSegment /\ isOpen' = isOpen
      /\ UNCHANGED <<item, fresh, currentItemCount, durable>>
      /\ hasher' = Append(hasher, item)
  BY DEF IInv, WriteSize, CallOK, TypeOK, call, history
<1>2. CASE ~isOpen
  <2>1. UNCHANGED files /\ pc' = "idle"
    BY <1>2 DEF WriteSize, WriteSizeOk, WriteSizeFail, Fail
  <2>2. HeaderHonest'
    BY <1>1, <2>1, SameFiles DEF HonestOK
  <2> QED
    BY <1>1, <1>2, <2>1, <2>2 DEF HonestOK
<1>3. CASE isOpen
  <2>1. ~IsSealed(currentSegment) /\ Appending
    BY <1>1, <1>3 DEF HonestOK
  <2> DEFINE c == body'
  <2>2. /\ currentSegment \in DOMAIN files /\ body \in Seq(Frames) /\ Len(body) \in Nat
        /\ DOMAIN files' = DOMAIN files
        /\ \A u \in DOMAIN files \ {currentSegment} : files'[u] = files[u]
        /\ \A u \in DOMAIN files : files'[u].header = files[u].header
        /\ c \in Seq(Frames) /\ Len(c) = Len(body) + 1
        /\ \A k \in 1 .. Len(body) : c[k] = body[k]
        /\ c[Len(body) + 1] = Frame(item, FALSE)
        /\ pc' = "data" /\ offset' = offset
    BY <1>3, FrameOpened
  <2>3. body' = c
    OBVIOUS
  <2> HIDE DEF c
  <2>4. c[Len(body) + 1].item = item
    BY <2>2 DEF Frame
  <2>5. ~IsSealed(currentSegment)'
    BY <1>1, <2>1, <2>2 DEF IsSealed
  <2>6. HeaderHonest'
    <3>1. Honest(files'[currentSegment])
      BY <1>1, <2>5 DEF IsSealed, Honest
    <3> QED
      BY <1>1, <2>2, <3>1, OneFile DEF HonestOK
  <2>7. MidFrame'
    <3>1. ItemsOf(c) = Append(ItemsOf(body), item)
      BY <1>1, <2>2, <2>4, ItemsAppended
    <3>2. hasher' = ItemsOf(c)
      BY <1>1, <2>1, <3>1 DEF Appending, Counted
    <3>3. Len(body) + 1 \in DOMAIN c
      BY <2>2, LenProperties
    <3>4. ItemsOf(c)[Len(body) + 1] = item
      BY <2>4, <3>3 DEF ItemsOf
    <3>5. \A k \in 1 .. offset : c[k].whole
      BY <2>1, <2>2, LenProperties DEF Appending, Counted
    <3>6. offset = Len(c) - 1 /\ currentItemCount = offset /\ offset >= 0
      BY <2>1, <2>2 DEF Appending, Counted
    <3> QED
      BY <1>1, <2>2, <2>3, <3>2, <3>4, <3>5, <3>6 DEF MidFrame
  <2> QED
    BY <1>1, <1>3, <2>2, <2>5, <2>6, <2>7 DEF HonestOK
<1> QED
  BY <1>2, <1>3

\* The data is written: the last frame of the segment is whole.
LEMMA FrameFilled ==
    ASSUME WritesWork, IInv, HonestOK, WriteData
    PROVE  /\ currentSegment \in DOMAIN files /\ body \in Seq(Frames) /\ Len(body) \in Nat
           /\ DOMAIN files' = DOMAIN files
           /\ \A u \in DOMAIN files \ {currentSegment} : files'[u] = files[u]
           /\ \A u \in DOMAIN files : files'[u].header = files[u].header
           /\ body' \in Seq(Frames) /\ Len(body') = Len(body)
           /\ \A k \in 1 .. Len(body) :
                 body'[k] = IF k = Len(body) THEN Frame(item, TRUE) ELSE body[k]
           /\ offset = Len(body) - 1 /\ offset >= 0 /\ currentItemCount = offset
           /\ offset' = offset + 1 /\ currentItemCount' = currentItemCount + 1
           /\ pc' \in {"finalize", "return"}
<1>1. /\ currentSegment # None /\ item \in Items
      /\ currentSegment' = currentSegment
      /\ files \in [DOMAIN files -> SegmentFiles]
      /\ MidFrame
  BY DEF IInv, WriteData, CallOK, TypeOK, HonestOK
<1>2. /\ currentSegment \in DOMAIN files /\ body \in Seq(Frames) /\ Len(body) \in Nat
  BY <1>1, BodyType DEF IInv
<1>3. offset = Len(body) - 1 /\ offset >= 0 /\ currentItemCount = offset
  BY <1>1 DEF MidFrame
<1>4. /\ files' = [files EXCEPT ![currentSegment].body = Filled(body, item)]
      /\ offset' = offset + 1
      /\ currentItemCount' = currentItemCount + 1
      /\ pc' \in {"finalize", "return"}
  <2>1. ~(offset < 0)
    BY <1>3
  <2>2. WriteDataOk
    BY FaultsLeft DEF WriteData, WriteDataFail
  <2>3. files' = [files EXCEPT ![currentSegment].body = Filled(@, item)] /\ offset' = offset + 1
    BY <2>1, <2>2 DEF WriteDataOk
  <2>4. currentItemCount' = currentItemCount + 1 /\ pc' \in {"finalize", "return"}
    BY <2>2 DEF WriteDataOk
  <2>5. files' = [files EXCEPT ![currentSegment].body = Filled(body, item)]
    BY <1>2, <2>3 DEF body
  <2> QED
    BY <2>3, <2>4, <2>5
<1> DEFINE c == Filled(body, item)
<1>5. c \in Seq(Frames) /\ Len(c) = Len(body)
  BY <1>1, <1>2, <1>3, FilledType
<1>6. \A k \in 1 .. Len(body) : c[k] = IF k = Len(body) THEN Frame(item, TRUE) ELSE body[k]
  <2>1. DOMAIN body = 1 .. Len(body) /\ offset + 1 = Len(body)
    BY <1>2, <1>3, LenProperties
  <2> QED
    BY <2>1 DEF Filled
<1>7. files' = [files EXCEPT ![currentSegment].body = c]
  BY <1>4
<1> HIDE DEF c
<1>8. /\ DOMAIN files' = DOMAIN files
      /\ body' = c
      /\ \A u \in DOMAIN files \ {currentSegment} : files'[u] = files[u]
      /\ \A u \in DOMAIN files : files'[u].header = files[u].header
  BY <1>1, <1>2, <1>5, <1>7, BodyWritten DEF body
<1> QED
  BY <1>2, <1>3, <1>4, <1>5, <1>6, <1>8

\* The frame that was filled is counted and hashed.
LEMMA WriteDataHonest == ASSUME WritesWork, IInv, HonestOK, WriteData PROVE HonestOK'
<1>1. /\ currentSegment # None /\ item \in Items /\ isOpen
      /\ currentSegment' = currentSegment /\ isOpen' = isOpen
      /\ UNCHANGED <<item, fresh, hasher, durable>>
      /\ ~IsSealed(currentSegment) /\ MidFrame
  BY DEF IInv, WriteData, CallOK, TypeOK, HonestOK, history
<1> DEFINE c == body'
<1>2. /\ currentSegment \in DOMAIN files /\ body \in Seq(Frames) /\ Len(body) \in Nat
      /\ DOMAIN files' = DOMAIN files
      /\ \A u \in DOMAIN files \ {currentSegment} : files'[u] = files[u]
      /\ \A u \in DOMAIN files : files'[u].header = files[u].header
      /\ c \in Seq(Frames) /\ Len(c) = Len(body)
      /\ \A k \in 1 .. Len(body) :
            c[k] = IF k = Len(body) THEN Frame(item, TRUE) ELSE body[k]
      /\ offset = Len(body) - 1 /\ offset >= 0 /\ currentItemCount = offset
      /\ offset' = offset + 1 /\ currentItemCount' = currentItemCount + 1
      /\ pc' \in {"finalize", "return"}
  BY FrameFilled
<1>3. body' = c
  OBVIOUS
<1> HIDE DEF c
<1>4. ~IsSealed(currentSegment)'
  BY <1>1, <1>2 DEF IsSealed
<1>5. HeaderHonest'
  <2>1. Honest(files'[currentSegment])
    BY <1>1, <1>4 DEF IsSealed, Honest
  <2> QED
    BY <1>1, <1>2, <2>1, OneFile DEF HonestOK
<1>6. DOMAIN c = 1 .. Len(body) /\ DOMAIN body = 1 .. Len(body)
  BY <1>2, LenProperties
<1>7. Len(body) \in 1 .. Len(body) /\ \A k \in 1 .. Len(body) : k # Len(body) => k \in 1 .. offset
  BY <1>2
<1>8. body[Len(body)].item = item
  BY <1>1, <1>6, <1>7 DEF MidFrame, ItemsOf
<1>9. ItemsOf(c) = ItemsOf(body)
  <2>1. \A k \in 1 .. Len(body) : c[k].item = body[k].item
    BY <1>2, <1>8 DEF Frame
  <2> QED
    BY <1>6, <2>1 DEF ItemsOf
<1>10. \A k \in DOMAIN c : c[k].whole
  <2>1. \A k \in 1 .. offset : body[k].whole
    BY <1>1 DEF MidFrame
  <2>2. Frame(item, TRUE).whole
    BY DEF Frame
  <2> QED
    BY <1>2, <1>6, <1>7, <2>1, <2>2
<1>11. Appending'
  BY <1>1, <1>2, <1>3, <1>9, <1>10 DEF Appending, Counted, MidFrame
<1> QED
  BY <1>1, <1>2, <1>4, <1>5, <1>11 DEF HonestOK

\* What the three writes of a seal do: the header is torn and then sealed.
LEMMA FinalizeSteps ==
    ASSUME WritesWork, IInv, HonestOK, Finalize
    PROVE  \/ /\ pc = "finalize" /\ UNCHANGED <<files, durable>>
              /\ \/ isOpen /\ pc' = "count"
                 \/ UNCHANGED offset /\ pc' \in {"close", "idle"}
           \/ pc = "count" /\ TearHeader /\ UNCHANGED durable /\ pc' = "hash"
           \/ pc = "hash" /\ SealHeader /\ UNCHANGED durable /\ pc' = "sync"
           \/ /\ pc = "sync" /\ UNCHANGED files /\ pc' = "close"
              /\ durable' = durable \cup {currentSegment}
BY FaultsLeft DEF Finalize, SeekHeader, WriteCount, WriteHash, Sync, FinalizeFail

\* The header written at the end is that of the body.
LEMMA FinalizeHonest == ASSUME WritesWork, IInv, HonestOK, Finalize PROVE HonestOK'
<1>1. /\ currentSegment # None /\ pc \in Finalizing
      /\ UNCHANGED <<currentSegment, isOpen, currentItemCount, hasher>>
      /\ files \in [DOMAIN files -> SegmentFiles]
      /\ currentItemCount \in Nat /\ hasher \in Seq(Items)
  BY DEF IInv, Finalize, Finalizing, SeekHeader, WriteCount, WriteHash, Sync, CallOK, TypeOK
<1>2. currentSegment \in DOMAIN files
  BY <1>1, BodyType DEF IInv
<1>3. ASSUME NEW h \in Headers, files' = [files EXCEPT ![currentSegment].header = h],
             UNCHANGED durable
      PROVE  /\ body' = body /\ files'[currentSegment].body = body
             /\ files'[currentSegment].header = h
             /\ Counted' = Counted
             /\ Honest(files'[currentSegment]) => HeaderHonest'
  <2>1. /\ DOMAIN files' = DOMAIN files
        /\ \A u \in DOMAIN files : files'[u].body = files[u].body
        /\ \A u \in DOMAIN files \ {currentSegment} : files'[u] = files[u]
        /\ files'[currentSegment].header = h
    BY <1>1, <1>2, <1>3, HeaderWritten
  <2>2. Honest(files'[currentSegment]) => HeaderHonest'
    BY <1>3, <2>1, OneFile DEF HonestOK
  <2>3. body' = body /\ files'[currentSegment].body = body
    BY <1>1, <1>2, <2>1 DEF body
  <2>4. Counted' = Counted
    BY <1>1, <2>3 DEF Counted, ItemsOf
  <2> QED
    BY <2>1, <2>2, <2>3, <2>4
<1>4. CASE /\ pc = "finalize" /\ UNCHANGED <<files, durable>>
           /\ \/ isOpen /\ pc' = "count"
              \/ UNCHANGED offset /\ pc' \in {"close", "idle"}
  <2>1. HeaderHonest'
    BY <1>4, SameFiles DEF HonestOK
  <2>2. isOpen => /\ ~IsSealed(currentSegment)' /\ Counted'
                  /\ UNCHANGED offset => Appending'
    BY <1>1, <1>4 DEF HonestOK, IsSealed, Appending, Counted, ItemsOf, body
  <2> QED
    BY <1>1, <1>4, <2>1, <2>2 DEF HonestOK
<1>5. CASE pc = "count" /\ TearHeader /\ UNCHANGED durable /\ pc' = "hash"
  <2>1. /\ Blank("torn") \in Headers /\ Blank("torn").kind = "torn"
        /\ files' = [files EXCEPT ![currentSegment].header = Blank("torn")]
    BY <1>5, HeaderTypes DEF TearHeader, Blank
  <2>2. ~IsSealed(currentSegment)' /\ Honest(files'[currentSegment])
    BY <1>1, <1>3, <1>5, <2>1 DEF IsSealed, Honest
  <2>3. HeaderHonest' /\ (isOpen => Counted')
    BY <1>1, <1>3, <1>5, <2>1, <2>2 DEF HonestOK
  <2> QED
    BY <1>1, <1>5, <2>2, <2>3 DEF HonestOK
<1>6. CASE pc = "hash" /\ SealHeader /\ UNCHANGED durable /\ pc' = "sync"
  <2>1. Counted /\ isOpen
    BY <1>1, <1>6 DEF HonestOK
  <2> DEFINE h == Sealed(currentItemCount, hasher)
  <2>2. h \in Headers /\ files' = [files EXCEPT ![currentSegment].header = h]
    BY <1>1, <1>6, HeaderTypes DEF SealHeader
  <2>3. h.count = Len(body) /\ h.hash = ItemsOf(body)
    BY <2>1 DEF Sealed, Counted
  <2> HIDE DEF h
  <2>4. Honest(files'[currentSegment])
    BY <1>3, <1>6, <2>1, <2>2, <2>3 DEF Honest, Counted
  <2>5. HeaderHonest'
    BY <1>3, <1>6, <2>2, <2>4
  <2> QED
    BY <1>1, <1>6, <2>1, <2>4, <2>5 DEF HonestOK
<1>7. CASE /\ pc = "sync" /\ UNCHANGED files /\ pc' = "close"
           /\ durable' = durable \cup {currentSegment}
  <2>1. HeaderHonest'
    BY <1>2, <1>7, OneFile DEF HonestOK
  <2> QED
    BY <1>1, <1>7, <2>1 DEF HonestOK
<1> QED
  BY <1>4, <1>5, <1>6, <1>7, FinalizeSteps

\* After Close nobody can write to the segment.
LEMMA CloseHonest == ASSUME IInv, HonestOK, Close PROVE HonestOK'
<1>1. UNCHANGED <<files, durable>> /\ isOpen' = FALSE /\ pc' \in {"idle", "create"}
  BY DEF Close, Fail, history
<1>2. HeaderHonest'
  BY <1>1, SameFiles DEF HonestOK
<1> QED
  BY <1>1, <1>2 DEF HonestOK

\* A new file has a name of its own and nothing in it.
LEMMA CreateHonest == ASSUME WritesWork, IInv, HonestOK, Create PROVE HonestOK'
<1>1. /\ pc = "create" /\ UNCHANGED <<now, memory>>
      /\ currentSegment = None \/ ~isOpen
  BY DEF Create, HonestOK
<1>2. CASE CreateFail
  <2>1. UNCHANGED <<files, durable>> /\ pc' = "idle"
    BY <1>2 DEF CreateFail, Fail
  <2>2. HeaderHonest'
    BY <2>1, SameFiles DEF HonestOK
  <2> QED
    BY <1>1, <2>1, <2>2 DEF HonestOK, memory
<1>3. CASE CreateOk
  <2>1. /\ DOMAIN files' = DOMAIN files \cup {now}
        /\ \A u \in DOMAIN files' \ {now} : u \in DOMAIN files /\ files'[u] = files[u]
        /\ files'[now] = EmptyFile /\ durable' \subseteq durable
        /\ fresh' = now /\ pc' = "placeholder"
    BY <1>3 DEF CreateOk
  <2>2. Honest(EmptyFile) /\ EmptyFile.body = <<>>
    BY DEF EmptyFile, Blank, Honest
  <2>3. HeaderHonest'
    BY <2>1, <2>2, OneFile DEF HonestOK
  <2> QED
    BY <1>1, <2>1, <2>2, <2>3 DEF HonestOK, memory
<1> QED
  BY <1>2, <1>3 DEF Create

\* The adopted file is empty and the memory starts anew with it.
LEMMA PlaceholderHonest == ASSUME WritesWork, IInv, HonestOK, Placeholder PROVE HonestOK'
<1>1. /\ pc = "placeholder" /\ fresh \in DOMAIN files
      /\ files[fresh].body = <<>>
      /\ currentSegment = None \/ ~isOpen
      /\ caller \in {"start", "ensure", "rotate"} /\ UNCHANGED durable
      /\ files \in [DOMAIN files -> SegmentFiles]
  BY DEF Placeholder, HonestOK, IInv, CallOK, TypeOK, history
<1>2. ASSUME NEW kind \in {"placeholder", "torn"},
             files' = [files EXCEPT ![fresh].header = Blank(kind)]
      PROVE  /\ DOMAIN files' = DOMAIN files
             /\ files'[fresh].body = <<>>
             /\ files'[fresh].header.kind # "sealed"
             /\ HeaderHonest'
  <2>1. Blank(kind) \in Headers
    BY HeaderTypes
  <2>2. /\ DOMAIN files' = DOMAIN files
        /\ \A u \in DOMAIN files : files'[u].body = files[u].body
        /\ \A u \in DOMAIN files \ {fresh} : files'[u] = files[u]
        /\ files'[fresh].header = Blank(kind)
    BY <1>1, <1>2, <2>1, HeaderWritten
  <2>3. files'[fresh].header.kind # "sealed"
    BY <2>2 DEF Blank
  <2>4. Honest(files'[fresh])
    BY <2>3 DEF Honest
  <2> QED
    BY <1>1, <2>2, <2>3, <2>4, OneFile DEF HonestOK
<1>3. CASE PlaceholderOk
  <2>1. /\ files'[fresh].body = <<>>
        /\ files'[fresh].header.kind # "sealed"
        /\ HeaderHonest'
    BY <1>2, <1>3 DEF PlaceholderOk
  <2>2. pc' \in {"idle", "size", "return"}
    BY <1>1, <1>3 DEF PlaceholderOk
  <2>3. currentSegment' = fresh /\ offset' = 0 /\ currentItemCount' = 0 /\ hasher' = <<>>
    BY <1>3 DEF PlaceholderOk
  <2>4. body' = <<>> /\ ~IsSealed(currentSegment)'
    BY <2>1, <2>3 DEF body, IsSealed
  <2>5. ItemsOf(<<>>) = <<>>
    BY DEF ItemsOf
  <2>6. Appending'
    BY <2>3, <2>4, <2>5, EmptySeq DEF Appending, Counted
  <2> QED
    BY <2>1, <2>2, <2>4, <2>6 DEF HonestOK
<1>4. CASE PlaceholderFail
  <2>1. UNCHANGED memory /\ pc' = "idle"
    BY <1>4 DEF PlaceholderFail, Fail
  <2>2. HeaderHonest'
    <3>1. UNCHANGED files => HeaderHonest'
      BY <1>1, SameFiles DEF HonestOK
    <3> QED
      BY <1>2, <1>4, <3>1 DEF PlaceholderFail
  <2> QED
    BY <1>1, <2>1, <2>2 DEF HonestOK, memory
<1> QED
  BY <1>3, <1>4 DEF Placeholder

\* A power cut keeps synced files as they are.
LEMMA CrashHonest == ASSUME IInv, HonestOK, Crash PROVE HonestOK'
<1>1. files \in [DOMAIN files -> SegmentFiles] /\ durable \subseteq DOMAIN files
  BY DEF IInv, TypeOK
<1>2. durable' = durable /\ currentSegment' = None /\ pc' = "idle"
  BY DEF Crash
<1>3. CASE UNCHANGED files
  BY <1>2, <1>3, SameFiles DEF HonestOK
<1>4. CASE PowerCuts /\ PowerCut
  <2>1. \A t \in durable : files'[t] = files[t]
    BY <1>1, <1>4, PowerCutFiles
  <2>2. HeaderHonest'
    BY <1>1, <1>2, <1>4, <2>1 DEF HonestOK, HeaderHonest, IsSealed, Untouched
  <2> QED
    BY <1>2, <2>2 DEF HonestOK
<1> QED
  BY <1>2, <1>3, <1>4 DEF Crash, HonestOK

\* The three facts of an inductive invariant, gathered.
LEMMA HonestInvariant == WritesWork => (Spec => []HonestOK)
<1> SUFFICES ASSUME WritesWork PROVE Spec => []HonestOK
  OBVIOUS
<1>1. Init => HonestOK
  BY DEF Init, HonestOK, HeaderHonest
<1>2. IInv /\ HonestOK /\ [Next]_vars => HonestOK'
  BY CallsHonest, WriteSizeHonest, WriteDataHonest, FinalizeHonest, CloseHonest,
     CreateHonest, PlaceholderHonest, CrashHonest DEF Next
<1> QED
  BY <1>1, <1>2, Invariant, PTL DEF Spec

-----------------------------------------------------------------------------
\* A sealed header counts and hashes exactly the frames of its file, all of
\* them whole, as long as adopted segments can be written (lines 183, 199,
\* 316-341): a failed write leaves half a frame, which no header describes.
\* Where the power may go this is said of the files whose Sync has succeeded:
\* between the header and its Sync (lines 339-344) a cut may leave the one
\* without the frames it counts.
THEOREM HeadersAreHonest == WritesWork => (Spec => []HeaderHonest)
<1>1. HonestOK => HeaderHonest
  BY DEF HonestOK
<1> QED
  BY <1>1, HonestInvariant, PTL

-----------------------------------------------------------------------------
(* The log the directory implements.                                       *)

PlacesIn(fs) == UNION {{t} \X Readable(fs[t].body) : t \in DOMAIN fs}
ItemIn(fs, p) == fs[p[1]].body[p[2]].item
ItemsIn(fs) == {ItemIn(fs, p) : p \in PlacesIn(fs)}
OrderIn(fs) ==
    {<<ItemIn(fs, r[1]), ItemIn(fs, r[2])>> :
        r \in {s \in PlacesIn(fs) \X PlacesIn(fs) : Precedes(s[1], s[2])}}

stored == ItemsIn(files)

\* What is written to is the end of the log.
AtEnd ==
    /\ currentSegment # None /\ isOpen => \A t \in DOMAIN files : t <= currentSegment
    /\ pc = "placeholder" => \A t \in DOMAIN files : t <= fresh

\* An item is in the log from the write of its data on, and acknowledged after.
ItemStored ==
    /\ stored \subseteq submitted /\ acked \subseteq stored
    /\ pc \in {"size", "data"} => item \notin stored
    /\ pc \in {"create", "placeholder"} /\ caller = "ensure" => item \notin stored
    /\ pc = "return" => item \in stored
    /\ pc \in {"close", "create", "placeholder"} \cup Finalizing /\ caller = "rotate"
          => item \in stored

LogInv == AtEnd /\ ItemStored

-----------------------------------------------------------------------------
\* Frames are read up to the first that is not whole.
LEMMA ReadableFrames ==
    /\ \A b : Readable(b) \subseteq 1 .. Len(b)
    /\ Readable(<<>>) = {}
BY EmptySeq DEF Readable

\* A place is a readable frame of a file.
LEMMA PlaceMember ==
    ASSUME NEW fs, NEW p
    PROVE  p \in PlacesIn(fs) <=>
              \E t \in DOMAIN fs : \E k \in Readable(fs[t].body) : p = <<t, k>>
BY DEF PlacesIn

\* One place before another makes a pair of the order.
LEMMA OrderMember ==
    ASSUME NEW fs, NEW x
    PROVE  x \in OrderIn(fs) <=>
              \E p \in PlacesIn(fs) : \E q \in PlacesIn(fs) :
                 Precedes(p, q) /\ x = <<ItemIn(fs, p), ItemIn(fs, q)>>
<1>1. ASSUME x \in OrderIn(fs)
      PROVE  \E p \in PlacesIn(fs) : \E q \in PlacesIn(fs) :
                Precedes(p, q) /\ x = <<ItemIn(fs, p), ItemIn(fs, q)>>
  <2>1. PICK r \in PlacesIn(fs) \X PlacesIn(fs) :
           Precedes(r[1], r[2]) /\ x = <<ItemIn(fs, r[1]), ItemIn(fs, r[2])>>
    BY <1>1 DEF OrderIn
  <2>2. r[1] \in PlacesIn(fs) /\ r[2] \in PlacesIn(fs)
    OBVIOUS
  <2> QED
    BY <2>1, <2>2
<1>2. ASSUME NEW p \in PlacesIn(fs), NEW q \in PlacesIn(fs),
             Precedes(p, q), x = <<ItemIn(fs, p), ItemIn(fs, q)>>
      PROVE  x \in OrderIn(fs)
  <2> DEFINE r == <<p, q>>
  <2>1. r \in PlacesIn(fs) \X PlacesIn(fs) /\ r[1] = p /\ r[2] = q
    OBVIOUS
  <2> HIDE DEF r
  <2>2. r \in {s \in PlacesIn(fs) \X PlacesIn(fs) : Precedes(s[1], s[2])}
    BY <1>2, <2>1
  <2>3. x = <<ItemIn(fs, r[1]), ItemIn(fs, r[2])>>
    BY <1>2, <2>1
  <2> QED
    BY <2>2, <2>3, Zenon DEF OrderIn
<1> QED
  BY <1>1, <1>2

\* The same items in the same places are the same log.
LEMMA LogKept ==
    ASSUME NEW fs, NEW gs, PlacesIn(gs) = PlacesIn(fs),
           \A p \in PlacesIn(fs) : ItemIn(gs, p) = ItemIn(fs, p)
    PROVE  ItemsIn(gs) = ItemsIn(fs) /\ OrderIn(gs) = OrderIn(fs)
<1>1. ItemsIn(gs) = ItemsIn(fs)
  BY DEF ItemsIn
<1>2. \A x : x \in OrderIn(gs) <=> x \in OrderIn(fs)
  <2> TAKE x
  <2> QED
    BY OrderMember
<1>3. OrderIn(gs) = OrderIn(fs)
  <2>1. OrderIn(gs) \subseteq OrderIn(fs) /\ OrderIn(fs) \subseteq OrderIn(gs)
    BY <1>2
  <2> QED
    BY <2>1
<1> QED
  BY <1>1, <1>3

\* An item in a new place behind all others is appended to the log.
LEMMA LogGrown ==
    ASSUME NEW fs, NEW gs, NEW new, NEW i,
           PlacesIn(gs) = PlacesIn(fs) \cup {new}, ItemIn(gs, new) = i,
           \A p \in PlacesIn(fs) :
              ItemIn(gs, p) = ItemIn(fs, p) /\ Precedes(p, new) /\ ~Precedes(new, p),
           ~Precedes(new, new)
    PROVE  /\ ItemsIn(gs) = ItemsIn(fs) \cup {i}
           /\ OrderIn(gs) = OrderIn(fs) \cup (ItemsIn(fs) \X {i})
<1>1. ItemsIn(gs) = ItemsIn(fs) \cup {i}
  BY DEF ItemsIn
<1>2. ASSUME NEW x, x \in OrderIn(gs)
      PROVE  x \in OrderIn(fs) \cup (ItemsIn(fs) \X {i})
  <2>1. PICK p \in PlacesIn(gs) : \E q \in PlacesIn(gs) :
           Precedes(p, q) /\ x = <<ItemIn(gs, p), ItemIn(gs, q)>>
    BY <1>2, OrderMember
  <2>2. PICK q \in PlacesIn(gs) : Precedes(p, q) /\ x = <<ItemIn(gs, p), ItemIn(gs, q)>>
    BY <2>1
  <2>3. p \in PlacesIn(fs) /\ ItemIn(gs, p) = ItemIn(fs, p)
    BY <2>2
  <2>4. CASE q \in PlacesIn(fs)
    BY <2>2, <2>3, <2>4, OrderMember
  <2>5. CASE q = new
    <3>1. ItemIn(fs, p) \in ItemsIn(fs)
      BY <2>3 DEF ItemsIn
    <3>2. x = <<ItemIn(fs, p), i>>
      BY <2>2, <2>3, <2>5
    <3> QED
      BY <3>1, <3>2
  <2> QED
    BY <2>4, <2>5
<1>3. ASSUME NEW x, x \in OrderIn(fs) PROVE x \in OrderIn(gs)
  <2>1. PICK p \in PlacesIn(fs) : \E q \in PlacesIn(fs) :
           Precedes(p, q) /\ x = <<ItemIn(fs, p), ItemIn(fs, q)>>
    BY <1>3, OrderMember
  <2> QED
    BY <2>1, OrderMember
<1>4. ASSUME NEW j \in ItemsIn(fs) PROVE <<j, i>> \in OrderIn(gs)
  <2>1. PICK p \in PlacesIn(fs) : j = ItemIn(fs, p)
    BY DEF ItemsIn
  <2> QED
    BY <2>1, OrderMember
<1>5. OrderIn(gs) = OrderIn(fs) \cup (ItemsIn(fs) \X {i})
  <2>1. ItemsIn(fs) \X {i} \subseteq OrderIn(gs)
    BY <1>4
  <2>2. OrderIn(fs) \subseteq OrderIn(gs)
    BY <1>3
  <2>3. OrderIn(gs) \subseteq OrderIn(fs) \cup (ItemsIn(fs) \X {i})
    BY <1>2
  <2> QED
    BY <2>1, <2>2, <2>3, Zenon
<1> QED
  BY <1>1, <1>5

\* Files that keep what can be read of them, and new ones with nothing to
\* read, are the same log.
LEMMA BodiesKept ==
    ASSUME NEW fs, NEW gs, DOMAIN fs \subseteq DOMAIN gs,
           \A t \in DOMAIN fs :
              /\ Readable(gs[t].body) = Readable(fs[t].body)
              /\ \A k \in Readable(fs[t].body) : gs[t].body[k].item = fs[t].body[k].item,
           \A t \in DOMAIN gs \ DOMAIN fs : Readable(gs[t].body) = {}
    PROVE  ItemsIn(gs) = ItemsIn(fs) /\ OrderIn(gs) = OrderIn(fs)
<1>1. \A p : p \in PlacesIn(gs) <=> p \in PlacesIn(fs)
  <2> TAKE p
  <2>1. p \in PlacesIn(fs) <=>
           \E t \in DOMAIN fs : \E k \in Readable(fs[t].body) : p = <<t, k>>
    BY PlaceMember
  <2>2. p \in PlacesIn(gs) <=>
           \E t \in DOMAIN gs : \E k \in Readable(gs[t].body) : p = <<t, k>>
    BY PlaceMember
  <2> QED
    BY <2>1, <2>2, Zenon
<1>2. PlacesIn(gs) = PlacesIn(fs)
  <2>1. PlacesIn(gs) \subseteq PlacesIn(fs) /\ PlacesIn(fs) \subseteq PlacesIn(gs)
    BY <1>1
  <2> QED
    BY <2>1
<1>3. \A p \in PlacesIn(fs) : ItemIn(gs, p) = ItemIn(fs, p)
  <2> TAKE p \in PlacesIn(fs)
  <2>1. PICK t \in DOMAIN fs : \E k \in Readable(fs[t].body) : p = <<t, k>>
    BY PlaceMember
  <2> QED
    BY <2>1 DEF ItemIn
<1> QED
  BY <1>2, <1>3, LogKept

-----------------------------------------------------------------------------
(* What a step does to the log.                                            *)

LogSame == stored' = stored /\ OrderIn(files)' = OrderIn(files)

LogAppended ==
    /\ item \notin stored
    /\ stored' = stored \cup {item}
    /\ OrderIn(files)' = OrderIn(files) \cup (stored \X {item})

\* Headers are no part of the log.
LEMMA HeaderLog ==
    ASSUME files \in [DOMAIN files -> SegmentFiles], NEW s \in DOMAIN files,
           NEW h \in Headers, files' = [files EXCEPT ![s].header = h]
    PROVE  LogSame /\ DOMAIN files' = DOMAIN files
<1>1. DOMAIN files' = DOMAIN files /\ \A u \in DOMAIN files : files'[u].body = files[u].body
  BY HeaderWritten
<1> QED
  BY <1>1, BodiesKept DEF LogSame, stored

\* Neither is a frame without its data.
LEMMA WriteSizeLog ==
    ASSUME WritesWork, IInv, HonestOK, WriteSize
    PROVE  LogSame /\ DOMAIN files' = DOMAIN files
<1>1. CASE ~isOpen
  BY <1>1 DEF WriteSize, WriteSizeOk, WriteSizeFail, LogSame, stored
<1>2. CASE isOpen
  <2> DEFINE c == body'
  <2>1. /\ currentSegment \in DOMAIN files /\ Len(body) \in Nat
        /\ DOMAIN files' = DOMAIN files
        /\ \A u \in DOMAIN files \ {currentSegment} : files'[u] = files[u]
        /\ Len(c) = Len(body) + 1
        /\ \A k \in 1 .. Len(body) : c[k] = body[k]
        /\ c[Len(body) + 1] = Frame(item, FALSE)
    BY <1>2, FrameOpened
  <2>2. files'[currentSegment].body = c
    BY DEF WriteSize, body
  <2> HIDE DEF c
  <2>3. Readable(c) = Readable(body)
    <3>1. ~ c[Len(body) + 1].whole
      BY <2>1 DEF Frame
    <3>2. \A k \in 1 .. Len(c) : k \in 1 .. Len(body) \/ k = Len(body) + 1
      BY <2>1
    <3>3. \A k \in 1 .. Len(body) : k \in 1 .. Len(c) /\ \A j \in 1 .. k : j \in 1 .. Len(body)
      BY <2>1
    <3>4. Len(body) + 1 \notin Readable(c)
      BY <2>1, <3>1 DEF Readable
    <3> QED
      BY <2>1, <3>2, <3>3, <3>4 DEF Readable
  <2>4. \A k \in Readable(body) : c[k].item = body[k].item
    BY <2>1 DEF Readable
  <2>5. \A t \in DOMAIN files :
           /\ Readable(files'[t].body) = Readable(files[t].body)
           /\ \A k \in Readable(files[t].body) : files'[t].body[k].item = files[t].body[k].item
    BY <2>1, <2>2, <2>3, <2>4 DEF body
  <2> QED
    BY <2>1, <2>5, BodiesKept DEF LogSame, stored
<1> QED
  BY <1>1, <1>2

\* With its data the frame is read after all others.
LEMMA WriteDataLog ==
    ASSUME WritesWork, IInv, HonestOK, LogInv, WriteData
    PROVE  LogAppended /\ DOMAIN files' = DOMAIN files
<1> DEFINE c == body'
           n == Len(body)
           new == <<currentSegment, n>>
<1>1. /\ currentSegment \in DOMAIN files /\ n \in Nat
      /\ DOMAIN files' = DOMAIN files
      /\ \A u \in DOMAIN files \ {currentSegment} : files'[u] = files[u]
      /\ Len(c) = n
      /\ \A k \in 1 .. n : c[k] = IF k = n THEN Frame(item, TRUE) ELSE body[k]
      /\ offset = n - 1 /\ offset >= 0
      /\ body \in Seq(Frames)
  BY FrameFilled
<1>2. /\ files'[currentSegment].body = c
      /\ MidFrame /\ item \notin stored
      /\ DOMAIN files \subseteq Nat
      /\ \A t \in DOMAIN files : t <= currentSegment
  BY <1>1 DEF WriteData, body, HonestOK, LogInv, AtEnd, ItemStored, IInv, CallOK, TypeOK, Times
<1>3. files[currentSegment].body = body
  BY DEF body
<1> HIDE DEF c
<1>4. n \in 1 .. n /\ \A k \in 1 .. n : k # n => k \in 1 .. offset
  BY <1>1
<1>5. body[n].item = item /\ \A k \in 1 .. offset : body[k].whole
  <2>1. DOMAIN body = 1 .. n
    BY <1>1, LenProperties
  <2> QED
    BY <1>2, <1>4, <2>1 DEF MidFrame, ItemsOf
<1>6. n \notin Readable(body)
  <2> SUFFICES ASSUME n \in Readable(body) PROVE item \in stored
    BY <1>2
  <2>1. new \in PlacesIn(files)
    BY <1>1, <1>3, PlaceMember
  <2>2. ItemIn(files, new) = item
    BY <1>3, <1>5 DEF ItemIn
  <2> QED
    BY <2>1, <2>2 DEF stored, ItemsIn
<1>7. Readable(body) = 1 .. offset
  <2>1. \A k \in 1 .. offset : k \in 1 .. n /\ \A j \in 1 .. k : j \in 1 .. offset
    BY <1>1
  <2>2. 1 .. offset \subseteq Readable(body)
    BY <1>5, <2>1 DEF Readable
  <2>3. Readable(body) \subseteq 1 .. n
    BY ReadableFrames
  <2> QED
    BY <1>4, <1>6, <2>2, <2>3
<1>8. Readable(c) = 1 .. n
  <2>1. \A k \in 1 .. n : c[k].whole
    BY <1>1, <1>4, <1>5 DEF Frame
  <2>2. \A k \in 1 .. n : \A j \in 1 .. k : j \in 1 .. n
    BY <1>1
  <2> QED
    BY <1>1, <2>1, <2>2 DEF Readable
<1>9. 1 .. n = (1 .. offset) \cup {n}
  BY <1>1
<1>10. \A k \in 1 .. offset : c[k].item = body[k].item
  <2>1. \A k \in 1 .. offset : k \in 1 .. n /\ k # n
    BY <1>1
  <2> HIDE DEF n
  <2> QED
    BY <1>1, <2>1
<1>11. c[n].item = item
  BY <1>1, <1>4 DEF Frame
<1>12. \A p : p \in PlacesIn(files') <=> p \in PlacesIn(files) \cup {new}
  <2> TAKE p
  <2>1. p \in PlacesIn(files) <=>
           \E t \in DOMAIN files : \E k \in Readable(files[t].body) : p = <<t, k>>
    BY PlaceMember
  <2>2. p \in PlacesIn(files') <=>
           \E t \in DOMAIN files' : \E k \in Readable(files'[t].body) : p = <<t, k>>
    BY PlaceMember
  <2>3. Readable(files'[currentSegment].body) = Readable(files[currentSegment].body) \cup {n}
    BY <1>2, <1>3, <1>7, <1>8, <1>9
  <2>4. \A t \in DOMAIN files :
           t # currentSegment => Readable(files'[t].body) = Readable(files[t].body)
    BY <1>1
  <2> HIDE DEF n
  <2> QED
    BY <1>1, <2>1, <2>2, <2>3, <2>4
<1>13. PlacesIn(files') = PlacesIn(files) \cup {new}
  <2> HIDE DEF new
  <2>1. /\ PlacesIn(files') \subseteq PlacesIn(files) \cup {new}
        /\ PlacesIn(files) \cup {new} \subseteq PlacesIn(files')
    BY <1>12
  <2> QED
    BY <2>1
<1>14. ItemIn(files', new) = item
  BY <1>2, <1>11 DEF ItemIn
<1>15. \A p \in PlacesIn(files) :
          ItemIn(files', p) = ItemIn(files, p) /\ Precedes(p, new) /\ ~Precedes(new, p)
  <2> TAKE p \in PlacesIn(files)
  <2>1. PICK t \in DOMAIN files : \E k \in Readable(files[t].body) : p = <<t, k>>
    BY PlaceMember
  <2>2. PICK k \in Readable(files[t].body) : p = <<t, k>>
    BY <2>1
  <2>3. CASE t = currentSegment
    <3>1. k \in 1 .. offset /\ k < n
      BY <1>1, <1>3, <1>7, <2>3
    <3>2. ItemIn(files', p) = ItemIn(files, p)
      BY <1>2, <1>3, <1>10, <2>2, <2>3, <3>1 DEF ItemIn
    <3>3. p[1] = currentSegment /\ p[2] = k /\ new[1] = currentSegment /\ new[2] = n
      BY <2>2, <2>3
    <3>4. currentSegment \in Nat /\ k \in Nat
      BY <1>1, <1>2, <3>1
    <3> HIDE DEF new
    <3> QED
      BY <1>1, <3>1, <3>2, <3>3, <3>4 DEF Precedes
  <2>4. CASE t # currentSegment
    <3>1. t < currentSegment /\ t \in Nat /\ currentSegment \in Nat
      BY <1>1, <1>2, <2>4
    <3>2. ItemIn(files', p) = ItemIn(files, p)
      BY <1>1, <2>2, <2>4 DEF ItemIn
    <3>3. p[1] = t /\ new[1] = currentSegment
      BY <2>2
    <3> HIDE DEF new
    <3> QED
      BY <3>1, <3>2, <3>3 DEF Precedes
  <2> QED
    BY <2>3, <2>4
<1>16. ~Precedes(new, new)
  <2>1. currentSegment \in Nat /\ new[1] = currentSegment /\ new[2] = n
    BY <1>1, <1>2
  <2> HIDE DEF new
  <2> QED
    BY <1>1, <2>1 DEF Precedes
<1> HIDE DEF new, n
<1>17. /\ ItemsIn(files') = ItemsIn(files) \cup {item}
       /\ OrderIn(files') = OrderIn(files) \cup (ItemsIn(files) \X {item})
  BY <1>13, <1>14, <1>15, <1>16, LogGrown
<1> QED
  BY <1>1, <1>2, <1>17 DEF LogAppended, stored

\* Every other step leaves the log as it is, unless power is cut.
LEMMA OthersLog ==
    ASSUME WritesWork, ~PowerCuts, IInv, HonestOK,
           UNCHANGED vars \/ Next, ~ WriteData
    PROVE  LogSame
<1>1. /\ files \in [DOMAIN files -> SegmentFiles]
      /\ currentSegment # None => currentSegment \in DOMAIN files
      /\ currentItemCount \in Nat /\ hasher \in Seq(Items)
  BY DEF IInv, TypeOK
<1>2. ASSUME UNCHANGED files PROVE LogSame
  BY <1>2 DEF LogSame, stored
<1>3. CASE \/ UNCHANGED vars \/ Tick \/ Start \/ Stop
           \/ (\E i \in Items : StoreItem(i)) \/ Return \/ Close \/ Crash
  BY <1>2, <1>3 DEF vars, Tick, Start, Stop, StoreItem, Return, Close, Crash
<1>4. CASE WriteSize
  BY <1>4, WriteSizeLog
<1>5. CASE Finalize
  <2>1. currentSegment \in DOMAIN files
    BY <1>1, <1>5 DEF Finalize, SeekHeader, WriteCount, WriteHash, Sync, Finalizing,
       IInv, CallOK
  <2>2. UNCHANGED files \/ TearHeader \/ SealHeader
    BY <1>5, FinalizeSteps
  <2>3. Sealed(currentItemCount, hasher) \in Headers /\ Blank("torn") \in Headers
    BY <1>1, HeaderTypes
  <2> QED
    BY <1>1, <1>2, <2>1, <2>2, <2>3, HeaderLog DEF TearHeader, SealHeader
<1>6. CASE Create
  <2>1. ASSUME CreateOk PROVE LogSame
    <3>1. /\ DOMAIN files' = DOMAIN files \cup {now} /\ now \notin DOMAIN files
          /\ \A t \in DOMAIN files : files'[t] = files[t]
          /\ files'[now].body = <<>>
      BY <2>1, FaultsLeft DEF CreateOk, EmptyFile
    <3>2. /\ \A t \in DOMAIN files' \ DOMAIN files : Readable(files'[t].body) = {}
          /\ DOMAIN files \subseteq DOMAIN files'
      BY <3>1, ReadableFrames
    <3> QED
      BY <3>1, <3>2, BodiesKept DEF LogSame, stored
  <2> QED
    BY <1>2, <1>6, <2>1 DEF Create, CreateFail
<1>7. CASE Placeholder
  <2>1. fresh \in DOMAIN files
    BY <1>7 DEF Placeholder, IInv, TypeOK, CallOK
  <2>2. \/ UNCHANGED files
        \/ \E kind \in {"placeholder", "torn"} :
              files' = [files EXCEPT ![fresh].header = Blank(kind)]
    BY <1>7 DEF Placeholder, PlaceholderOk, PlaceholderFail
  <2>3. \A kind \in {"placeholder", "torn"} : Blank(kind) \in Headers
    BY HeaderTypes
  <2> QED
    BY <1>1, <1>2, <2>1, <2>2, <2>3, HeaderLog
<1> QED
  BY <1>3, <1>4, <1>5, <1>6, <1>7 DEF Next

\* What is written to stays the end of the log.
LEMMA StepAtEnd ==
    ASSUME WritesWork, ~PowerCuts, IInv, HonestOK, LogInv, [Next]_vars
    PROVE  AtEnd'
<1>1. /\ files \in [DOMAIN files -> SegmentFiles]
      /\ currentSegment # None => currentSegment \in DOMAIN files
      /\ AtEnd
  BY DEF IInv, TypeOK, LogInv
<1>2. CASE \/ UNCHANGED vars \/ Tick \/ Start \/ Stop
           \/ (\E i \in Items : StoreItem(i)) \/ Return \/ Close \/ Crash
  <2>1. UNCHANGED files
    BY <1>2 DEF vars, Tick, Start, Stop, StoreItem, Return, Close, Crash
  <2>2. \/ UNCHANGED <<currentSegment, isOpen>>
        \/ isOpen' = FALSE
    BY <1>2 DEF vars, memory, Tick, Start, Stop, StoreItem, Return, Close, Crash
  <2>3. pc' # "placeholder" \/ UNCHANGED <<pc, fresh>>
    BY <1>2 DEF vars, call, Tick, Start, Stop, StoreItem, Return, Close, Crash, Fail
  <2> QED
    BY <1>1, <2>1, <2>2, <2>3 DEF AtEnd
<1>3. CASE WriteSize \/ WriteData \/ Finalize
  <2>1. DOMAIN files' = DOMAIN files
    <3>1. CASE WriteSize
      BY <3>1, WriteSizeLog
    <3>2. CASE WriteData
      BY <3>2, WriteDataLog
    <3>3. CASE Finalize
      BY <3>3, FinalizeSteps DEF TearHeader, SealHeader
    <3> QED
      BY <1>3, <3>1, <3>2, <3>3
  <2>2. UNCHANGED <<currentSegment, isOpen>> /\ pc' # "placeholder"
    BY <1>3, FinalizeSteps DEF WriteSize, WriteSizeOk, WriteSizeFail, WriteData,
       WriteDataOk, WriteDataFail, Finalize, Fail
  <2> QED
    BY <1>1, <2>1, <2>2 DEF AtEnd
<1>4. CASE Create
  <2>1. (currentSegment = None \/ ~isOpen) /\ UNCHANGED <<currentSegment, isOpen>>
    BY <1>4 DEF Create, memory, HonestOK
  <2>2. CASE CreateOk
    <3>1. DOMAIN files' = DOMAIN files \cup {now} /\ fresh' = now
      BY <2>2 DEF CreateOk
    <3>2. \A t \in DOMAIN files' : t <= now
      BY <3>1 DEF IInv, TypeOK, Times
    <3> QED
      BY <2>1, <3>1, <3>2 DEF AtEnd
  <2>3. CASE CreateFail
    BY <2>1, <2>3 DEF CreateFail, Fail, AtEnd
  <2> QED
    BY <1>4, <2>2, <2>3 DEF Create
<1>5. CASE Placeholder
  <2>1. DOMAIN files' = DOMAIN files
    BY <1>5 DEF Placeholder, PlaceholderOk, PlaceholderFail
  <2>2. CASE PlaceholderOk
    <3>1. currentSegment' = fresh /\ pc = "placeholder" /\ fresh' = fresh
      BY <1>5, <2>2 DEF Placeholder, PlaceholderOk, call
    <3>2. pc' # "placeholder"
      BY <1>5, <2>2 DEF Placeholder, PlaceholderOk, IInv, CallOK
    <3> QED
      BY <1>1, <2>1, <3>1, <3>2 DEF AtEnd
  <2>3. CASE PlaceholderFail
    BY <1>1, <2>1, <2>3 DEF PlaceholderFail, Fail, AtEnd, memory
  <2> QED
    BY <1>5, <2>2, <2>3 DEF Placeholder
<1> QED
  BY <1>2, <1>3, <1>4, <1>5 DEF Next

\* The item of a call in progress is in the log exactly from its data on.
LEMMA StepItemStored ==
    ASSUME WritesWork, ~PowerCuts, IInv, HonestOK, LogInv, [Next]_vars
    PROVE  ItemStored'
<1>1. ItemStored /\ CallOK
  BY DEF LogInv, IInv
<1>2. CASE WriteData
  <2>1. stored' = stored \cup {item} /\ UNCHANGED <<acked, submitted, item>>
    BY <1>2, WriteDataLog DEF LogAppended, WriteData, history
  <2>2. pc' \in {"finalize", "return"} /\ item \in submitted
    BY <1>1, <1>2, FrameFilled DEF WriteData, CallOK
  <2> QED
    BY <1>1, <2>1, <2>2 DEF ItemStored
<1>3. CASE ~ WriteData
  <2>1. stored' = stored
    BY <1>3, OthersLog DEF LogSame
  <2>2. CASE UNCHANGED vars \/ Tick
    BY <1>1, <2>1, <2>2 DEF vars, call, history, Tick, ItemStored
  <2>3. CASE Start \/ Stop
    BY <1>1, <2>1, <2>3 DEF Start, Stop, call, history, ItemStored
  <2>4. ASSUME NEW i \in Items, StoreItem(i) PROVE ItemStored'
    BY <1>1, <2>1, <2>4 DEF StoreItem, ItemStored
  <2>5. CASE WriteSize
    <3>1. pc = "size" /\ pc' \in {"data", "idle"} /\ UNCHANGED <<acked, submitted, item>>
      BY <2>5 DEF WriteSize, WriteSizeOk, WriteSizeFail, Fail, call, history
    <3> QED
      BY <1>1, <2>1, <3>1 DEF ItemStored, Finalizing
  <2>6. CASE Return
    BY <1>1, <2>1, <2>6 DEF Return, call, ItemStored, Finalizing
  <2>7. CASE Finalize
    <3>1. /\ pc \in Finalizing /\ pc' \in {"idle", "count", "hash", "sync", "close"}
          /\ UNCHANGED <<acked, submitted, item, caller>>
      BY <2>7, FinalizeSteps DEF Finalize, Finalizing, call
    <3> QED
      BY <1>1, <2>1, <3>1 DEF ItemStored, CallOK, Finalizing
  <2>8. CASE Close
    <3>1. /\ pc = "close" /\ UNCHANGED <<acked, submitted, item, caller>>
          /\ pc' = "idle" \/ (pc' = "create" /\ caller # "stop")
      BY <2>8 DEF Close, Fail, call, history
    <3> QED
      BY <1>1, <2>1, <3>1 DEF ItemStored, CallOK
  <2>9. CASE Create
    <3>1. /\ pc = "create" /\ pc' \in {"placeholder", "idle"}
          /\ UNCHANGED <<acked, submitted, item, caller>>
      BY <2>9 DEF Create, CreateOk, CreateFail, Fail, history
    <3> QED
      BY <1>1, <2>1, <3>1 DEF ItemStored
  <2>10. CASE Placeholder
    <3>1. /\ pc = "placeholder" /\ UNCHANGED <<acked, submitted, item, caller>>
          /\ \/ pc' = "idle"
             \/ caller = "ensure" /\ pc' = "size"
             \/ caller = "rotate" /\ pc' = "return"
      BY <1>1, <2>10 DEF Placeholder, PlaceholderOk, PlaceholderFail, Fail,
         CallOK, call, history
    <3> QED
      BY <1>1, <2>1, <3>1 DEF ItemStored
  <2>11. CASE Crash
    BY <1>1, <2>1, <2>11 DEF Crash, ItemStored
  <2> QED
    BY <1>3, <2>2, <2>3, <2>4, <2>5, <2>6, <2>7, <2>8, <2>9, <2>10, <2>11 DEF Next
<1> QED
  BY <1>2, <1>3

\* The invariant the log rests on.
LEMMA LogInvariant == WritesWork /\ ~PowerCuts => (Spec => []LogInv)
<1> SUFFICES ASSUME WritesWork, ~PowerCuts PROVE Spec => []LogInv
  OBVIOUS
<1>1. Init => LogInv
  BY DEF Init, LogInv, AtEnd, ItemStored, stored, ItemsIn, PlacesIn
<1>2. IInv /\ HonestOK /\ LogInv /\ [Next]_vars => LogInv'
  BY StepAtEnd, StepItemStored DEF LogInv
<1>3. Spec => []HonestOK
  BY HonestInvariant
<1> QED
  BY <1>1, <1>2, <1>3, Invariant, PTL DEF Spec

\* The state of the log, as DLQStorage maps it.
LEMMA LogState ==
    /\ {ItemAt(p) : p \in Places} = stored
    /\ {<<ItemAt(r[1]), ItemAt(r[2])>> :
          r \in {s \in Places \X Places : Precedes(s[1], s[2])}} = OrderIn(files)
    /\ {ItemAt(p) : p \in Places}' = stored'
    /\ {<<ItemAt(r[1]), ItemAt(r[2])>> :
          r \in {s \in Places \X Places : Precedes(s[1], s[2])}}' = OrderIn(files)'
BY DEF Places, ItemAt, PlacesIn, ItemIn, ItemsIn, OrderIn, stored

-----------------------------------------------------------------------------
\* Every item whose StoreItem returned nil can be read back from the files
\* (README.md:65, "Persist data through outages"; lines 170-211), whatever
\* rotation fails in and whenever the process dies, as long as the writes of
\* an item and of a header work, names do not repeat and no power is cut.
THEOREM AcknowledgedIsReadable ==
    WritesWork /\ ~PowerCuts => (Spec => []AckedReadable)
<1>1. LogInv => AckedReadable
  BY LogState DEF LogInv, ItemStored, AckedReadable
<1> QED
  BY <1>1, LogInvariant, PTL

\* Under the same conditions the directory is an append-only log: an item goes
\* to its end with the write of its data (lines 193-195), once, and StoreItem
\* acknowledges it afterwards; rotation, Stop and a crash change nothing in it.
THEOREM LogImplemented == WritesWork /\ ~PowerCuts => (Spec => ImplementsLog)
<1> SUFFICES ASSUME WritesWork, ~PowerCuts PROVE Spec => ImplementsLog
  OBVIOUS
<1>1. Init => Log!Init
  BY DEF Init, Log!Init, Places
<1>2. ASSUME IInv, HonestOK, LogInv, [Next]_vars
      PROVE  [Log!Next]_<<{ItemAt(p) : p \in Places},
                          {<<ItemAt(r[1]), ItemAt(r[2])>> :
                             r \in {s \in Places \X Places : Precedes(s[1], s[2])}},
                          acked>>
  <2>1. CASE WriteData
    <3>1. LogAppended /\ acked' = acked
      BY <1>2, <2>1, WriteDataLog DEF WriteData, history
    <3>2. Log!Append(item)
      BY <3>1, LogState DEF Log!Append, LogAppended
    <3>3. item \in {ItemAt(p) : p \in Places}'
      BY <3>1, LogState DEF LogAppended
    <3> QED
      BY <3>2, <3>3 DEF Log!Next
  <2>2. CASE Return
    <3>1. LogSame /\ acked' = acked \cup {item} /\ item \in stored
      BY <1>2, <2>2, OthersLog DEF Return, WriteData, LogInv, ItemStored
    <3>2. Log!Acknowledge(item)
      BY <3>1, LogState DEF Log!Acknowledge, LogSame
    <3>3. item \in {ItemAt(p) : p \in Places}
      BY <3>1, LogState
    <3> QED
      BY <3>2, <3>3 DEF Log!Next
  <2>3. CASE ~ WriteData /\ ~ Return
    <3>1. LogSame
      BY <1>2, <2>3, OthersLog
    <3>2. acked' = acked
      BY <1>2, <2>3 DEF Next, vars, history, Tick, Start, Stop, StoreItem, WriteSize,
         Finalize, Close, Create, Placeholder, Crash
    <3> QED
      BY <3>1, <3>2, LogState DEF LogSame
  <2> QED
    BY <2>1, <2>2, <2>3
<1>3. Spec => []HonestOK
  BY HonestInvariant
<1>4. Spec => []LogInv
  BY LogInvariant
<1> QED
  BY <1>1, <1>2, <1>3, <1>4, Invariant, PTL DEF Spec, ImplementsLog, Log!Spec

-----------------------------------------------------------------------------
(* The bytes of a segment.                                                 *)

\* What BytesOf(b) is to satisfy, up to its n-th frame.
Sums(g, b, n) ==
    g = [k \in 0 .. n |-> IF k = 0 THEN headerSize ELSE g[k - 1] + FrameBytes[b[k].item]]

\* The function that BytesOf chooses exists: of the numbers of frames without
\* one there would be a least, and one more frame is one more addition.
LEMMA BytesExist == ASSUME NEW b, NEW n \in Nat PROVE \E g : Sums(g, b, n)
<1> DEFINE S == {m \in Nat : ~ \E g : Sums(g, b, m)}
<1> SUFFICES ASSUME S # {} PROVE FALSE
  OBVIOUS
<1>1. PICK m \in S : \A k \in S : m <= k
  <2> HIDE DEF S
  <2>1. S \in SUBSET Nat
    BY DEF S
  <2> QED
    BY <2>1, LeastNatural
<1>2. m \in Nat /\ ~ \E g : Sums(g, b, m)
  OBVIOUS
<1>3. CASE m = 0
  <2> DEFINE g == [k \in 0 .. 0 |-> headerSize]
  <2>1. Sums(g, b, 0)
    BY DEF Sums
  <2> QED
    BY <1>2, <1>3, <2>1
<1>4. CASE m # 0
  <2>1. m - 1 \in Nat /\ ~ (m <= m - 1)
    BY <1>2, <1>4
  <2>2. PICK g : Sums(g, b, m - 1)
    BY <1>1, <2>1
  <2> DEFINE h == [k \in 0 .. m |-> IF k = m THEN g[m - 1] + FrameBytes[b[m].item] ELSE g[k]]
  <2>3. \A k \in 0 .. m : h[k] = IF k = m THEN g[m - 1] + FrameBytes[b[m].item] ELSE g[k]
    OBVIOUS
  <2>4. \A k \in 0 .. m - 1 : g[k] = IF k = 0 THEN headerSize ELSE g[k - 1] + FrameBytes[b[k].item]
    BY <2>2 DEF Sums
  <2>5. \A k \in 0 .. m : h[k] = IF k = 0 THEN headerSize ELSE h[k - 1] + FrameBytes[b[k].item]
    <3> TAKE k \in 0 .. m
    <3>1. CASE k = m
      <4>1. k # 0 /\ k - 1 = m - 1 /\ m - 1 \in 0 .. m /\ m - 1 # m
        BY <1>2, <1>4, <3>1
      <4>2. h[k - 1] = g[m - 1]
        BY <2>3, <4>1
      <4> QED
        BY <2>3, <3>1, <4>1, <4>2
    <3>2. CASE k # m /\ k # 0
      <4>1. k \in 0 .. m - 1 /\ k - 1 \in 0 .. m /\ k - 1 # m
        BY <1>2, <3>2
      <4>2. h[k] = g[k] /\ h[k - 1] = g[k - 1]
        BY <2>3, <3>2, <4>1
      <4> QED
        BY <2>4, <3>2, <4>1, <4>2
    <3>3. CASE k # m /\ k = 0
      <4>1. 0 \in 0 .. m - 1
        BY <1>2, <1>4
      <4>2. g[0] = headerSize /\ h[0] = g[0]
        BY <2>3, <2>4, <3>3, <4>1
      <4> QED
        BY <3>3, <4>2
    <3> QED
      BY <3>1, <3>2, <3>3
  <2>6. h = [k \in 0 .. m |-> h[k]]
    OBVIOUS
  <2> HIDE DEF h
  <2>7. Sums(h, b, m)
    BY <2>5, <2>6 DEF Sums
  <2> QED
    BY <1>2, <2>7
<1> QED
  BY <1>3, <1>4

\* The header first, then the frames one by one.
LEMMA BytesSum ==
    ASSUME NEW b, Len(b) \in Nat
    PROVE  /\ BytesOf(b)[0] = headerSize
           /\ \A k \in 1 .. Len(b) :
                 BytesOf(b)[k] = BytesOf(b)[k - 1] + FrameBytes[b[k].item]
<1>1. BytesOf(b) = CHOOSE g : Sums(g, b, Len(b))
  BY DEF BytesOf, Sums
<1>2. Sums(BytesOf(b), b, Len(b))
  BY <1>1, BytesExist
<1> QED
  BY <1>2 DEF Sums

\* It is a number and never falls.
LEMMA BytesType ==
    ASSUME NEW b \in Seq(Frames)
    PROVE  \A n \in 0 .. Len(b) :
              BytesOf(b)[n] \in Nat /\ \A m \in 0 .. n : BytesOf(b)[m] <= BytesOf(b)[n]
<1> DEFINE B == BytesOf(b)
           Good(n) == B[n] \in Nat /\ \A m \in 0 .. n : B[m] <= B[n]
           S == {n \in 0 .. Len(b) : ~ Good(n)}
<1> SUFFICES ASSUME S # {} PROVE FALSE
  OBVIOUS
<1>1. Len(b) \in Nat /\ \A k \in 1 .. Len(b) : FrameBytes[b[k].item] \in Nat
  <2>1. Len(b) \in Nat /\ \A k \in 1 .. Len(b) : b[k] \in Frames
    BY LenProperties
  <2>2. \A f \in Frames : f.item \in Items
    BY DEF Frames
  <2>3. \A i \in Items : FrameBytes[i] \in Nat
    BY DLQAssumption DEF DLQAssumption
  <2> QED
    BY <2>1, <2>2, <2>3
<1>2. B[0] = headerSize /\ \A k \in 1 .. Len(b) : B[k] = B[k - 1] + FrameBytes[b[k].item]
  BY <1>1, BytesSum
<1> HIDE DEF B
<1>3. PICK n \in S : \A k \in S : n <= k
  <2>1. S \in SUBSET Nat
    BY <1>1
  <2> HIDE DEF S
  <2> QED
    BY <2>1, LeastNatural
<1>4. n \in 0 .. Len(b) /\ ~ Good(n)
  OBVIOUS
<1>5. CASE n = 0
  BY <1>2, <1>4, <1>5 DEF headerSize
<1>6. CASE n # 0
  <2>1. n - 1 \in 0 .. Len(b) /\ ~ (n <= n - 1) /\ n \in 1 .. Len(b)
    BY <1>1, <1>4, <1>6
  <2>2. Good(n - 1)
    BY <1>3, <2>1
  <2>3. B[n] = B[n - 1] + FrameBytes[b[n].item] /\ FrameBytes[b[n].item] \in Nat
    BY <1>1, <1>2, <2>1
  <2>4. B[n] \in Nat /\ B[n - 1] <= B[n]
    BY <2>2, <2>3
  <2>5. ASSUME NEW m \in 0 .. n PROVE B[m] <= B[n]
    <3>1. CASE m = n
      BY <2>4, <3>1
    <3>2. CASE m # n
      <4>1. m \in 0 .. n - 1 /\ m \in 0 .. Len(b) /\ ~ (n <= m)
        BY <2>1, <3>2
      <4>2. B[m] \in Nat /\ B[m] <= B[n - 1]
        BY <1>3, <2>2, <4>1
      <4> QED
        BY <2>2, <2>4, <4>2
    <3> QED
      BY <3>1, <3>2
  <2> QED
    BY <1>4, <2>4, <2>5
<1> QED
  BY <1>5, <1>6

\* Bodies that hold the same items up to a frame have the same bytes there.
LEMMA BytesAgree ==
    ASSUME NEW b, NEW c, Len(b) \in Nat, Len(c) \in Nat,
           NEW n \in Nat, n <= Len(b), n <= Len(c),
           \A k \in 1 .. n : b[k].item = c[k].item
    PROVE  BytesOf(b)[n] = BytesOf(c)[n]
<1> DEFINE S == {m \in 0 .. n : BytesOf(b)[m] # BytesOf(c)[m]}
<1> SUFFICES ASSUME S # {} PROVE FALSE
  OBVIOUS
<1>1. PICK m \in S : \A k \in S : m <= k
  <2>1. S \in SUBSET Nat
    OBVIOUS
  <2> HIDE DEF S
  <2> QED
    BY <2>1, LeastNatural
<1>2. m \in 0 .. n /\ BytesOf(b)[m] # BytesOf(c)[m]
  OBVIOUS
<1>3. m # 0
  BY <1>2, BytesSum
<1>4. m - 1 \in 0 .. n /\ ~ (m <= m - 1) /\ m \in 1 .. n
  BY <1>2, <1>3
<1>5. BytesOf(b)[m - 1] = BytesOf(c)[m - 1]
  BY <1>1, <1>4
<1>6. m \in 1 .. Len(b) /\ m \in 1 .. Len(c)
  BY <1>4
<1>7. /\ BytesOf(b)[m] = BytesOf(b)[m - 1] + FrameBytes[b[m].item]
      /\ BytesOf(c)[m] = BytesOf(c)[m - 1] + FrameBytes[c[m].item]
  BY <1>6, BytesSum
<1> QED
  BY <1>2, <1>4, <1>5, <1>7

-----------------------------------------------------------------------------
(* The limit of a segment.                                                 *)

\* The body of a file below the limit before its last frame.
Below(b) == b # <<>> => BytesOf(b)[Len(b) - 1] < MaxSegment

\* currentSize is the size of the segment, and a segment that has reached the
\* limit is on its way to being closed.
SizeOK ==
    /\ \A t \in DOMAIN files : Below(files[t].body)
    /\ currentSegment # None /\ isOpen =>
          /\ pc \in {"idle", "size", "return"} =>
                currentSize = BytesOf(body)[Len(body)] /\ currentSize < MaxSegment
          /\ pc = "data" =>
                currentSize = BytesOf(body)[Len(body) - 1] /\ currentSize < MaxSegment

\* Beyond what a true header needs, rotation finds the end of the header.
RotationSeeks == WritesWork /\ "seek" \notin IOFaults

\* The first frames of a body below the limit are below it.
LEMMA BelowPrefix ==
    ASSUME NEW b \in Seq(Frames), Below(b), NEW n \in Nat, n < Len(b)
    PROVE  Below(SubSeq(b, 1, n))
<1> DEFINE c == SubSeq(b, 1, n)
<1>1. Len(b) \in Nat
  BY LenProperties
<1>2. c \in Seq(Frames) /\ Len(c) = n /\ \A k \in 1 .. n : c[k] = b[k]
  <2>1. \A k \in 1 .. n : b[k] \in Frames
    BY <1>1, LenProperties
  <2> QED
    BY <1>1, <2>1, SubSeqProperties
<1> HIDE DEF c
<1> SUFFICES Below(c)
  BY DEF c
<1>3. CASE n = 0
  BY <1>2, <1>3, EmptySeq DEF Below
<1>4. CASE n # 0
  <2>1. n - 1 \in Nat /\ n - 1 \in 0 .. (Len(b) - 1) /\ Len(b) - 1 \in 0 .. Len(b)
        /\ \A k \in 1 .. n - 1 : k \in 1 .. n
    BY <1>1, <1>4
  <2>2. BytesOf(c)[n - 1] = BytesOf(b)[n - 1]
    <3>1. \A k \in 1 .. n - 1 : c[k].item = b[k].item
      BY <1>2, <2>1
    <3>2. n - 1 <= Len(b) /\ n - 1 <= Len(c) /\ Len(c) \in Nat
      BY <1>1, <1>2
    <3> QED
      BY <1>1, <2>1, <3>1, <3>2, BytesAgree
  <2>3. BytesOf(b)[n - 1] <= BytesOf(b)[Len(b) - 1] /\ BytesOf(b)[Len(b) - 1] \in Nat
        /\ BytesOf(b)[n - 1] \in Nat
    BY <1>1, <2>1, BytesType
  <2>4. BytesOf(b)[Len(b) - 1] < MaxSegment /\ MaxSegment \in Nat
    BY <1>1, EmptySeq, DLQAssumption DEF Below, DLQAssumption
  <2> QED
    BY <1>2, <2>2, <2>3, <2>4 DEF Below
<1> QED
  BY <1>3, <1>4

\* The memory and the files stay, or nobody is left to write.
LEMMA CallsSize ==
    ASSUME IInv, SizeOK,
           \/ UNCHANGED vars \/ Tick \/ Start \/ Stop
           \/ (\E i \in Items : StoreItem(i)) \/ Return \/ Close
    PROVE  SizeOK'
<1>1. UNCHANGED files
  BY DEF vars, Tick, Start, Stop, StoreItem, Return, Close
<1>2. CASE Close
  BY <1>1, <1>2 DEF Close, SizeOK
<1>3. CASE ~ Close
  <2>1. UNCHANGED <<currentSegment, isOpen, currentSize, body>>
    BY <1>1, <1>3 DEF vars, memory, body, Tick, Start, Stop, StoreItem, Return
  <2>2. \/ pc' = pc
        \/ pc \in {"idle", "return"} /\ pc' \in {"idle", "size", "finalize"}
        \/ pc' = "create"
    BY <1>3 DEF vars, Tick, Start, Stop, StoreItem, Return
  <2> QED
    BY <1>1, <2>1, <2>2 DEF SizeOK
<1> QED
  BY <1>2, <1>3

\* The size of a frame goes behind a body below the limit.
LEMMA WriteSizeSize ==
    ASSUME RotationSeeks, IInv, HonestOK, SizeOK, WriteSize PROVE SizeOK'
<1>1. UNCHANGED <<currentSegment, isOpen, currentSize>> /\ pc = "size"
      /\ currentSegment # None
  BY DEF WriteSize, IInv, CallOK
<1>2. CASE ~isOpen
  <2>1. UNCHANGED files
    BY <1>2 DEF WriteSize, WriteSizeOk, WriteSizeFail
  <2> QED
    BY <1>1, <1>2, <2>1 DEF SizeOK
<1>3. CASE isOpen
  <2> DEFINE c == body'
  <2>1. /\ currentSegment \in DOMAIN files /\ body \in Seq(Frames) /\ Len(body) \in Nat
        /\ DOMAIN files' = DOMAIN files
        /\ \A u \in DOMAIN files \ {currentSegment} : files'[u] = files[u]
        /\ Len(c) = Len(body) + 1
        /\ \A k \in 1 .. Len(body) : c[k] = body[k]
        /\ pc' = "data"
    BY <1>3, FrameOpened DEF RotationSeeks
  <2>2. body' = c /\ files'[currentSegment].body = c
    BY <1>1 DEF body
  <2> HIDE DEF c
  <2>3. BytesOf(c)[Len(c) - 1] = BytesOf(body)[Len(body)]
    <3>1. Len(c) - 1 = Len(body) /\ Len(c) \in Nat /\ Len(body) <= Len(c)
      BY <2>1
    <3> QED
      BY <2>1, <3>1, BytesAgree
  <2>4. currentSize = BytesOf(body)[Len(body)] /\ currentSize < MaxSegment
    BY <1>1, <1>3 DEF SizeOK
  <2>5. Below(c)
    BY <2>3, <2>4 DEF Below
  <2>6. \A t \in DOMAIN files' : Below(files'[t].body)
    BY <2>1, <2>2, <2>5 DEF SizeOK
  <2> QED
    BY <1>1, <2>1, <2>2, <2>3, <2>4, <2>6 DEF SizeOK
<1> QED
  BY <1>2, <1>3

\* The size of the segment is that of its frames once the data is there.
LEMMA WriteDataSize ==
    ASSUME RotationSeeks, IInv, HonestOK, SizeOK, WriteData PROVE SizeOK'
<1> DEFINE c == body'
           n == Len(body)
<1>1. /\ currentSegment \in DOMAIN files /\ body \in Seq(Frames) /\ n \in Nat
      /\ DOMAIN files' = DOMAIN files
      /\ \A u \in DOMAIN files \ {currentSegment} : files'[u] = files[u]
      /\ Len(c) = n /\ c \in Seq(Frames)
      /\ \A k \in 1 .. n : c[k] = IF k = n THEN Frame(item, TRUE) ELSE body[k]
      /\ offset = n - 1 /\ offset >= 0
      /\ pc' \in {"finalize", "return"}
  BY FrameFilled DEF RotationSeeks
<1>2. /\ UNCHANGED <<currentSegment, isOpen>> /\ pc = "data" /\ isOpen
      /\ currentSegment # None /\ item \in Items
  BY DEF WriteData, HonestOK, IInv, CallOK, TypeOK
<1>3. body' = c /\ files'[currentSegment].body = c
  BY <1>2 DEF body
<1> HIDE DEF c
<1>4. /\ currentSize' = currentSize + FrameBytes[item]
      /\ pc' = "return" => ~ (currentSize' >= MaxSegment)
  BY FaultsLeft DEF WriteData, WriteDataOk, WriteDataFail, RotationSeeks
<1>5. currentSize = BytesOf(body)[n - 1] /\ currentSize < MaxSegment
  BY <1>2 DEF SizeOK
<1>6. BytesOf(c)[n - 1] = BytesOf(body)[n - 1]
  <2>1. \A k \in 1 .. n - 1 : k \in 1 .. n /\ k # n
    BY <1>1
  <2>2. n - 1 \in Nat /\ n - 1 <= n
    BY <1>1
  <2> HIDE DEF n
  <2>3. \A k \in 1 .. n - 1 : c[k].item = body[k].item
    BY <1>1, <2>1
  <2>4. Len(body) \in Nat /\ Len(c) \in Nat /\ n - 1 <= Len(c) /\ n - 1 <= Len(body)
    BY <1>1, <2>2 DEF n
  <2> QED
    BY <2>2, <2>3, <2>4, BytesAgree
<1>7. BytesOf(c)[n] = currentSize'
  <2>1. n \in 1 .. Len(c) /\ Len(c) \in Nat
    BY <1>1
  <2>2. BytesOf(c)[n] = BytesOf(c)[n - 1] + FrameBytes[c[n].item]
    BY <2>1, BytesSum
  <2>3. c[n].item = item
    BY <1>1, <2>1 DEF Frame
  <2> QED
    BY <1>4, <1>5, <1>6, <2>2, <2>3
<1>8. Below(c)
  BY <1>1, <1>5, <1>6 DEF Below
<1>9. \A t \in DOMAIN files' : Below(files'[t].body)
  BY <1>1, <1>3, <1>8 DEF SizeOK
<1>10. pc' = "return" => currentSize' < MaxSegment
  <2>1. currentSize' \in Nat /\ MaxSegment \in Nat
    BY DLQAssumption, WriteDataIInv DEF DLQAssumption, IInv, TypeOK
  <2> QED
    BY <1>4, <2>1
<1> QED
  BY <1>1, <1>2, <1>3, <1>7, <1>9, <1>10 DEF SizeOK

\* Sealing writes no frame, and the segment is closed next.
LEMMA FinalizeSize ==
    ASSUME RotationSeeks, IInv, HonestOK, SizeOK, Finalize PROVE SizeOK'
<1>1. /\ currentSegment \in DOMAIN files /\ UNCHANGED <<currentSegment, isOpen>>
      /\ files \in [DOMAIN files -> SegmentFiles]
      /\ Sealed(currentItemCount, hasher) \in Headers /\ Blank("torn") \in Headers
  BY HeaderTypes DEF Finalize, SeekHeader, WriteCount, WriteHash, Sync, Finalizing,
     IInv, CallOK, TypeOK
<1>2. TearHeader \/ SealHeader \/ UNCHANGED files
  BY FinalizeSteps DEF RotationSeeks
<1>3. \A t \in DOMAIN files' : t \in DOMAIN files /\ files'[t].body = files[t].body
  <2>1. CASE TearHeader \/ SealHeader
    BY <1>1, <2>1, HeaderWritten DEF TearHeader, SealHeader
  <2> QED
    BY <1>2, <2>1
<1>4. isOpen => pc' \in {"count", "hash", "sync", "close"}
  BY FaultsLeft DEF Finalize, SeekHeader, WriteCount, WriteHash, Sync, RotationSeeks, May
<1>5. pc' \in {"idle", "count", "hash", "sync", "close"}
  BY FinalizeSteps DEF RotationSeeks
<1> QED
  BY <1>1, <1>3, <1>4, <1>5 DEF SizeOK

\* A new file is empty, and nobody writes while it is made.
LEMMA CreateSize ==
    ASSUME RotationSeeks, IInv, HonestOK, SizeOK, Create PROVE SizeOK'
<1>1. (currentSegment = None \/ ~isOpen) /\ UNCHANGED <<currentSegment, isOpen>>
  BY DEF Create, memory, HonestOK
<1>2. Below(EmptyFile.body)
  BY DEF Below, EmptyFile
<1>3. \A t \in DOMAIN files' : Below(files'[t].body)
  BY <1>2 DEF Create, CreateOk, CreateFail, SizeOK
<1> QED
  BY <1>1, <1>3 DEF SizeOK

\* The adopted segment is a header.
LEMMA PlaceholderSize ==
    ASSUME RotationSeeks, IInv, HonestOK, SizeOK, Placeholder PROVE SizeOK'
<1>1. /\ fresh \in DOMAIN files /\ files \in [DOMAIN files -> SegmentFiles]
      /\ files[fresh].body = <<>>
      /\ currentSegment = None \/ ~isOpen
  BY DEF Placeholder, HonestOK, IInv, TypeOK, CallOK
<1>2. ASSUME NEW kind \in {"placeholder", "torn"},
             files' = [files EXCEPT ![fresh].header = Blank(kind)]
      PROVE  DOMAIN files' = DOMAIN files
             /\ \A t \in DOMAIN files : files'[t].body = files[t].body
  <2>1. Blank(kind) \in Headers
    BY HeaderTypes
  <2> QED
    BY <1>1, <1>2, <2>1, HeaderWritten
<1>3. CASE PlaceholderOk
  <2>1. DOMAIN files' = DOMAIN files /\ \A t \in DOMAIN files : files'[t].body = files[t].body
    BY <1>2, <1>3 DEF PlaceholderOk
  <2>2. currentSegment' = fresh /\ currentSize' = headerSize
    BY <1>3 DEF PlaceholderOk
  <2>3. body' = <<>> /\ Len(<<>>) = 0
    BY <1>1, <2>1, <2>2, EmptySeq DEF body
  <2>4. BytesOf(<<>>)[0] = headerSize
    BY EmptySeq, BytesSum
  <2>5. headerSize < MaxSegment
    BY DLQAssumption DEF DLQAssumption, headerSize
  <2>6. pc' # "data"
    BY <1>3 DEF Placeholder, PlaceholderOk, IInv, CallOK
  <2> QED
    BY <2>1, <2>2, <2>3, <2>4, <2>5, <2>6 DEF SizeOK
<1>4. CASE PlaceholderFail
  <2>1. \A t \in DOMAIN files' : t \in DOMAIN files /\ files'[t].body = files[t].body
    BY <1>2, <1>4 DEF PlaceholderFail
  <2>2. UNCHANGED <<currentSegment, isOpen>>
    BY <1>4 DEF PlaceholderFail, memory
  <2> QED
    BY <1>1, <2>1, <2>2 DEF SizeOK
<1> QED
  BY <1>3, <1>4 DEF Placeholder

\* A power cut keeps the first frames of a file.
LEMMA CrashSize == ASSUME IInv, SizeOK, Crash PROVE SizeOK'
<1>1. currentSegment' = None
  BY DEF Crash
<1>2. CASE UNCHANGED files
  BY <1>1, <1>2 DEF SizeOK
<1>3. CASE PowerCuts /\ PowerCut
  <2>1. ASSUME NEW t \in DOMAIN files, NEW left \in Remains(files[t])
        PROVE  Below(left.body)
    <3>1. /\ files[t].body \in Seq(Frames) /\ Len(files[t].body) \in Nat
          /\ Below(files[t].body)
      BY LenProperties DEF IInv, TypeOK, SegmentFiles, SizeOK
    <3>2. CASE left.body = <<>>
      BY <3>2 DEF Below
    <3>3. ASSUME NEW keep \in 0 .. Len(files[t].body),
                 left.body = SubSeq(files[t].body, 1, keep)
          PROVE  Below(left.body)
      <4>1. CASE keep < Len(files[t].body)
        BY <3>1, <3>3, <4>1, BelowPrefix
      <4>2. CASE keep = Len(files[t].body)
        <5>1. SubSeq(files[t].body, 1, keep) = files[t].body
          BY <3>1, <4>2
        <5> QED
          BY <3>1, <3>3, <5>1
      <4> QED
        BY <3>1, <4>1, <4>2
    <3> QED
      BY <3>2, <3>3 DEF Remains, EmptyFile
  <2>2. /\ DOMAIN files' = DOMAIN files
        /\ \A t \in DOMAIN files :
              files'[t] = files[t] \/ files'[t] \in Remains(files[t])
    BY <1>3, PowerCutFiles DEF IInv, TypeOK
  <2> QED
    BY <1>1, <2>1, <2>2 DEF SizeOK
<1> QED
  BY <1>2, <1>3 DEF Crash

-----------------------------------------------------------------------------
\* A segment is below max_segment_mib before its last frame, for items of any
\* size and across crashes and power cuts (lines 198-206): it exceeds the
\* limit by less than that frame.  Where the seek to the header fails, the
\* full segment stays in use and grows on.
THEOREM SegmentsAreBounded == RotationSeeks => (Spec => []SegmentBound)
<1> SUFFICES ASSUME RotationSeeks PROVE Spec => []SegmentBound
  OBVIOUS
<1>1. Init => SizeOK
  BY DEF Init, SizeOK
<1>2. IInv /\ HonestOK /\ SizeOK /\ [Next]_vars => SizeOK'
  BY CallsSize, WriteSizeSize, WriteDataSize, FinalizeSize, CreateSize,
     PlaceholderSize, CrashSize DEF Next
<1>3. SizeOK => SegmentBound
  BY DEF SizeOK, SegmentBound, Below
<1>4. Spec => []HonestOK
  BY HonestInvariant DEF RotationSeeks
<1> QED
  BY <1>1, <1>2, <1>3, <1>4, Invariant, PTL DEF Spec
=============================================================================
