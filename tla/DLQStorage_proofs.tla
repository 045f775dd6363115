-------------------------- MODULE DLQStorage_proofs --------------------------
(***************************************************************************)
(* For any items, frame lengths, faults, crashes and power cuts: every     *)
(* variable of the write path keeps its type, a synced segment never       *)
(* changes as long as no two segments share a second, and as long as       *)
(* headers can be written only crashes leave segments that are not synced. *)
(***************************************************************************)
EXTENDS DLQStorage, SequenceTheorems, FiniteSetTheorems,
        WellFoundedInduction, TLAPS

\* The four steps of finalizeSegment.
Finalizing == {"finalize", "count", "hash", "sync"}

\* What the position in a call says about its data: there is a segment to
\* write to, the item has been submitted, a rotation starts after the header.
CallOK ==
    /\ pc \in {"size", "data", "close"} \cup Finalizing => currentSegment # None
    /\ pc \in {"close"} \cup Finalizing => caller \in {"rotate", "stop"}
    /\ pc \in {"create", "placeholder"} => caller \in {"start", "ensure", "rotate"}
    /\ pc \in {"size", "data", "return"} => item \in submitted
    /\ pc # "idle" /\ caller \in {"ensure", "rotate"} => item \in submitted
    /\ pc = "placeholder" => fresh # None /\ ~IsSealed(fresh) /\ fresh \notin durable
    /\ pc = "data" /\ offset >= 0 => offset < Len(body)
    /\ pc = "sync" => offset = 0
    /\ pc = "close" /\ caller = "rotate" => offset = 0
    /\ pc \in {"create", "placeholder"} /\ currentSegment # None => offset = 0

IInv == TypeOK /\ CallOK

-----------------------------------------------------------------------------
(* Segment names.                                                          *)

\* Among the names in a directory one is the least: the intervals below the
\* members of S are finite sets, and inclusion of those is well founded.
LEMMA LeastNatural ==
  ASSUME NEW S \in SUBSET Nat, S # {}
  PROVE  \E m \in S : \A k \in S : m <= k
<1> DEFINE T == {0 .. k : k \in S}
<1>1. T \subseteq FiniteSubsetsOf(Nat) /\ T # {}
  <2>1. \A k \in S : 0 .. k \in FiniteSubsetsOf(Nat)
    BY FS_Interval DEF FiniteSubsetsOf
  <2> QED BY <2>1
<1>2. PICK x \in T : \A y \in T : ~ (<<y, x>> \in StrictSubsetOrdering(Nat))
  <2> HIDE DEF T
  <2> QED BY <1>1, WFMin, FS_StrictSubsetOrderingWellFounded, Zenon
<1>3. PICK m \in S : x = 0 .. m
  OBVIOUS
<1>4. ASSUME NEW k \in S, k < m PROVE FALSE
  <2>1. <<0 .. k, 0 .. m>> \in StrictSubsetOrdering(Nat)
    <3>1. 0 .. k \subseteq Nat /\ 0 .. m \subseteq Nat
      OBVIOUS
    <3>2. 0 .. k \subseteq 0 .. m
      BY <1>4
    <3>3. m \in 0 .. m /\ m \notin 0 .. k
      BY <1>4
    <3> QED BY <3>1, <3>2, <3>3 DEF StrictSubsetOrdering
  <2> QED BY <2>1, <1>2, <1>3
<1> QED BY <1>4

-----------------------------------------------------------------------------
(* Frames and files.                                                       *)

\* A torn write yields frames, and one at the offset.
LEMMA TornType ==
    ASSUME NEW b \in Seq(Frames), offset \in 0 .. Len(b), NEW i \in Items
    PROVE  Torn(b, i) \in Seq(Frames) /\ offset < Len(Torn(b, i))
<1>1. Len(b) \in Nat /\ Frame(i, FALSE) \in Frames
  BY LenProperties DEF Frame, Frames
<1>2. CASE offset >= Len(b)
  <2>1. Torn(b, i) = Append(b, Frame(i, FALSE))
    BY <1>2 DEF Torn
  <2>2. /\ Append(b, Frame(i, FALSE)) \in Seq(Frames)
        /\ Len(Append(b, Frame(i, FALSE))) = Len(b) + 1
    BY <1>1, AppendProperties, Zenon
  <2>3. offset < Len(b) + 1
    BY <1>1
  <2> QED
    BY <2>1, <2>2, <2>3, Zenon
<1>3. CASE offset < Len(b)
  <2> DEFINE f == [k \in 1 .. Len(b) |->
                      IF k > offset THEN Frame(b[k].item, FALSE) ELSE b[k]]
  <2>0. ~ (offset >= Len(b))
    BY <1>1, <1>3
  <2>1. Torn(b, i) = f
    BY <2>0, Zenon DEF Torn
  <2>2. \A k \in 1 .. Len(b) : b[k] \in Frames /\ Frame(b[k].item, FALSE) \in Frames
    BY ElementOfSeq DEF Frame, Frames
  <2>3. f \in [1 .. Len(b) -> Frames]
    BY <2>2
  <2> HIDE DEF f
  <2>4. f \in Seq(Frames) /\ Len(f) = Len(b)
    BY <1>1, <2>3
  <2> QED
    BY <1>3, <2>1, <2>4
<1> QED
  BY <1>1, <1>2, <1>3

\* So does a size that is written: the frame it opens lies at the offset.
LEMMA OpenedType ==
    ASSUME NEW b \in Seq(Frames), offset \in 0 .. Len(b), NEW i \in Items
    PROVE  Opened(b, i) \in Seq(Frames) /\ offset < Len(Opened(b, i))
BY TornType DEF Opened

\* The data fills a frame in place.
LEMMA FilledType ==
    ASSUME NEW b \in Seq(Frames), offset \in 0 .. Len(b) - 1, NEW i \in Items
    PROVE  Filled(b, i) \in Seq(Frames) /\ Len(Filled(b, i)) = Len(b)
<1>1. Len(b) \in Nat /\ Frame(i, TRUE) \in Frames
  BY LenProperties DEF Frame, Frames
<1> DEFINE n == offset + 1
           frame == Frame(i, TRUE)
<1>2. n \in 1 .. Len(b)
  BY <1>1
<1>3. frame \in Frames
  BY <1>1
<1>4. Filled(b, i) = [b EXCEPT ![n] = frame]
  BY DEF Filled
<1> HIDE DEF n, frame
<1>5. /\ [b EXCEPT ![n] = frame] \in Seq(Frames)
      /\ Len([b EXCEPT ![n] = frame]) = Len(b)
  BY <1>2, <1>3, ExceptSeq
<1> QED
  BY <1>4, <1>5

\* Writing a header or a body changes that part of that file.
LEMMA HeaderWritten ==
    ASSUME files \in [DOMAIN files -> SegmentFiles], NEW t \in DOMAIN files,
           NEW h \in Headers, files' = [files EXCEPT ![t].header = h]
    PROVE  /\ DOMAIN files' = DOMAIN files
           /\ files' \in [DOMAIN files' -> SegmentFiles]
           /\ \A u \in DOMAIN files : files'[u].body = files[u].body
           /\ \A u \in DOMAIN files \ {t} : files'[u] = files[u]
           /\ files'[t].header = h
BY DEF SegmentFiles

LEMMA BodyWritten ==
    ASSUME files \in [DOMAIN files -> SegmentFiles], NEW t \in DOMAIN files,
           NEW b \in Seq(Frames), files' = [files EXCEPT ![t].body = b]
    PROVE  /\ DOMAIN files' = DOMAIN files
           /\ files' \in [DOMAIN files' -> SegmentFiles]
           /\ files'[t].body = b
           /\ \A u \in DOMAIN files \ {t} : files'[u] = files[u]
           /\ \A u \in DOMAIN files : files'[u].header = files[u].header
BY DEF SegmentFiles

\* The headers the code writes.
LEMMA HeaderTypes ==
    /\ \A kind \in {"none", "placeholder", "torn"} : Blank(kind) \in Headers
    /\ currentItemCount \in Nat /\ hasher \in Seq(Items)
          => Sealed(currentItemCount, hasher) \in Headers
BY EmptySeq DEF Headers, Blank, Sealed

\* The segment in use has a body of frames.
LEMMA BodyType ==
    ASSUME TypeOK, currentSegment # None
    PROVE  /\ currentSegment \in DOMAIN files
           /\ body \in Seq(Frames) /\ Len(body) \in Nat
           /\ offset \in -1 .. Len(body)
<1>1. currentSegment \in DOMAIN files /\ files \in [DOMAIN files -> SegmentFiles]
  BY DEF TypeOK
<1>2. body \in Seq(Frames)
  BY <1>1 DEF body, SegmentFiles
<1>3. Len(body) \in Nat
  BY <1>2, LenProperties
<1>4. offset \in -1 .. Len(body)
  BY DEF TypeOK
<1> QED
  BY <1>1, <1>2, <1>3, <1>4

-----------------------------------------------------------------------------
(* The invariant, action by action.                                        *)

\* Nothing has been created.
LEMMA InitIInv == Init => IInv
<1> SUFFICES ASSUME Init PROVE IInv
  OBVIOUS
<1>1. DOMAIN files = {} /\ files \in [DOMAIN files -> SegmentFiles]
  BY DEF Init
<1>2. now = 0 /\ 0 \in Times /\ crashes = 0 /\ 0 \in 0 .. MaxCrashes
  BY DLQAssumption DEF Init, Times, DLQAssumption
<1>3. hasher \in Seq(Items)
  BY EmptySeq DEF Init
<1>4. TypeOK
  BY <1>1, <1>2, <1>3 DEF Init, TypeOK
<1>5. CallOK
  BY DEF Init, CallOK, Finalizing
<1> QED
  BY <1>4, <1>5 DEF IInv

\* The clock and the beginnings of calls leave the files alone.
LEMMA CallsIInv ==
    ASSUME IInv, Tick \/ Start \/ Stop \/ (\E i \in Items : StoreItem(i)) \/ Return
    PROVE  IInv'
<1> USE DEF IInv
<1>1. CASE Tick
  <2>1. now + 1 \in Times /\ DOMAIN files \subseteq 0 .. now + 1
    BY <1>1, DLQAssumption DEF Tick, TypeOK, Times, DLQAssumption
  <2>2. TypeOK'
    BY <1>1, <2>1 DEF Tick, TypeOK, memory, call, history, body
  <2>3. CallOK'
    BY <1>1 DEF Tick, CallOK, Finalizing, Finalizing, memory, call, history, body, IsSealed
  <2> QED
    BY <2>2, <2>3
<1>2. CASE Start
  <2>1. TypeOK'
    BY <1>2 DEF Start, TypeOK, memory, call, history, body
  <2>2. CallOK'
    BY <1>2 DEF Start, CallOK, Finalizing, memory, call, history, body, IsSealed
  <2> QED
    BY <2>1, <2>2
<1>3. CASE Stop
  <2>1. TypeOK'
    BY <1>3 DEF Stop, TypeOK, memory, history, body
  <2>2. CallOK'
    BY <1>3 DEF Stop, CallOK, Finalizing, memory, history, body, IsSealed
  <2> QED
    BY <2>1, <2>2
<1>4. ASSUME NEW i \in Items, StoreItem(i) PROVE IInv'
  <2>1. TypeOK'
    BY <1>4 DEF StoreItem, TypeOK, memory, body
  <2>2. CallOK'
    BY <1>4 DEF StoreItem, CallOK, Finalizing, memory, body, IsSealed
  <2> QED
    BY <2>1, <2>2
<1>5. CASE Return
  <2>1. TypeOK'
    BY <1>5 DEF Return, TypeOK, CallOK, Finalizing, memory, call, body
  <2>2. CallOK'
    BY <1>5 DEF Return, CallOK, Finalizing, memory, call, body, IsSealed
  <2> QED
    BY <2>1, <2>2
<1> QED
  BY <1>1, <1>2, <1>3, <1>4, <1>5

\* The size of a frame: the body stays one of frames, with one at the offset.
LEMMA WriteSizeIInv == ASSUME IInv, WriteSize PROVE IInv'
<1>1. /\ currentSegment # None /\ item \in submitted /\ item \in Items
      /\ pc = "size"
      /\ files \in [DOMAIN files -> SegmentFiles]
  BY DEF IInv, WriteSize, CallOK, TypeOK
<1>2. /\ currentSegment \in DOMAIN files
      /\ body \in Seq(Frames) /\ Len(body) \in Nat
      /\ offset \in -1 .. Len(body)
  BY <1>1, BodyType DEF IInv
<1>3. hasher' \in Seq(Items)
  BY <1>1, AppendProperties DEF IInv, WriteSize, TypeOK
<1>4. ASSUME UNCHANGED <<files, offset>>, pc' = "idle" PROVE IInv'
  <2>1. TypeOK'
    BY <1>3, <1>4 DEF IInv, WriteSize, TypeOK, call, history, body
  <2>2. CallOK'
    BY <1>4 DEF CallOK, Finalizing
  <2> QED
    BY <2>1, <2>2 DEF IInv
<1>5. ASSUME /\ DOMAIN files' = DOMAIN files
             /\ files' \in [DOMAIN files' -> SegmentFiles]
             /\ offset' \in -1 .. Len(body')
             /\ \/ pc' = "idle"
                \/ pc' = "data" /\ (offset' >= 0 => offset' < Len(body'))
      PROVE  IInv'
  <2>1. TypeOK'
    BY <1>3, <1>5 DEF IInv, WriteSize, TypeOK, call, history
  <2>2. CallOK'
    BY <1>1, <1>5 DEF CallOK, Finalizing, WriteSize, call, history
  <2> QED
    BY <2>1, <2>2 DEF IInv
<1>6. currentSegment' = currentSegment
  BY DEF WriteSize
<1>7. CASE WriteSizeOk
  <2>1. CASE offset < 0
    <3>1. files' = [files EXCEPT ![currentSegment].header = Blank("torn")]
      BY <1>7, <2>1 DEF WriteSizeOk
    <3>2. /\ DOMAIN files' = DOMAIN files
          /\ files' \in [DOMAIN files' -> SegmentFiles]
          /\ body' = body
      BY <1>1, <1>2, <1>6, <3>1, HeaderTypes, HeaderWritten DEF body
    <3> QED
      BY <1>2, <1>5, <1>7, <2>1, <3>2 DEF WriteSizeOk
  <2>2. CASE ~ (offset < 0)
    <3>1. files' = [files EXCEPT ![currentSegment].body = Opened(body, item)]
      BY <1>7, <2>2 DEF WriteSizeOk, body
    <3>2. Opened(body, item) \in Seq(Frames) /\ offset < Len(Opened(body, item))
      BY <1>1, <1>2, <2>2, OpenedType
    <3>3. /\ DOMAIN files' = DOMAIN files
          /\ files' \in [DOMAIN files' -> SegmentFiles]
          /\ body' = Opened(body, item)
      BY <1>1, <1>2, <1>6, <3>1, <3>2, BodyWritten DEF body
    <3>4. Len(body') \in Nat
      BY <3>2, <3>3, LenProperties
    <3> QED
      BY <1>2, <1>5, <1>7, <2>2, <3>2, <3>3, <3>4 DEF WriteSizeOk
  <2> QED
    BY <2>1, <2>2
<1>8. CASE WriteSizeFail
  <2>1. CASE UNCHANGED <<files, offset>>
    BY <1>4, <1>8, <2>1 DEF WriteSizeFail, Fail
  <2>2. CASE /\ isOpen /\ offset >= 0
             /\ files' = [files EXCEPT ![currentSegment].body = Torn(@, item)]
             /\ offset' = offset + 1
    <3>1. files' = [files EXCEPT ![currentSegment].body = Torn(body, item)]
      BY <2>2 DEF body
    <3>2. Torn(body, item) \in Seq(Frames) /\ offset < Len(Torn(body, item))
      BY <1>1, <1>2, <2>2, TornType
    <3>3. /\ DOMAIN files' = DOMAIN files
          /\ files' \in [DOMAIN files' -> SegmentFiles]
          /\ body' = Torn(body, item)
      BY <1>1, <1>2, <1>6, <3>1, <3>2, BodyWritten DEF body
    <3>4. Len(body') \in Nat
      BY <3>2, <3>3, LenProperties
    <3> QED
      BY <1>2, <1>5, <1>8, <2>2, <3>2, <3>3, <3>4 DEF WriteSizeFail, Fail
  <2> QED
    BY <1>8, <2>1, <2>2 DEF WriteSizeFail
<1> QED
  BY <1>7, <1>8 DEF WriteSize

\* The data of a frame, or of one that has become a part of the header.
LEMMA WriteDataIInv == ASSUME IInv, WriteData PROVE IInv'
<1>1. /\ currentSegment # None /\ item \in submitted /\ item \in Items
      /\ pc = "data" /\ currentSegment' = currentSegment
      /\ files \in [DOMAIN files -> SegmentFiles]
  BY DEF IInv, WriteData, CallOK, TypeOK
<1>2. /\ currentSegment \in DOMAIN files
      /\ body \in Seq(Frames) /\ Len(body) \in Nat
      /\ offset \in -1 .. Len(body)
      /\ offset >= 0 => offset < Len(body)
  BY <1>1, BodyType DEF IInv, CallOK, Finalizing
<1>3. currentSize' \in Nat /\ currentItemCount' \in Nat
  <2>1. /\ FrameBytes[item] \in Nat
        /\ currentSize \in Nat /\ currentItemCount \in Nat
    BY <1>1, DLQAssumption DEF IInv, TypeOK, DLQAssumption
  <2>2. \/ UNCHANGED <<currentSize, currentItemCount>>
        \/ /\ currentSize' = currentSize + FrameBytes[item]
           /\ currentItemCount' = currentItemCount + 1
    BY DEF WriteData, WriteDataOk, WriteDataFail
  <2> QED
    BY <2>1, <2>2
<1>4. \/ pc' = "idle" /\ caller' = caller
      \/ pc' = "return" /\ caller' = caller
      \/ pc' = "finalize" /\ caller' = "rotate"
  BY DEF WriteData, WriteDataOk, WriteDataFail, Fail
<1>5. ASSUME /\ DOMAIN files' = DOMAIN files
             /\ files' \in [DOMAIN files' -> SegmentFiles]
             /\ offset' \in -1 .. Len(body')
      PROVE  IInv'
  <2>1. TypeOK'
    BY <1>3, <1>4, <1>5 DEF IInv, WriteData, TypeOK, history
  <2>2. CallOK'
    BY <1>1, <1>4 DEF CallOK, Finalizing, WriteData, history
  <2> QED
    BY <2>1, <2>2 DEF IInv
<1>6. CASE UNCHANGED <<files, offset>>
  BY <1>1, <1>2, <1>5, <1>6 DEF body
<1>7. CASE /\ offset >= 0
           /\ files' = [files EXCEPT ![currentSegment].body = Filled(@, item)]
           /\ offset' = offset + 1
  <2>1. files' = [files EXCEPT ![currentSegment].body = Filled(body, item)]
    BY <1>7 DEF body
  <2>2. Filled(body, item) \in Seq(Frames) /\ Len(Filled(body, item)) = Len(body)
    BY <1>1, <1>2, <1>7, FilledType
  <2>3. /\ DOMAIN files' = DOMAIN files
        /\ files' \in [DOMAIN files' -> SegmentFiles]
        /\ body' = Filled(body, item)
    BY <1>1, <1>2, <2>1, <2>2, BodyWritten DEF body
  <2>4. offset' \in -1 .. Len(body')
    BY <1>2, <1>7, <2>2, <2>3
  <2> QED
    BY <1>5, <2>3, <2>4
<1>8. CASE /\ offset >= 0
           /\ files' = [files EXCEPT ![currentSegment].body = Torn(@, item)]
           /\ offset' = offset + 1
  <2>1. files' = [files EXCEPT ![currentSegment].body = Torn(body, item)]
    BY <1>8 DEF body
  <2>2. Torn(body, item) \in Seq(Frames) /\ offset < Len(Torn(body, item))
    BY <1>1, <1>2, <1>8, TornType
  <2>3. /\ DOMAIN files' = DOMAIN files
        /\ files' \in [DOMAIN files' -> SegmentFiles]
        /\ body' = Torn(body, item)
    BY <1>1, <1>2, <2>1, <2>2, BodyWritten DEF body
  <2>4. Len(body') \in Nat
    BY <2>2, <2>3, LenProperties
  <2>5. offset' \in -1 .. Len(body')
    BY <1>2, <1>8, <2>2, <2>3, <2>4
  <2> QED
    BY <1>5, <2>3, <2>5
<1>9. CASE /\ files' = [files EXCEPT ![currentSegment].body = <<Frame(item, FALSE)>>]
           /\ offset' = 1
  <2> DEFINE one == <<Frame(item, FALSE)>>
  <2>1. one \in Seq(Frames) /\ Len(one) = 1
    BY <1>1 DEF Frame, Frames
  <2>2. files' = [files EXCEPT ![currentSegment].body = one]
    BY <1>9
  <2> HIDE DEF one
  <2>3. /\ DOMAIN files' = DOMAIN files
        /\ files' \in [DOMAIN files' -> SegmentFiles]
        /\ body' = one
    BY <1>1, <1>2, <2>1, <2>2, BodyWritten DEF body
  <2>4. offset' \in -1 .. Len(body')
    BY <1>9, <2>1, <2>3
  <2> QED
    BY <1>5, <2>3, <2>4
<1> QED
  BY <1>6, <1>7, <1>8, <1>9 DEF WriteData, WriteDataOk, WriteDataFail

\* Sealing rewrites the header and moves the offset.
LEMMA FinalizeIInv == ASSUME IInv, Finalize PROVE IInv'
<1>1. /\ currentSegment # None /\ currentSegment' = currentSegment
      /\ pc \in Finalizing /\ caller \in {"rotate", "stop"}
      /\ pc = "sync" => offset = 0
      /\ files \in [DOMAIN files -> SegmentFiles]
      /\ currentItemCount \in Nat /\ hasher \in Seq(Items)
  BY DEF IInv, Finalize, Finalizing, SeekHeader, WriteCount, WriteHash, Sync, CallOK, TypeOK
<1>2. /\ currentSegment \in DOMAIN files
      /\ body \in Seq(Frames) /\ Len(body) \in Nat
      /\ offset \in -1 .. Len(body)
  BY <1>1, BodyType DEF IInv
<1>3. ASSUME /\ DOMAIN files' = DOMAIN files
             /\ files' \in [DOMAIN files' -> SegmentFiles]
             /\ body' = body
             /\ offset' \in -1 .. Len(body)
             /\ durable' \subseteq DOMAIN files
             /\ pc' \in {"idle", "count", "hash", "sync", "close"}
             /\ pc' = "sync" \/ (pc' = "close" /\ caller = "rotate") => offset' = 0
      PROVE  IInv'
  <2>1. TypeOK'
    BY <1>3 DEF IInv, Finalize, TypeOK, call, history
  <2>2. CallOK'
    BY <1>1, <1>3 DEF IInv, CallOK, Finalizing, Finalize, Finalizing, call, history
  <2> QED
    BY <2>1, <2>2 DEF IInv
<1>4. ASSUME NEW h \in Headers, files' = [files EXCEPT ![currentSegment].header = h]
      PROVE  /\ DOMAIN files' = DOMAIN files
             /\ files' \in [DOMAIN files' -> SegmentFiles]
             /\ body' = body
  BY <1>1, <1>2, <1>4, HeaderWritten DEF body
<1>5. FinalizeFail => /\ pc' \in {"close", "idle"}
                      /\ pc' = "close" => caller = "stop"
  BY <1>1 DEF FinalizeFail
<1>6. durable \subseteq DOMAIN files
  BY DEF IInv, TypeOK
<1>7. TearHeader \/ SealHeader \/ UNCHANGED files
      => /\ DOMAIN files' = DOMAIN files
         /\ files' \in [DOMAIN files' -> SegmentFiles]
         /\ body' = body
  <2>1. Blank("torn") \in Headers /\ Sealed(currentItemCount, hasher) \in Headers
    BY <1>1, HeaderTypes
  <2>2. TearHeader \/ SealHeader
        => /\ DOMAIN files' = DOMAIN files
           /\ files' \in [DOMAIN files' -> SegmentFiles]
           /\ body' = body
    BY <1>4, <2>1 DEF TearHeader, SealHeader
  <2> QED
    BY <1>1, <2>2 DEF body
<1>8. CASE SeekHeader
  BY <1>1, <1>2, <1>3, <1>5, <1>6, <1>7, <1>8 DEF SeekHeader
<1>9. CASE WriteCount
  BY <1>1, <1>2, <1>3, <1>5, <1>6, <1>7, <1>9 DEF WriteCount
<1>10. CASE WriteHash
  BY <1>1, <1>2, <1>3, <1>5, <1>6, <1>7, <1>10 DEF WriteHash
<1>11. CASE Sync
  BY <1>1, <1>2, <1>3, <1>5, <1>6, <1>7, <1>11 DEF Sync
<1> QED
  BY <1>8, <1>9, <1>10, <1>11 DEF Finalize

\* Closing forgets the descriptor and, at the end of Stop, the segment.
LEMMA CloseIInv == ASSUME IInv, Close PROVE IInv'
<1>1. /\ currentSegment # None /\ pc = "close" /\ caller \in {"rotate", "stop"}
      /\ caller = "rotate" => offset = 0
  BY DEF IInv, Close, CallOK
<1>2. \/ pc' = "idle" /\ currentSegment' \in {None, currentSegment}
      \/ pc' = "create" /\ caller = "rotate" /\ currentSegment' = currentSegment
  BY <1>1 DEF Close, Fail
<1>3. TypeOK'
  BY <1>2 DEF IInv, Close, TypeOK, call, history, body
<1>4. CallOK'
  BY <1>1, <1>2 DEF IInv, CallOK, Finalizing, Close, call, history
<1> QED
  BY <1>3, <1>4 DEF IInv

\* A new file is empty; if it replaces one, the offset is at its start.
LEMMA CreateIInv == ASSUME IInv, Create PROVE IInv'
<1>1. /\ pc = "create" /\ caller \in {"start", "ensure", "rotate"}
      /\ currentSegment # None => offset = 0
      /\ UNCHANGED <<now, memory, caller, item, submitted, acked, crashes>>
  BY DEF IInv, Create, CallOK
<1>2. CASE CreateFail
  <2>1. TypeOK'
    BY <1>1, <1>2 DEF IInv, CreateFail, Fail, TypeOK, memory, body
  <2>2. CallOK'
    BY <1>2 DEF CallOK, Finalizing, CreateFail, Fail
  <2> QED
    BY <2>1, <2>2 DEF IInv
<1>3. CASE CreateOk
  <2>1. EmptyFile \in SegmentFiles
    BY HeaderTypes, EmptySeq DEF EmptyFile, SegmentFiles
  <2>2. now \in Nat /\ DOMAIN files \subseteq 0 .. now
        /\ files \in [DOMAIN files -> SegmentFiles]
    BY DEF IInv, TypeOK, Times
  <2>3. /\ DOMAIN files' = DOMAIN files \cup {now}
        /\ files' \in [DOMAIN files' -> SegmentFiles]
        /\ DOMAIN files' \subseteq 0 .. now
        /\ files'[now] = EmptyFile
        /\ fresh' = now /\ pc' = "placeholder" /\ durable' = durable \ {now}
    BY <1>3, <2>1, <2>2 DEF CreateOk
  <2>4. currentSegment' # None => Len(body') \in Nat /\ offset' = 0
    <3> SUFFICES ASSUME currentSegment' # None PROVE Len(body') \in Nat /\ offset' = 0
      OBVIOUS
    <3>1. currentSegment' \in DOMAIN files'
      BY <1>1, <2>3 DEF IInv, TypeOK, memory
    <3>2. body' \in Seq(Frames)
      BY <2>3, <3>1 DEF body, SegmentFiles
    <3> QED
      BY <1>1, <3>2, LenProperties DEF memory
  <2>5. TypeOK'
    BY <1>1, <2>3, <2>4 DEF IInv, TypeOK, memory
  <2>6. now # None
    BY <2>2, DLQAssumption DEF DLQAssumption
  <2>7. CallOK'
    BY <1>1, <2>3, <2>4, <2>6
       DEF IInv, CallOK, Finalizing, memory, history, IsSealed, EmptyFile, Blank
  <2> QED
    BY <2>5, <2>7 DEF IInv
<1> QED
  BY <1>2, <1>3 DEF Create

\* The file that has its placeholder becomes the current segment.
LEMMA PlaceholderIInv == ASSUME IInv, Placeholder PROVE IInv'
<1>1. /\ pc = "placeholder" /\ caller \in {"start", "ensure", "rotate"}
      /\ fresh # None /\ fresh \in DOMAIN files
      /\ caller \in {"ensure", "rotate"} => item \in submitted
      /\ UNCHANGED <<now, call, history>>
      /\ files \in [DOMAIN files -> SegmentFiles]
  BY DEF IInv, Placeholder, CallOK, TypeOK
<1>2. ASSUME NEW h \in Headers, files' = [files EXCEPT ![fresh].header = h]
      PROVE  /\ DOMAIN files' = DOMAIN files
             /\ files' \in [DOMAIN files' -> SegmentFiles]
             /\ \A t \in DOMAIN files : files'[t].body = files[t].body
  BY <1>1, <1>2, HeaderWritten
<1>3. \A kind \in {"none", "placeholder", "torn"} : Blank(kind) \in Headers
  BY HeaderTypes
<1>4. CASE PlaceholderOk
  <2>1. /\ DOMAIN files' = DOMAIN files
        /\ files' \in [DOMAIN files' -> SegmentFiles]
    BY <1>2, <1>3, <1>4 DEF PlaceholderOk
  <2>2. body' \in Seq(Frames)
    BY <1>1, <1>4, <2>1 DEF PlaceholderOk, body, SegmentFiles
  <2>3. Len(body') \in Nat /\ hasher' \in Seq(Items)
    BY <1>4, <2>2, LenProperties, EmptySeq DEF PlaceholderOk
  <2>4. \/ pc' = "idle"
        \/ pc' \in {"size", "return"} /\ caller \in {"ensure", "rotate"}
    BY <1>1, <1>4 DEF PlaceholderOk
  <2>5. TypeOK'
    BY <1>1, <1>4, <2>1, <2>3, <2>4
       DEF IInv, TypeOK, PlaceholderOk, call, history, headerSize
  <2>6. CallOK'
    BY <1>1, <1>4, <2>4 DEF CallOK, Finalizing, PlaceholderOk, call, history
  <2> QED
    BY <2>5, <2>6 DEF IInv
<1>5. CASE PlaceholderFail
  <2>1. /\ DOMAIN files' = DOMAIN files
        /\ files' \in [DOMAIN files' -> SegmentFiles]
        /\ \A t \in DOMAIN files : files'[t].body = files[t].body
    BY <1>1, <1>2, <1>3, <1>5 DEF PlaceholderFail
  <2>2. pc' = "idle" /\ UNCHANGED memory
    BY <1>5 DEF PlaceholderFail, Fail
  <2>3. currentSegment # None => body' = body
    BY <2>1, <2>2 DEF IInv, TypeOK, body, memory
  <2>4. TypeOK'
    BY <1>1, <2>1, <2>2, <2>3 DEF IInv, TypeOK, call, history, memory
  <2>5. CallOK'
    BY <2>2 DEF CallOK, Finalizing
  <2> QED
    BY <2>4, <2>5 DEF IInv
<1> QED
  BY <1>4, <1>5 DEF Placeholder

\* What a power cut leaves of a file is one.
LEMMA RemainsType ==
    ASSUME NEW file \in SegmentFiles
    PROVE  Remains(file) \subseteq SegmentFiles
<1>1. EmptyFile \in SegmentFiles
  BY HeaderTypes, EmptySeq DEF EmptyFile, SegmentFiles
<1>2. file.header \in Headers /\ file.body \in Seq(Frames) /\ Len(file.body) \in Nat
  BY LenProperties DEF SegmentFiles
<1>3. \A keep \in 0 .. Len(file.body) : SubSeq(file.body, 1, keep) \in Seq(Frames)
  <2> TAKE keep \in 0 .. Len(file.body)
  <2>1. \A k \in 1 .. keep : file.body[k] \in Frames
    BY <1>2, ElementOfSeq
  <2> QED
    BY <2>1, SubSeqProperties
<1>4. Blank("placeholder") \in Headers
  BY HeaderTypes
<1> QED
  BY <1>1, <1>2, <1>3, <1>4 DEF Remains, SegmentFiles

\* A power cut keeps the directory and what was synced.
LEMMA PowerCutFiles ==
    ASSUME files \in [DOMAIN files -> SegmentFiles], PowerCut
    PROVE  /\ DOMAIN files' = DOMAIN files
           /\ files' \in [DOMAIN files' -> SegmentFiles]
           /\ \A t \in DOMAIN files : t \in durable => files'[t] = files[t]
           /\ \A t \in DOMAIN files : t \notin durable => files'[t] \in Remains(files[t])
<1> DEFINE atRisk == DOMAIN files \ durable
<1>1. PICK left \in [atRisk -> UNION {Remains(files[t]) : t \in atRisk}] :
         /\ \A t \in atRisk : left[t] \in Remains(files[t])
         /\ files' = [t \in DOMAIN files |->
                         IF t \in durable THEN files[t] ELSE left[t]]
  BY DEF PowerCut
<1>2. \A t \in DOMAIN files : Remains(files[t]) \subseteq SegmentFiles
  BY RemainsType
<1> QED
  BY <1>1, <1>2

\* A crash clears the memory; a power cut shortens bodies.
LEMMA CrashIInv == ASSUME IInv, Crash PROVE IInv'
<1>1. files \in [DOMAIN files -> SegmentFiles]
  BY DEF IInv, TypeOK
<1>2. DOMAIN files' = DOMAIN files /\ files' \in [DOMAIN files' -> SegmentFiles]
  <2>1. CASE UNCHANGED files
    BY <1>1, <2>1
  <2> QED
    BY <1>1, <2>1, PowerCutFiles DEF Crash
<1>3. crashes' \in 0 .. MaxCrashes
  BY DLQAssumption DEF Crash, IInv, TypeOK, DLQAssumption
<1>4. hasher' \in Seq(Items)
  BY EmptySeq DEF Crash
<1>5. TypeOK'
  BY <1>2, <1>3, <1>4 DEF IInv, TypeOK, Crash
<1>6. CallOK'
  BY DEF CallOK, Finalizing, Crash, Finalizing
<1> QED
  BY <1>5, <1>6 DEF IInv

\* No step takes a segment out of the directory.
LEMMA DirectoryKept ==
    ASSUME IInv, [Next]_vars
    PROVE  DOMAIN files \subseteq DOMAIN files'
<1>1. CASE \/ UNCHANGED vars \/ Tick \/ Start \/ Stop
           \/ (\E i \in Items : StoreItem(i)) \/ Return \/ Close
  BY <1>1 DEF vars, Tick, Start, Stop, StoreItem, Return, Close
<1>2. CASE WriteSize \/ WriteData
  BY <1>2 DEF WriteSize, WriteSizeOk, WriteSizeFail, WriteData, WriteDataOk,
     WriteDataFail
<1>3. CASE Finalize \/ Placeholder
  BY <1>3 DEF Finalize, SeekHeader, WriteCount, WriteHash, Sync, TearHeader,
     SealHeader, Placeholder, PlaceholderOk, PlaceholderFail
<1>4. CASE Create \/ Crash
  BY <1>4 DEF Create, CreateOk, CreateFail, Crash, PowerCut
<1> QED
  BY <1>1, <1>2, <1>3, <1>4 DEF Next

\* Every step keeps the invariant.
LEMMA StepIInv == IInv /\ [Next]_vars => IInv'
<1> SUFFICES ASSUME IInv, [Next]_vars PROVE IInv'
  OBVIOUS
<1>1. CASE UNCHANGED vars
  <2>1. TypeOK'
    BY <1>1 DEF IInv, TypeOK, vars, memory, call, history, body
  <2>2. CallOK'
    BY <1>1 DEF IInv, CallOK, vars, memory, call, history, body, IsSealed
  <2> QED
    BY <2>1, <2>2 DEF IInv
<1> QED
  BY <1>1, CallsIInv, WriteSizeIInv, WriteDataIInv, FinalizeIInv, CloseIInv,
     CreateIInv, PlaceholderIInv, CrashIInv DEF Next

\* The invariant holds throughout.
LEMMA Invariant == Spec => []IInv
BY InitIInv, StepIInv, PTL DEF Spec

-----------------------------------------------------------------------------
\* Every variable keeps its type whatever fails; in particular the write
\* offset stays within the frames of the segment (lines 170-345).
THEOREM TypeCorrect == Spec => []TypeOK
BY Invariant, PTL DEF IInv

-----------------------------------------------------------------------------
(* Synced segments.                                                        *)

\* A segment that has been synced is sealed, and closed before anything else
\* is done; who writes has an open descriptor.
DurableOK ==
    /\ \A t \in durable : IsSealed(t)
    /\ isOpen /\ currentSegment \in durable => pc = "close"
    /\ pc \in {"data", "count", "hash", "sync"} => isOpen
    /\ pc = "sync" => IsSealed(currentSegment)
    /\ pc \in {"create", "placeholder"} \/ currentSegment = None => ~isOpen

\* Only a segment that is not synced, or a name that is taken again, is ever
\* written to, and a power cut spares what is synced.
LEMMA DurableKept ==
    ASSUME IInv, DurableOK, [Next]_vars, NEW t \in durable
    PROVE  /\ t \in DOMAIN files /\ t \in DOMAIN files'
           /\ \/ files'[t] = files[t] /\ t \in durable'
              \/ SameSecond /\ t \notin durable'
<1>1. /\ files \in [DOMAIN files -> SegmentFiles] /\ t \in DOMAIN files
      /\ t \in DOMAIN files'
  BY DirectoryKept DEF IInv, TypeOK
<1> DEFINE Same == files'[t] = files[t] /\ t \in durable'
<1>2. CASE \/ UNCHANGED vars \/ Tick \/ Start \/ Stop
           \/ (\E i \in Items : StoreItem(i)) \/ Return \/ Close
  <2>1. UNCHANGED <<files, durable>>
    BY <1>2 DEF vars, history, Tick, Start, Stop, StoreItem, Return, Close
  <2> QED
    BY <1>1, <2>1
<1>3. ASSUME NEW s, s # t, t \in durable',
             \/ \E h : files' = [files EXCEPT ![s].header = h]
             \/ \E b : files' = [files EXCEPT ![s].body = b]
      PROVE  Same
  BY <1>1, <1>3
<1>4. CASE WriteSize \/ WriteData
  <2>1. UNCHANGED files \/ (isOpen /\ pc # "close")
    BY <1>4 DEF WriteSize, WriteSizeOk, WriteSizeFail, WriteData, DurableOK
  <2>2. UNCHANGED files \/ currentSegment # t
    BY <2>1 DEF DurableOK
  <2>3. t \in durable'
    BY <1>4 DEF WriteSize, WriteData, history
  <2> QED
    BY <1>1, <1>3, <1>4, <2>2, <2>3
       DEF WriteSize, WriteSizeOk, WriteSizeFail, WriteData, WriteDataOk, WriteDataFail
<1>5. CASE Finalize
  <2>1. /\ t \in durable'
        /\ UNCHANGED files \/ (pc \in {"count", "hash"} /\ (TearHeader \/ SealHeader))
    BY <1>5 DEF Finalize, SeekHeader, WriteCount, WriteHash, Sync
  <2>2. UNCHANGED files \/ currentSegment # t
    BY <2>1 DEF DurableOK
  <2> QED
    BY <1>1, <1>3, <2>1, <2>2 DEF TearHeader, SealHeader
<1>6. CASE Create
  BY <1>1, <1>6 DEF Create, CreateOk, CreateFail
<1>7. CASE Placeholder
  <2>1. fresh # t /\ t \in durable'
    BY <1>7 DEF Placeholder, IInv, CallOK, history
  <2> QED
    BY <1>1, <1>3, <1>7, <2>1 DEF Placeholder, PlaceholderOk, PlaceholderFail
<1>8. CASE Crash
  <2>1. t \in durable'
    BY <1>8 DEF Crash
  <2> QED
    BY <1>1, <1>8, <2>1, PowerCutFiles DEF Crash
<1> QED
  BY <1>1, <1>2, <1>4, <1>5, <1>6, <1>7, <1>8 DEF Next

\* Nothing has been synced.
LEMMA InitDurable == Init => DurableOK
BY DEF Init, DurableOK

\* A step syncs at most the segment it has sealed.
LEMMA DurableGrows ==
    ASSUME IInv, [Next]_vars
    PROVE  \/ durable' \subseteq durable
           \/ /\ Finalize /\ pc = "sync" /\ UNCHANGED files
              /\ durable' = durable \cup {currentSegment}
BY DEF vars, history, Next, Tick, Start, Stop, StoreItem, WriteSize, WriteData,
   Return, Finalize, SeekHeader, WriteCount, WriteHash, Sync, Close, Create,
   CreateOk, CreateFail, Placeholder, Crash

\* Every step keeps it, whatever fails.
LEMMA StepDurable == IInv /\ DurableOK /\ [Next]_vars => DurableOK'
<1> SUFFICES ASSUME IInv, DurableOK, [Next]_vars PROVE DurableOK'
  OBVIOUS
<1>1. (\A t \in durable : IsSealed(t))'
  <2>1. \A t \in durable : t \in durable' => files'[t] = files[t] /\ IsSealed(t)
    BY DurableKept DEF DurableOK
  <2>2. Finalize /\ pc = "sync" => IsSealed(currentSegment)
    BY DEF DurableOK
  <2> QED
    BY <2>1, <2>2, DurableGrows DEF IsSealed
<1>2. CASE \/ UNCHANGED vars \/ Tick \/ Start \/ Stop
           \/ (\E i \in Items : StoreItem(i)) \/ Return
  <2>1. /\ UNCHANGED <<files, currentSegment, isOpen, durable>>
        /\ \/ pc' = pc
           \/ pc \in {"idle", "return"} /\ pc' \in {"idle", "size", "finalize"}
           \/ pc = "idle" /\ pc' = "create" /\ currentSegment = None
    BY <1>2 DEF vars, memory, history, Tick, Start, Stop, StoreItem, Return
  <2> QED
    BY <1>1, <2>1 DEF DurableOK, IsSealed
<1>3. CASE WriteSize \/ WriteData
  <2>1. /\ UNCHANGED <<currentSegment, isOpen, durable>>
        /\ pc \in {"size", "data"} /\ currentSegment # None
        /\ \/ pc' = "data" /\ isOpen
           \/ pc' \in {"idle", "return", "finalize"}
    BY <1>3 DEF WriteSize, WriteSizeOk, WriteSizeFail, WriteData, WriteDataOk,
       WriteDataFail, Fail, history, IInv, CallOK
  <2> QED
    BY <1>1, <2>1 DEF DurableOK
<1>4. CASE Finalize
  <2>1. /\ UNCHANGED <<currentSegment, isOpen>>
        /\ pc \in Finalizing /\ currentSegment # None
        /\ currentSegment \in DOMAIN files
        /\ files \in [DOMAIN files -> SegmentFiles]
    BY <1>4 DEF Finalize, SeekHeader, WriteCount, WriteHash, Sync, Finalizing,
       IInv, CallOK, TypeOK
  <2>2. CASE pc' \in {"idle", "close"}
    <3>1. durable' = durable \/ pc' = "close"
      BY <1>4, <2>2 DEF Finalize, SeekHeader, WriteCount, WriteHash, Sync
    <3> QED
      BY <1>1, <2>1, <2>2, <3>1 DEF DurableOK, Finalizing
  <2>3. CASE pc' \in {"count", "hash"}
    <3>1. isOpen /\ durable' = durable
      BY <1>4, <2>1, <2>3 DEF Finalize, FinalizeFail, SeekHeader, WriteCount,
         WriteHash, Sync, DurableOK
    <3> QED
      BY <1>1, <2>1, <2>3, <3>1 DEF DurableOK, Finalizing
  <2>4. CASE pc' = "sync"
    <3>1. pc = "hash" /\ SealHeader /\ durable' = durable
      BY <1>4, <2>4 DEF Finalize, FinalizeFail, SeekHeader, WriteCount, WriteHash, Sync
    <3>2. IsSealed(currentSegment)'
      BY <2>1, <3>1 DEF SealHeader, Sealed, IsSealed, SegmentFiles
    <3> QED
      BY <1>1, <2>1, <2>4, <3>1, <3>2 DEF DurableOK
  <2> QED
    BY <1>4, <2>2, <2>3, <2>4 DEF Finalize, FinalizeFail, SeekHeader, WriteCount,
       WriteHash, Sync
<1>5. CASE Close
  <2>1. ~isOpen' /\ pc' \in {"idle", "create"}
    BY <1>5 DEF Close, Fail
  <2> QED
    BY <1>1, <2>1 DEF DurableOK
<1>6. CASE Create
  <2>1. ~isOpen' /\ pc' \in {"idle", "placeholder"}
    BY <1>6 DEF Create, CreateOk, CreateFail, Fail, memory, DurableOK
  <2> QED
    BY <1>1, <2>1 DEF DurableOK
<1>7. CASE Placeholder
  <2>1. /\ pc' \in {"idle", "size", "return"} /\ durable' = durable
        /\ ~isOpen' \/ (currentSegment' = fresh /\ fresh # None /\ fresh \notin durable)
    BY <1>7 DEF Placeholder, PlaceholderOk, PlaceholderFail, Fail, memory,
       history, DurableOK, IInv, CallOK
  <2> QED
    BY <1>1, <2>1 DEF DurableOK
<1>8. CASE Crash
  <2>1. ~isOpen' /\ pc' = "idle"
    BY <1>8 DEF Crash
  <2> QED
    BY <1>1, <2>1 DEF DurableOK
<1> QED
  BY <1>2, <1>3, <1>4, <1>5, <1>6, <1>7, <1>8 DEF Next

\* So it holds throughout.
LEMMA DurableInvariant == Spec => []DurableOK
BY InitDurable, StepDurable, Invariant, PTL DEF Spec

\* When names do not repeat, a segment whose seal has been synced stays as it
\* is, whatever fails, whenever the process dies and whatever a power cut takes
\* from the others (lines 278-345).
THEOREM SealedSegmentsStay == ~SameSecond => (Spec => SealedForever)
<1> SUFFICES ASSUME ~SameSecond PROVE Spec => SealedForever
  OBVIOUS
<1>1. IInv /\ DurableOK /\ [Next]_vars
          => [\A t \in durable : t \in durable' /\ files'[t] = files[t]]_vars
  BY DurableKept
<1> QED
  BY <1>1, Invariant, DurableInvariant, PTL DEF Spec, SealedForever

-----------------------------------------------------------------------------
(* Segments that are left without a complete seal.                         *)

Unsynced == DOMAIN files \ durable

\* The segment a call or the next one is about to write to; the others are
\* left behind.
inUse == IF pc = "placeholder" THEN fresh ELSE currentSegment
Abandoned == Unsynced \ {inUse}

\* Whoever leaves a segment has synced it, unless it has just been emptied.
LeftDurable ==
    /\ pc = "close" /\ isOpen => currentSegment \in durable
    /\ pc = "create" /\ currentSegment # None => currentSegment \in durable
    /\ pc = "placeholder" /\ currentSegment # None
          => currentSegment \in durable \/ currentSegment = fresh

UnsealedInv == LeftDurable /\ Cardinality(Abandoned) <= crashes

\* The system calls that complete a seal do not fail.
HeadersWork == IOFaults \cap {"seek", "header", "sync", "placeholder"} = {}

\* The directory is finite, and so is every part of it.
LEMMA UnsyncedFinite ==
    ASSUME IInv
    PROVE  IsFiniteSet(Unsynced) /\ IsFiniteSet(Abandoned)
<1>1. Unsynced \in SUBSET (0 .. now) /\ Abandoned \in SUBSET (0 .. now)
  BY DEF IInv, TypeOK, Unsynced, Abandoned
<1>2. now \in Int
  BY DEF IInv, TypeOK, Times
<1>3. IsFiniteSet(0 .. now)
  BY <1>2, FS_Interval
<1> QED
  BY <1>1, <1>3, FS_Subset

\* One segment that is left behind for a crash.
LEMMA OneMore ==
    ASSUME NEW S, IsFiniteSet(S), NEW x, NEW T \in SUBSET (S \cup {x})
    PROVE  Cardinality(T) \in Nat /\ Cardinality(T) <= Cardinality(S) + 1
<1>1. /\ IsFiniteSet(S \cup {x}) /\ Cardinality(S) \in Nat
      /\ Cardinality(S \cup {x}) = IF x \in S THEN Cardinality(S) ELSE Cardinality(S) + 1
  BY FS_AddElement, FS_CardinalityType
<1>2. /\ IsFiniteSet(T) /\ Cardinality(T) <= Cardinality(S \cup {x})
  BY <1>1, FS_Subset
<1>3. Cardinality(T) \in Nat
  BY <1>2, FS_CardinalityType
<1> QED
  BY <1>1, <1>2, <1>3

\* A step that abandons nothing keeps the count.
LEMMA FewerAbandoned ==
    ASSUME IInv, UnsealedInv, Abandoned' \subseteq Abandoned, crashes' = crashes
    PROVE  Cardinality(Abandoned') <= crashes'
<1>1. IsFiniteSet(Abandoned)
  BY UnsyncedFinite
<1>2. /\ Cardinality(Abandoned') <= Cardinality(Abandoned)
      /\ IsFiniteSet(Abandoned')
  BY <1>1, FS_Subset
<1>3. /\ Cardinality(Abandoned') \in Nat /\ Cardinality(Abandoned) \in Nat
      /\ crashes \in Nat
  BY <1>1, <1>2, FS_CardinalityType DEF IInv, TypeOK
<1>4. Cardinality(Abandoned) <= crashes
  BY DEF UnsealedInv
<1> QED
  BY <1>2, <1>3, <1>4

\* The calls and the writes of frames.
LEMMA WritesUnsealed ==
    ASSUME IInv, UnsealedInv,
           \/ UNCHANGED vars \/ Tick \/ Start \/ Stop
           \/ (\E i \in Items : StoreItem(i)) \/ Return \/ WriteSize \/ WriteData
    PROVE  LeftDurable' /\ Cardinality(Abandoned') <= crashes'
<1>1. /\ UNCHANGED <<currentSegment, isOpen, fresh, crashes, durable>>
      /\ \/ pc' = pc
         \/ /\ pc \notin {"close", "create", "placeholder"}
            /\ \/ pc' \notin {"close", "create", "placeholder"}
               \/ pc' = "create" /\ currentSegment = None
  BY DEF vars, memory, call, history, Tick, Start, Stop, StoreItem, Return,
     WriteSize, WriteSizeOk, WriteSizeFail, WriteData, WriteDataOk,
     WriteDataFail, Fail
<1>2. DOMAIN files' = DOMAIN files
  BY DEF vars, Tick, Start, Stop, StoreItem, Return, WriteSize, WriteSizeOk,
     WriteSizeFail, WriteData, WriteDataOk, WriteDataFail
<1>3. Abandoned' \subseteq Abandoned
  BY <1>1, <1>2 DEF Abandoned, Unsynced, inUse
<1>4. LeftDurable'
  BY <1>1 DEF UnsealedInv, LeftDurable
<1> QED
  BY <1>1, <1>3, <1>4, FewerAbandoned

\* A rotation and Stop: sealed, synced, closed, and the next one created.
LEMMA RotationUnsealed ==
    ASSUME HeadersWork, IInv, DurableOK, UnsealedInv,
           Finalize \/ Close \/ Create \/ Placeholder
    PROVE  LeftDurable' /\ Cardinality(Abandoned') <= crashes'
<1>1. /\ None \notin DOMAIN files
      /\ ~May("seek") /\ ~May("header") /\ ~May("sync") /\ ~May("placeholder")
      /\ crashes' = crashes
  BY DLQAssumption DEF IInv, TypeOK, Times, DLQAssumption, HeadersWork, May,
     Finalize, Close, Create, Placeholder, history
<1>2. ASSUME LeftDurable', Abandoned' \subseteq Abandoned
      PROVE  LeftDurable' /\ Cardinality(Abandoned') <= crashes'
  BY <1>1, <1>2, FewerAbandoned
<1>3. CASE Finalize
  <2>1. /\ UNCHANGED <<currentSegment, isOpen>> /\ pc # "placeholder"
        /\ DOMAIN files' = DOMAIN files
        /\ durable \subseteq durable'
        /\ \/ pc' \in {"idle", "count", "hash", "sync"}
           \/ pc' = "close" /\ (~isOpen \/ currentSegment \in durable')
    BY <1>1, <1>3 DEF Finalize, SeekHeader, WriteCount, WriteHash, Sync,
       FinalizeFail, TearHeader, SealHeader
  <2>2. LeftDurable'
    BY <2>1 DEF LeftDurable
  <2>3. Abandoned' \subseteq Abandoned
    BY <2>1 DEF Abandoned, Unsynced, inUse
  <2> QED
    BY <1>2, <2>2, <2>3
<1>4. CASE Close
  <2>1. /\ pc = "close" /\ UNCHANGED <<files, durable>> /\ isOpen' = FALSE
        /\ \/ pc' = "idle" /\ currentSegment' = currentSegment
           \/ /\ isOpen /\ pc' = "idle" /\ currentSegment' = None
           \/ /\ isOpen /\ pc' = "create" /\ currentSegment' = currentSegment
    BY <1>4 DEF Close, Fail, history
  <2>2. isOpen => currentSegment \in durable
    BY <2>1 DEF UnsealedInv, LeftDurable
  <2>3. LeftDurable'
    BY <2>1, <2>2 DEF LeftDurable
  <2>4. Abandoned' \subseteq Abandoned
    BY <2>1, <2>2 DEF Abandoned, Unsynced, inUse
  <2> QED
    BY <1>2, <2>3, <2>4
<1>5. CASE Create
  <2>1. /\ pc = "create" /\ UNCHANGED <<currentSegment, isOpen>>
        /\ currentSegment # None => currentSegment \in durable
    BY <1>5 DEF Create, memory, UnsealedInv, LeftDurable
  <2>2. CASE CreateOk
    <3>1. /\ pc' = "placeholder" /\ fresh' = now
          /\ DOMAIN files' = DOMAIN files \cup {now}
          /\ durable' = durable \ {now}
      BY <2>2 DEF CreateOk
    <3>2. LeftDurable'
      BY <2>1, <3>1 DEF LeftDurable
    <3>3. Abandoned' \subseteq Abandoned
      BY <1>1, <2>1, <3>1 DEF Abandoned, Unsynced, inUse
    <3> QED
      BY <1>2, <3>2, <3>3
  <2>3. CASE CreateFail
    <3>1. pc' = "idle" /\ UNCHANGED <<files, durable>>
      BY <2>3 DEF CreateFail, Fail
    <3>2. LeftDurable'
      BY <3>1 DEF LeftDurable
    <3>3. Abandoned' \subseteq Abandoned
      BY <2>1, <3>1 DEF Abandoned, Unsynced, inUse
    <3> QED
      BY <1>2, <3>2, <3>3
  <2> QED
    BY <1>5, <2>2, <2>3 DEF Create
<1>6. CASE Placeholder
  <2>1. /\ pc = "placeholder" /\ PlaceholderOk /\ UNCHANGED durable
        /\ caller \in {"start", "ensure", "rotate"}
        /\ currentSegment # None
              => currentSegment \in durable \/ currentSegment = fresh
    BY <1>1, <1>6 DEF Placeholder, PlaceholderFail, IInv, CallOK,
       UnsealedInv, LeftDurable, history
  <2>2. /\ pc' \in {"idle", "size", "return"} /\ currentSegment' = fresh
        /\ DOMAIN files' = DOMAIN files
    BY <2>1 DEF PlaceholderOk
  <2>3. LeftDurable'
    BY <2>2 DEF LeftDurable
  <2>4. Abandoned' \subseteq Abandoned
    BY <2>1, <2>2 DEF Abandoned, Unsynced, inUse
  <2> QED
    BY <1>2, <2>3, <2>4
<1> QED
  BY <1>3, <1>4, <1>5, <1>6

\* A crash leaves what was in use, and is counted.
LEMMA CrashUnsealed ==
    ASSUME IInv, UnsealedInv, Crash
    PROVE  LeftDurable' /\ Cardinality(Abandoned') <= crashes'
<1>1. /\ pc' = "idle" /\ crashes' = crashes + 1 /\ crashes \in Nat
      /\ DOMAIN files' = DOMAIN files /\ durable' = durable
  BY DEF Crash, PowerCut, IInv, TypeOK
<1>2. Abandoned' \subseteq Abandoned \cup {inUse}
  BY <1>1 DEF Abandoned, Unsynced
<1>3. IsFiniteSet(Abandoned)
  BY UnsyncedFinite
<1>4. /\ Cardinality(Abandoned') \in Nat
      /\ Cardinality(Abandoned') <= Cardinality(Abandoned) + 1
      /\ Cardinality(Abandoned) \in Nat
  BY <1>2, <1>3, OneMore, FS_CardinalityType
<1>5. Cardinality(Abandoned) <= crashes
  BY DEF UnsealedInv
<1>6. LeftDurable'
  BY <1>1 DEF LeftDurable
<1> QED
  BY <1>1, <1>4, <1>5, <1>6

\* As long as seeks, headers, placeholders and Sync work, only a crash leaves a
\* segment without a complete seal: there is at most one for each crash and the
\* one in use, whatever else fails, when names repeat, and when the power goes,
\* so that much is all a power cut can ever damage (lines 278-345).
THEOREM FewUnsealed == HeadersWork => (Spec => []UnsealedBound)
<1> SUFFICES ASSUME HeadersWork PROVE Spec => []UnsealedBound
  OBVIOUS
<1>1. Init => UnsealedInv
  <2> SUFFICES ASSUME Init PROVE UnsealedInv
    OBVIOUS
  <2>1. Abandoned = {}
    BY DEF Init, Abandoned, Unsynced
  <2> QED
    BY <2>1, FS_EmptySet DEF Init, UnsealedInv, LeftDurable
<1>2. IInv /\ DurableOK /\ UnsealedInv /\ [Next]_vars => UnsealedInv'
  BY WritesUnsealed, RotationUnsealed, CrashUnsealed DEF Next, UnsealedInv
<1>3. IInv /\ DurableOK /\ UnsealedInv => UnsealedBound
  <2> SUFFICES ASSUME IInv, DurableOK, UnsealedInv PROVE UnsealedBound
    OBVIOUS
  <2> DEFINE open == {t \in DOMAIN files : ~IsSealed(t) \/ t \notin durable}
  <2>1. IsFiniteSet(Abandoned) /\ open \subseteq Abandoned \cup {inUse}
    BY UnsyncedFinite DEF Abandoned, Unsynced, DurableOK
  <2>2. /\ Cardinality(open) \in Nat /\ Cardinality(Abandoned) \in Nat
        /\ Cardinality(open) <= Cardinality(Abandoned) + 1
    <3> HIDE DEF open
    <3> QED
      BY <2>1, OneMore, FS_CardinalityType
  <2>3. crashes \in Nat /\ Cardinality(Abandoned) <= crashes
    BY DEF IInv, TypeOK, UnsealedInv
  <2>4. Cardinality(open) <= crashes + 1
    BY <2>2, <2>3
  <2> QED
    BY <2>4 DEF UnsealedBound
<1> QED
  BY <1>1, <1>2, <1>3, Invariant, DurableInvariant, PTL DEF Spec
=============================================================================
