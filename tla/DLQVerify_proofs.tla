--------------------------- MODULE DLQVerify_proofs ---------------------------
(***************************************************************************)
(* For any items, faults, crashes and power cuts: the verifier, which      *)
(* takes no lock, looks only at segments that exist and, when names do not *)
(* repeat, never passes one that is damaged.  The reason is narrow: the    *)
(* two sides hash different bytes, so only an empty segment can pass, and  *)
(* the header of a segment that was sealed empty never changes again.      *)
(***************************************************************************)
EXTENDS DLQVerify, DLQStorage_proofs

-----------------------------------------------------------------------------
(* The invariants.                                                         *)

\* The hash runs ahead of the count, and a rotation has something to seal.
HashAhead ==
    /\ currentItemCount + (IF pc = "data" THEN 1 ELSE 0) <= Len(hasher)
    /\ pc \in Finalizing /\ caller = "rotate" => hasher # <<>>
    /\ pc \in {"data", "count", "hash", "sync"} => isOpen

\* A header as it is sealed from the memory.
Countable(h) == h.kind = "sealed" => h.count <= Len(h.hash)

SealedEmpty(h) == h.kind = "sealed" /\ h.hash = <<>>

\* Only Stop seals an empty segment, and nothing is written to it afterwards.
EmptyLeft ==
    /\ \A t \in DOMAIN files : Countable(files[t].header)
    /\ currentSegment # None /\ SealedEmpty(files[currentSegment].header)
          => ~isOpen \/ (pc \in {"sync", "close"} /\ caller = "stop")

EmptyInv == HashAhead /\ EmptyLeft

\* The verifier's list is one of segments, and its header is one.
ListOK ==
    /\ vpc \in {"off", "sleeping", "guard", "name", "open", "hash", "panic"}
    /\ listed \subseteq DOMAIN files
    /\ vpc \in {"guard", "name", "open", "hash"} => listed # {}
    /\ header \in Headers
    /\ verdict.segment \in DOMAIN files \cup {None}

\* The header of a segment sealed empty is still that of the file.
HeaderFresh ==
    vpc = "hash" /\ SealedEmpty(header) => files[segment].header = header

VerdictInv == EmptyInv /\ HeaderFresh /\ VerdictSound

-----------------------------------------------------------------------------
(* What the writer seals.                                                  *)

LEMMA StepHashAhead ==
    ASSUME IInv, HashAhead, [Next]_vars
    PROVE  HashAhead'
<1>1. /\ hasher \in Seq(Items) /\ Len(hasher) \in Nat
      /\ currentItemCount \in Nat
  BY LenProperties DEF IInv, TypeOK
<1>2. CASE \/ UNCHANGED vars \/ Tick \/ Start \/ Stop
           \/ (\E i \in Items : StoreItem(i)) \/ Return
  <2>1. /\ UNCHANGED <<hasher, currentItemCount, isOpen>>
        /\ \/ UNCHANGED <<pc, caller>>
           \/ /\ pc' \in {"create", "size", "idle"}
              /\ pc \in {"idle", "return"}
           \/ pc' = "finalize" /\ caller' = "stop" /\ pc = "idle"
    BY <1>2 DEF vars, memory, call, Tick, Start, Stop, StoreItem, Return
  <2> QED
    BY <1>1, <2>1 DEF HashAhead, Finalizing
<1>3. CASE WriteSize
  <2>1. /\ hasher' = Append(hasher, item) /\ currentItemCount' = currentItemCount
        /\ pc' \in {"data", "idle"} /\ pc = "size"
        /\ pc' = "data" => isOpen'
    BY <1>3 DEF WriteSize, WriteSizeOk, WriteSizeFail, Fail
  <2>2. item \in Items
    BY <2>1 DEF IInv, CallOK, TypeOK
  <2>3. Len(hasher') = Len(hasher) + 1
    BY <1>1, <2>1, <2>2, AppendProperties
  <2> QED
    BY <1>1, <2>1, <2>3 DEF HashAhead, Finalizing
<1>4. CASE WriteData
  <2>1. /\ hasher' = hasher /\ pc = "data"
        /\ currentItemCount' \in {currentItemCount, currentItemCount + 1}
        /\ pc' \in {"idle", "return", "finalize"}
    BY <1>4 DEF WriteData, WriteDataOk, WriteDataFail, Fail
  <2>2. hasher # <<>>
    <3>1. Len(hasher) # 0
      BY <1>1, <2>1 DEF HashAhead
    <3> QED
      BY <3>1
  <2> QED
    BY <1>1, <2>1, <2>2 DEF HashAhead, Finalizing
<1>5. CASE Finalize
  <2>1. /\ UNCHANGED <<hasher, currentItemCount, caller, isOpen>>
        /\ pc \in Finalizing
        /\ \/ pc' \in {"idle", "close"}
           \/ pc = "finalize" /\ pc' = "count" /\ isOpen
           \/ pc \in {"count", "hash"} /\ pc' \in {"hash", "sync"}
    BY <1>5 DEF Finalize, FinalizeFail, SeekHeader, WriteCount, WriteHash, Sync,
       Finalizing, call
  <2> QED
    BY <1>1, <2>1 DEF HashAhead, Finalizing
<1>6. CASE Close \/ Create
  <2>1. /\ UNCHANGED <<hasher, currentItemCount>>
        /\ pc' \in {"idle", "create", "placeholder"}
        /\ pc \in {"close", "create"}
    BY <1>6 DEF Close, Create, CreateOk, CreateFail, Fail, memory
  <2> QED
    BY <1>1, <2>1 DEF HashAhead, Finalizing
<1>7. CASE Placeholder
  <2>1. CASE PlaceholderOk
    <3>1. /\ hasher' = <<>> /\ currentItemCount' = 0
          /\ pc' \in {"idle", "size", "return"}
      BY <1>7, <2>1 DEF Placeholder, PlaceholderOk, IInv, CallOK
    <3> QED
      BY <3>1, EmptySeq DEF HashAhead, Finalizing
  <2>2. CASE PlaceholderFail
    <3>1. UNCHANGED <<hasher, currentItemCount>> /\ pc' = "idle" /\ pc = "placeholder"
      BY <1>7, <2>2 DEF Placeholder, PlaceholderFail, Fail, memory
    <3> QED
      BY <1>1, <3>1 DEF HashAhead, Finalizing
  <2> QED
    BY <1>7, <2>1, <2>2 DEF Placeholder
<1>8. CASE Crash
  <2>1. hasher' = <<>> /\ currentItemCount' = 0 /\ pc' = "idle"
    BY <1>8 DEF Crash
  <2> QED
    BY <2>1, EmptySeq DEF HashAhead, Finalizing
<1> QED
  BY <1>2, <1>3, <1>4, <1>5, <1>6, <1>7, <1>8 DEF Next

\* Files whose headers stay, or become one that is not sealed, ...
LEMMA HeadersKept ==
    ASSUME EmptyLeft,
           \A t \in DOMAIN files' :
               \/ t \in DOMAIN files /\ files'[t].header = files[t].header
               \/ files'[t].header.kind # "sealed",
           currentSegment' = currentSegment \/ currentSegment' = None,
           isOpen' = isOpen \/ isOpen' = FALSE,
           \/ isOpen' = FALSE \/ pc \notin {"sync", "close"}
           \/ pc' \in {"sync", "close"} /\ UNCHANGED caller,
           currentSegment # None => currentSegment \in DOMAIN files'
    PROVE  EmptyLeft'
BY DEF EmptyLeft, Countable, SealedEmpty

\* A header is written from the memory in one place only.
LEMMA StepEmptyLeft ==
    ASSUME IInv, EmptyInv, [Next]_vars
    PROVE  EmptyLeft'
<1>0. /\ files \in [DOMAIN files -> SegmentFiles]
      /\ currentSegment # None => currentSegment \in DOMAIN files
      /\ EmptyLeft /\ HashAhead
  BY DEF IInv, TypeOK, EmptyInv
<1>1. ASSUME UNCHANGED <<files, currentSegment>>,
             isOpen' = isOpen \/ isOpen' = FALSE,
             \/ isOpen' = FALSE \/ pc \notin {"sync", "close"}
             \/ pc' \in {"sync", "close"} /\ UNCHANGED caller
      PROVE  EmptyLeft'
  BY <1>0, <1>1, HeadersKept
<1>2. CASE \/ UNCHANGED vars \/ Tick \/ Start \/ Stop
           \/ (\E i \in Items : StoreItem(i)) \/ Return
  BY <1>1, <1>2 DEF vars, memory, call, Tick, Start, Stop, StoreItem, Return
<1>3. CASE WriteSize \/ WriteData
  <2>1. /\ currentSegment # None /\ pc \notin {"sync", "close"}
        /\ UNCHANGED <<currentSegment, isOpen>>
    BY <1>3 DEF WriteSize, WriteData, IInv, CallOK
  <2>2. \/ UNCHANGED files
        \/ files' = [files EXCEPT ![currentSegment].header = Blank("torn")]
        \/ \E b : files' = [files EXCEPT ![currentSegment].body = b]
    BY <1>3 DEF WriteSize, WriteSizeOk, WriteSizeFail, WriteData, WriteDataOk,
       WriteDataFail
  <2>3. CASE UNCHANGED files
    BY <1>1, <2>1, <2>3
  <2>4. CASE files' = [files EXCEPT ![currentSegment].header = Blank("torn")]
    <3>1. \A t \in DOMAIN files' : t \in DOMAIN files /\
             (files'[t].header = files[t].header \/ files'[t].header = Blank("torn"))
      BY <1>0, <2>1, <2>4, HeaderTypes, HeaderWritten
    <3> QED
      BY <1>0, <2>1, <2>4, <3>1, HeadersKept DEF Blank
  <2>5. ASSUME NEW b, files' = [files EXCEPT ![currentSegment].body = b]
        PROVE  EmptyLeft'
    <3>1. \A t \in DOMAIN files' : t \in DOMAIN files /\
             files'[t].header = files[t].header
      BY <1>0, <2>1, <2>5 DEF SegmentFiles
    <3> QED
      BY <1>0, <2>1, <2>5, <3>1, HeadersKept
  <2> QED
    BY <2>2, <2>3, <2>4, <2>5
<1>4. CASE Finalize
  <2>1. /\ currentSegment # None
        /\ UNCHANGED <<currentSegment, isOpen, caller>>
        /\ caller \in {"rotate", "stop"}
        /\ pc \in Finalizing
    BY <1>4 DEF Finalize, SeekHeader, WriteCount, WriteHash, Sync, Finalizing, IInv,
       CallOK, call
  <2>2. CASE UNCHANGED files
    <3>1. pc # "sync" \/ pc' = "close" \/ caller = "rotate"
      BY <1>4, <2>1 DEF Finalize, FinalizeFail, SeekHeader, WriteCount, WriteHash, Sync
    <3>2. ~SealedEmpty(files[currentSegment].header) \/ pc # "sync" \/ pc' = "close"
      BY <1>0, <2>1, <3>1 DEF EmptyLeft, HashAhead
    <3>3. \/ ~isOpen
          \/ ~SealedEmpty(files[currentSegment].header)
          \/ pc' = "close" /\ caller = "stop"
      BY <1>0, <2>1, <3>2 DEF EmptyLeft, Finalizing
    <3> QED
      BY <1>0, <2>1, <2>2, <3>3 DEF EmptyLeft
  <2>3. CASE pc = "count" /\ TearHeader
    <3>1. /\ DOMAIN files' = DOMAIN files
          /\ \A t \in DOMAIN files :
                files'[t].header = files[t].header \/ files'[t].header = Blank("torn")
      BY <1>0, <2>1, <2>3, HeaderTypes, HeaderWritten DEF TearHeader
    <3> QED
      BY <1>0, <2>1, <2>3, <3>1, HeadersKept DEF Blank
  <2>4. CASE pc = "hash" /\ SealHeader /\ pc' = "sync"
    <3> DEFINE h == Sealed(currentItemCount, hasher)
    <3>1. currentItemCount \in Nat /\ hasher \in Seq(Items) /\ Len(hasher) \in Nat
      BY LenProperties DEF IInv, TypeOK
    <3>2. h \in Headers
      BY <3>1, HeaderTypes
    <3>3. h.hash = hasher /\ Countable(h)
      <4>1. currentItemCount <= Len(hasher)
        BY <1>0, <2>1, <3>1 DEF HashAhead
      <4> QED
        BY <4>1 DEF Sealed, Countable
    <3>4. files' = [files EXCEPT ![currentSegment].header = h]
      BY <2>4 DEF SealHeader
    <3> HIDE DEF h
    <3>5. /\ DOMAIN files' = DOMAIN files /\ files'[currentSegment].header = h
          /\ \A t \in DOMAIN files \ {currentSegment} : files'[t] = files[t]
      BY <1>0, <2>1, <3>2, <3>4, HeaderWritten
    <3>6. h.hash = <<>> => pc' = "sync" /\ caller' = "stop"
      BY <1>0, <2>1, <2>4, <3>3 DEF HashAhead
    <3> QED
      BY <1>0, <2>1, <3>3, <3>5, <3>6 DEF EmptyLeft, SealedEmpty
  <2> QED
    BY <1>4, <2>2, <2>3, <2>4 DEF Finalize, SeekHeader, WriteCount, WriteHash, Sync
<1>5. CASE Close
  <2>1. UNCHANGED files /\ isOpen' = FALSE
        /\ (currentSegment' = currentSegment \/ currentSegment' = None)
    BY <1>5 DEF Close
  <2> QED
    BY <1>0, <2>1, HeadersKept
<1>6. CASE Create
  <2>1. UNCHANGED <<currentSegment, isOpen>> /\ pc = "create"
    BY <1>6 DEF Create, memory
  <2>2. CASE CreateOk
    <3>1. \A t \in DOMAIN files' :
             \/ t \in DOMAIN files /\ files'[t].header = files[t].header
             \/ files'[t].header.kind # "sealed"
      BY <2>2 DEF CreateOk, EmptyFile, Blank
    <3>2. DOMAIN files \subseteq DOMAIN files'
      BY <2>2 DEF CreateOk
    <3> QED
      BY <1>0, <2>1, <3>1, <3>2, HeadersKept
  <2>3. CASE CreateFail
    BY <1>1, <2>1, <2>3 DEF CreateFail
  <2> QED
    BY <1>6, <2>2, <2>3 DEF Create
<1>7. CASE Placeholder
  <2>1. fresh \in DOMAIN files /\ pc = "placeholder"
    BY <1>7 DEF Placeholder, IInv, CallOK, TypeOK
  <2>2. ASSUME NEW kind \in {"placeholder", "torn"},
               files' = [files EXCEPT ![fresh].header = Blank(kind)]
        PROVE  /\ DOMAIN files' = DOMAIN files
               /\ files'[fresh].header.kind # "sealed"
               /\ \A t \in DOMAIN files \ {fresh} : files'[t] = files[t]
    <3>1. Blank(kind) \in Headers /\ Blank(kind).kind # "sealed"
      BY HeaderTypes DEF Blank
    <3> QED
      BY <1>0, <2>1, <2>2, <3>1, HeaderWritten
  <2>3. CASE PlaceholderOk
    <3>1. /\ DOMAIN files' = DOMAIN files
          /\ files'[fresh].header.kind # "sealed"
          /\ \A t \in DOMAIN files \ {fresh} : files'[t] = files[t]
          /\ currentSegment' = fresh
      BY <2>2, <2>3 DEF PlaceholderOk
    <3> QED
      BY <1>0, <3>1 DEF EmptyLeft, SealedEmpty, Countable
  <2>4. CASE PlaceholderFail
    <3>1. UNCHANGED <<currentSegment, isOpen>>
      BY <2>4 DEF PlaceholderFail, memory
    <3>2. CASE UNCHANGED files
      BY <1>1, <2>1, <3>1, <3>2
    <3>3. CASE files' = [files EXCEPT ![fresh].header = Blank("torn")]
      <4>1. /\ DOMAIN files' = DOMAIN files
            /\ files'[fresh].header.kind # "sealed"
            /\ \A t \in DOMAIN files \ {fresh} : files'[t] = files[t]
        BY <2>2, <3>3
      <4> QED
        BY <1>0, <2>1, <3>1, <4>1, HeadersKept
    <3> QED
      BY <2>4, <3>2, <3>3 DEF PlaceholderFail
  <2> QED
    BY <1>7, <2>3, <2>4 DEF Placeholder
<1>8. CASE Crash
  <2>1. /\ DOMAIN files' = DOMAIN files
        /\ \A t \in DOMAIN files : \/ files'[t].header = files[t].header
                                   \/ files'[t].header.kind # "sealed"
    <3>1. CASE UNCHANGED files
      BY <3>1
    <3>2. CASE PowerCut
      <4>1. \A t \in DOMAIN files : \A left \in Remains(files[t]) :
               left.header = files[t].header \/ left.header.kind # "sealed"
        BY DEF Remains, EmptyFile, Blank
      <4> QED
        BY <1>0, <3>2, <4>1, PowerCutFiles
    <3> QED
      BY <1>8, <3>1, <3>2 DEF Crash
  <2>2. currentSegment' = None /\ isOpen' = FALSE
    BY <1>8 DEF Crash
  <2> QED
    BY <1>0, <2>1, <2>2, HeadersKept
<1> QED
  BY <1>2, <1>3, <1>4, <1>5, <1>6, <1>7, <1>8 DEF Next

\* The header of a segment that was sealed empty stays while the process runs.
LEMMA EmptyStays ==
    ASSUME ~SameSecond, IInv, EmptyInv, Writer \/ UNCHANGED vars,
           NEW t \in DOMAIN files, SealedEmpty(files[t].header)
    PROVE  t \in DOMAIN files' /\ files'[t].header = files[t].header
<1>1. IsSealed(t) /\ files \in [DOMAIN files -> SegmentFiles]
  BY DEF SealedEmpty, IsSealed, IInv, TypeOK
<1>2. CASE \/ UNCHANGED vars \/ Tick \/ Start \/ Stop
           \/ (\E i \in Items : StoreItem(i)) \/ Return \/ Close
  BY <1>2 DEF vars, Tick, Start, Stop, StoreItem, Return, Close
<1>3. CASE WriteSize \/ WriteData \/ Finalize
  <2>1. /\ pc \in {"size", "data"} \cup Finalizing
        /\ currentSegment # None
        /\ pc \in {"data", "count", "hash"} => isOpen
    BY <1>3 DEF WriteSize, WriteData, Finalize, SeekHeader, WriteCount, WriteHash,
       Sync, Finalizing, IInv, CallOK, EmptyInv, HashAhead
  <2>2. t = currentSegment => ~isOpen \/ pc \in {"sync", "close"}
    BY <2>1 DEF EmptyInv, EmptyLeft
  <2>3. \/ UNCHANGED files
        \/ /\ isOpen /\ pc \notin {"sync", "close"}
           /\ \/ \E h : files' = [files EXCEPT ![currentSegment].header = h]
              \/ \E b : files' = [files EXCEPT ![currentSegment].body = b]
    BY <1>3, <2>1 DEF WriteSize, WriteSizeOk, WriteSizeFail, WriteData, WriteDataOk,
       WriteDataFail, Finalize, SeekHeader, WriteCount, WriteHash, Sync,
       TearHeader, SealHeader
  <2> QED
    BY <1>1, <2>2, <2>3
<1>4. CASE Create
  BY <1>4 DEF Create, CreateOk, CreateFail
<1>5. CASE Placeholder
  <2>1. fresh # t
    BY <1>1, <1>5 DEF Placeholder, IInv, CallOK
  <2> QED
    BY <1>1, <1>5, <2>1 DEF Placeholder, PlaceholderOk, PlaceholderFail
<1> QED
  BY <1>2, <1>3, <1>4, <1>5 DEF Writer

-----------------------------------------------------------------------------
(* The verifier.                                                           *)

\* Every step of the verifier is a step of the writer or leaves it alone.
LEMMA VerifyStep == [VerifyNext]_allVars => [Next]_vars
BY DEF VerifyNext, allVars, Writer, Next, VerifierCrash, Quit, List, Guard, Name,
   ReadHeader, CompareHash

\* Verification only reads: whatever is proved of the write path holds while
\* segments are verified, in particular that those whose seal has been synced
\* never change under the verifier's eyes (lines 365-450).
THEOREM VerifyKeepsStorage ==
    /\ VerifySpec => Spec
    /\ ~SameSecond => (VerifySpec => SealedForever)
<1>1. VerifyInit => Init
  BY DEF VerifyInit
<1>2. [VerifyNext]_allVars => [Next]_vars
  BY VerifyStep
<1>3. VerifySpec => Spec
  BY <1>1, <1>2, PTL DEF VerifySpec, Spec
<1>4. ~SameSecond => (Spec => SealedForever)
  BY SealedSegmentsStay
<1> QED
  BY <1>3, <1>4, PTL

\* The oldest segment of a list that is not empty is on it.
LEMMA SegmentListed ==
    ASSUME IInv, ListOK, listed # {}
    PROVE  segment \in listed /\ segment \in DOMAIN files
<1>1. listed \in SUBSET Nat
  BY DEF IInv, TypeOK, Times, ListOK
<1>2. \E t \in listed : \A u \in listed : t <= u
  BY <1>1, LeastNatural
<1> QED
  BY <1>2 DEF segment, ListOK

LEMMA StepListOK ==
    ASSUME IInv, ListOK, [VerifyNext]_allVars
    PROVE  ListOK'
<1>1. DOMAIN files \subseteq DOMAIN files'
  BY VerifyStep, DirectoryKept
<1>2. CASE (Writer /\ Launch) \/ UNCHANGED allVars
  BY <1>1, <1>2 DEF ListOK, Launch, allVars, verifierVars
<1>3. CASE VerifierCrash
  BY <1>1, <1>3, HeaderTypes DEF VerifierCrash, ListOK
<1>4. CASE Quit \/ List \/ Guard
  BY <1>4 DEF Quit, List, Guard, ListOK, vars
<1>5. CASE Name
  BY <1>5 DEF Name, Move, ListOK, vars
<1>6. CASE ReadHeader
  <2>1. segment \in DOMAIN files
    BY <1>6, SegmentListed DEF ReadHeader, ListOK
  <2>2. files[segment].header \in Headers
    BY <2>1 DEF IInv, TypeOK, SegmentFiles
  <2> QED
    BY <1>6, <2>2 DEF ReadHeader, ListOK, vars
<1>7. CASE CompareHash
  <2>1. segment \in DOMAIN files
    BY <1>7, SegmentListed DEF CompareHash, ListOK
  <2>2. verdict'.segment = segment
    BY <1>7 DEF CompareHash
  <2> QED
    BY <1>7, <2>1, <2>2 DEF CompareHash, Move, ListOK, vars
<1> QED
  BY <1>2, <1>3, <1>4, <1>5, <1>6, <1>7 DEF VerifyNext

LEMMA VerifyInvariant == VerifySpec => [](IInv /\ ListOK)
<1>1. VerifyInit => IInv /\ ListOK
  <2> SUFFICES ASSUME VerifyInit PROVE IInv /\ ListOK
    OBVIOUS
  <2>1. verdict.segment = None
    BY DEF VerifyInit, NoVerdict
  <2> QED
    BY <2>1, InitIInv, HeaderTypes DEF VerifyInit, ListOK
<1>2. IInv /\ ListOK /\ [VerifyNext]_allVars => (IInv /\ ListOK)'
  BY VerifyStep, StepIInv, StepListOK
<1> QED
  BY <1>1, <1>2, PTL DEF VerifySpec

\* The verifier, which lists the directory once and then goes by its list,
\* only ever opens and judges segments that exist, whatever the writer does
\* in between (lines 374-450).
THEOREM VerifyTypeCorrect == VerifySpec => []VerifyTypeOK
<1>1. IInv /\ ListOK => VerifyTypeOK
  BY DEF IInv, ListOK, VerifyTypeOK, Headers
<1> QED
  BY <1>1, VerifyInvariant, PTL

\* The writer's hash is over data only, the verifier's over sizes as well:
\* they agree on nothing but an empty segment.
LEMMA OnlyEmptyMatches ==
    ASSUME NEW h \in Headers, NEW b \in Seq(Frames), Matching(h, b)
    PROVE  SealedEmpty(h) /\ b = <<>>
<1>1. /\ h.hash \in Seq(Items) /\ Len(h.hash) \in Nat /\ Len(b) \in Nat
      /\ DOMAIN h.hash = 1 .. Len(h.hash)
      /\ h.kind = "sealed"
  BY LenProperties DEF Headers, Matching
<1> DEFINE w == HashedByWriter(h.hash)
           v == HashedByVerifier(b)
<1>2. w = v
  BY DEF Matching
<1>3. DOMAIN w = 1 .. Len(h.hash) /\ DOMAIN v = 1 .. 2 * Len(b)
  BY <1>1 DEF HashedByWriter, HashedByVerifier
<1>4. \A k \in DOMAIN w : w[k] = <<"data", h.hash[k]>>
  BY DEF HashedByWriter
<1>5. ASSUME 1 \in DOMAIN v PROVE v[1] = <<"size", b[1].item>>
  <2>1. (1 + 1) \div 2 = 1 /\ 1 % 2 = 1
    OBVIOUS
  <2> QED
    BY <1>3, <1>5, <2>1 DEF HashedByVerifier
<1>6. Len(b) = 0
  <2> SUFFICES ASSUME Len(b) # 0 PROVE FALSE
    OBVIOUS
  <2>1. 1 \in 1 .. 2 * Len(b)
    BY <1>1
  <2>2. v[1] = <<"size", b[1].item>> /\ w[1] = <<"data", h.hash[1]>>
    BY <1>2, <1>3, <1>4, <1>5, <2>1
  <2> HIDE DEF w, v
  <2>3. <<"size", b[1].item>>[1] = <<"data", h.hash[1]>>[1]
    BY <1>2, <2>2
  <2> QED
    BY <2>3
<1>7. Len(h.hash) = 0
  <2>1. 1 .. Len(h.hash) = 1 .. 2 * Len(b)
    BY <1>2, <1>3, Zenon
  <2>2. 1 \notin 1 .. 2 * Len(b)
    BY <1>6
  <2>3. 1 \notin 1 .. Len(h.hash)
    BY <2>1, <2>2, Zenon
  <2> QED
    BY <1>1, <2>3
<1> QED
  BY <1>1, <1>6, <1>7, EmptySeq DEF SealedEmpty

LEMMA StepVerdict ==
    ASSUME ~SameSecond, IInv, ListOK, VerdictInv, [VerifyNext]_allVars
    PROVE  VerdictInv'
<1>1. [Next]_vars /\ EmptyInv'
  BY VerifyStep, StepHashAhead, StepEmptyLeft DEF VerdictInv, EmptyInv
<1>2. CASE (Writer /\ Launch) \/ UNCHANGED allVars
  <2>1. /\ UNCHANGED <<listed, header, verdict>> /\ vpc' \in {vpc, "sleeping"}
        /\ Writer \/ UNCHANGED vars
    BY <1>2 DEF Launch, allVars, verifierVars
  <2>2. segment' = segment
    BY <2>1 DEF segment
  <2>3. ASSUME vpc' = "hash", SealedEmpty(header) PROVE files'[segment].header = header
    <3>1. vpc = "hash"
      BY <2>1, <2>3
    <3>2. files[segment].header = header
      BY <2>3, <3>1 DEF VerdictInv, HeaderFresh
    <3>3. segment \in DOMAIN files
      BY <3>1, SegmentListed DEF ListOK
    <3> QED
      BY <2>1, <2>3, <3>2, <3>3, EmptyStays DEF VerdictInv
  <2> QED
    BY <1>1, <2>1, <2>2, <2>3 DEF VerdictInv, HeaderFresh, VerdictSound
<1>3. CASE VerifierCrash \/ Quit \/ List \/ Guard \/ Name
  <2>1. vpc' # "hash" /\ verdict' = verdict
    BY <1>3 DEF VerifierCrash, Quit, List, Guard, Name, Move
  <2> QED
    BY <1>1, <2>1 DEF VerdictInv, HeaderFresh, VerdictSound
<1>4. CASE ReadHeader
  <2>1. /\ header' = files[segment].header /\ UNCHANGED <<files, listed, verdict>>
    BY <1>4 DEF ReadHeader, vars
  <2>2. segment' = segment
    BY <2>1 DEF segment
  <2> QED
    BY <1>1, <2>1, <2>2 DEF VerdictInv, HeaderFresh, VerdictSound
<1>5. CASE CompareHash
  <2>1. /\ verdict'.passed = Matching(header, files[segment].body)
        /\ verdict'.intact = (/\ Intact(files[segment])
                              /\ header = files[segment].header)
        /\ vpc' # "hash" /\ vpc = "hash"
    BY <1>5 DEF CompareHash, Move
  <2>2. ASSUME verdict'.passed PROVE verdict'.intact
    <3>1. segment \in DOMAIN files /\ header \in Headers
      BY <2>1, SegmentListed DEF ListOK
    <3>2. files[segment].body \in Seq(Frames) /\ files[segment].header \in Headers
      BY <3>1 DEF IInv, TypeOK, SegmentFiles
    <3>3. SealedEmpty(header) /\ files[segment].body = <<>>
      BY <2>1, <2>2, <3>1, <3>2, OnlyEmptyMatches
    <3>4. header = files[segment].header
      BY <2>1, <3>3 DEF VerdictInv, HeaderFresh
    <3>5. header.count = 0
      <4>1. Countable(header)
        BY <3>1, <3>4 DEF VerdictInv, EmptyInv, EmptyLeft
      <4>2. header.count <= 0 /\ header.count \in Nat
        BY <3>1, <3>3, <4>1, EmptySeq DEF Countable, SealedEmpty, Headers
      <4> QED
        BY <4>2
    <3>6. Intact(files[segment])
      <4>1. Len(files[segment].body) = 0 /\ DOMAIN files[segment].body = {}
        BY <3>3, EmptySeq
      <4>2. /\ files[segment].header.kind = "sealed"
            /\ files[segment].header.count = 0
        BY <3>3, <3>4, <3>5 DEF SealedEmpty
      <4> QED
        BY <4>1, <4>2 DEF Intact
    <3> QED
      BY <2>1, <3>4, <3>6
  <2> QED
    BY <1>1, <2>1, <2>2 DEF VerdictInv, HeaderFresh, VerdictSound
<1> QED
  BY <1>2, <1>3, <1>4, <1>5 DEF VerifyNext

\* Verification never vouches for damage: without a lock, and whatever writes
\* fail, whenever the process dies and whatever a power cut takes, a segment
\* that passes is sealed and every frame in it is whole, as long as no two
\* segments share a second (lines 412-450).
THEOREM VerificationSound == ~SameSecond => (VerifySpec => []VerdictSound)
<1> SUFFICES ASSUME ~SameSecond PROVE VerifySpec => []VerdictSound
  OBVIOUS
<1>1. VerifyInit => VerdictInv
  <2> SUFFICES ASSUME VerifyInit PROVE VerdictInv
    OBVIOUS
  <2>1. EmptyInv
    BY EmptySeq DEF VerifyInit, Init, EmptyInv, HashAhead, EmptyLeft, Finalizing
  <2>2. HeaderFresh /\ VerdictSound
    BY DEF VerifyInit, HeaderFresh, VerdictSound, NoVerdict
  <2> QED
    BY <2>1, <2>2 DEF VerdictInv
<1>2. IInv /\ ListOK /\ VerdictInv /\ [VerifyNext]_allVars => VerdictInv'
  BY StepVerdict
<1>3. VerdictInv => VerdictSound
  BY DEF VerdictInv
<1> QED
  BY <1>1, <1>2, <1>3, VerifyInvariant, PTL DEF VerifySpec
=============================================================================
