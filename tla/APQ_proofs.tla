------------------------------ MODULE APQ_proofs ------------------------------
(***************************************************************************)
(* Proofs about APQ, for every set of items, any number of classes, any    *)
(* weights and any capacity.                                               *)
(***************************************************************************)
EXTENDS APQ, TLAPS, FiniteSetTheorems, SequenceTheorems, WellFoundedInduction

-----------------------------------------------------------------------------
(* Numbers and slots.                                                      *)

\* Every set of naturals has a least element: its down-sets are finite, and
\* strict inclusion of finite sets is well-founded.
LEMMA LeastNatural ==
  ASSUME NEW S \in SUBSET Nat, S # {}
  PROVE  \E m \in S : \A k \in S : m <= k
<1> DEFINE T == {0 .. k : k \in S}
<1>1. T \subseteq FiniteSubsetsOf(Nat) /\ T # {}
  <2>1. \A k \in S : 0 .. k \in FiniteSubsetsOf(Nat)
    BY FS_Interval DEF FiniteSubsetsOf
  <2> QED BY <2>1
<1>2. PICK x \in T : \A y \in T : ~ (<<y, x>> \in StrictSubsetOrdering(Nat))
  <2> HIDE DEF T
  <2> QED BY <1>1, WFMin, FS_StrictSubsetOrderingWellFounded, Zenon
<1>3. PICK m \in S : x = 0 .. m
  OBVIOUS
<1>4. ASSUME NEW k \in S, k < m PROVE FALSE
  <2>1. <<0 .. k, 0 .. m>> \in StrictSubsetOrdering(Nat)
    <3>1. 0 .. k \subseteq Nat /\ 0 .. m \subseteq Nat
      OBVIOUS
    <3>2. 0 .. k \subseteq 0 .. m
      BY <1>4
    <3>3. m \in 0 .. m /\ m \notin 0 .. k
      BY <1>4
    <3> QED BY <3>1, <3>2, <3>3 DEF StrictSubsetOrdering
  <2> QED BY <2>1, <1>2, <1>3
<1> QED BY <1>4

\* Classification yields a class.
LEMMA ClassifyType ==
  ASSUME NEW i \in Items
  PROVE  classifyItem(i) \in Classes
<1>1. CASE Matches[i] = {}
  BY <1>1, APQAssumption DEF classifyItem, Classes
<1>2. CASE Matches[i] # {}
  <2>1. Matches[i] \in SUBSET Nat /\ Matches[i] \subseteq Classes
    BY APQAssumption DEF Classes
  <2>2. \E c \in Matches[i] : \A d \in Matches[i] : c <= d
    BY <1>2, <2>1, LeastNatural
  <2> QED BY <1>2, <2>1, <2>2 DEF classifyItem
<1> QED BY <1>1, <1>2

\* A slot is a class and a position in its lane.
LEMMA SlotMember ==
  ASSUME NEW qs, NEW c, NEW k
  PROVE  <<c, k>> \in SlotsOf(qs) <=> c \in Classes /\ k \in 1 .. Len(qs[c])
BY DEF SlotsOf

\* Appending to a lane adds one slot.
LEMMA SlotsAppend ==
  ASSUME NEW qs \in [Classes -> Seq(Items)], NEW c \in Classes, NEW i \in Items
  PROVE  LET new == <<c, Len(qs[c]) + 1>>
         IN  /\ SlotsOf([qs EXCEPT ![c] = Append(@, i)]) = SlotsOf(qs) \cup {new}
             /\ new \notin SlotsOf(qs)
<1> DEFINE rs == [qs EXCEPT ![c] = Append(@, i)]
           new == <<c, Len(qs[c]) + 1>>
<1>1. /\ Len(qs[c]) \in Nat
      /\ Len(rs[c]) = Len(qs[c]) + 1
      /\ \A d \in Classes \ {c} : Len(rs[d]) = Len(qs[d])
  BY LenProperties, AppendProperties
<1>2. 1 .. Len(rs[c]) = (1 .. Len(qs[c])) \cup {Len(qs[c]) + 1}
  BY <1>1
<1>3. \A s \in SlotsOf(rs) : s \in SlotsOf(qs) \cup {new}
  BY <1>1, <1>2 DEF SlotsOf
<1>4. \A s \in SlotsOf(qs) \cup {new} : s \in SlotsOf(rs)
  BY <1>1, <1>2 DEF SlotsOf
<1>5. new \notin SlotsOf(qs)
  BY <1>1, SlotMember
<1> QED BY <1>3, <1>4, <1>5

\* Taking the head of a lane frees the slot at its end.
LEMMA SlotsTail ==
  ASSUME NEW qs \in [Classes -> Seq(Items)], NEW c \in Classes, qs[c] # <<>>
  PROVE  LET old == <<c, Len(qs[c])>>
         IN  /\ SlotsOf([qs EXCEPT ![c] = Tail(@)]) = SlotsOf(qs) \ {old}
             /\ old \in SlotsOf(qs)
<1> DEFINE rs == [qs EXCEPT ![c] = Tail(@)]
           old == <<c, Len(qs[c])>>
<1>1. /\ Len(qs[c]) \in Nat \ {0}
      /\ Len(rs[c]) = Len(qs[c]) - 1
      /\ \A d \in Classes \ {c} : Len(rs[d]) = Len(qs[d])
  BY EmptySeq, HeadTailProperties
<1>2. 1 .. Len(rs[c]) = (1 .. Len(qs[c])) \ {Len(qs[c])}
  BY <1>1
<1>3. \A s \in SlotsOf(rs) : s \in SlotsOf(qs) \ {old}
  BY <1>1, <1>2 DEF SlotsOf
<1>4. \A s \in SlotsOf(qs) \ {old} : s \in SlotsOf(rs)
  BY <1>1, <1>2 DEF SlotsOf
<1>5. old \in SlotsOf(qs)
  BY <1>1, SlotMember
<1> QED BY <1>3, <1>4, <1>5

\* There is a slot in use exactly when some lane is not empty.
LEMMA SlotsEmpty ==
  ASSUME NEW qs \in [Classes -> Seq(Items)]
  PROVE  SlotsOf(qs) = {} <=> \A c \in Classes : qs[c] = <<>>
<1>1. \A c \in Classes : qs[c] # <<>> => <<c, 1>> \in SlotsOf(qs)
  BY EmptySeq, SlotMember
<1>2. (\A c \in Classes : qs[c] = <<>>) => SlotsOf(qs) = {}
  BY EmptySeq DEF SlotsOf
<1> QED BY <1>1, <1>2

-----------------------------------------------------------------------------
(* The round robin.                                                        *)

\* The distance from one class to another, going round.
LEMMA Distance ==
  ASSUME NEW N \in Nat \ {0}, NEW a \in 0 .. (N - 1), NEW b \in 0 .. (N - 1)
  PROVE  (b - a) % N = IF b >= a THEN b - a ELSE b - a + N
<1>1. CASE b >= a
  BY <1>1, SMTT(20)
<1>2. CASE b < a
  BY <1>2, SMTT(20)
<1> QED BY <1>1, <1>2

\* The class a step away, with wrap-around, and its distance.
LEMMA ClassAfterValue ==
  ASSUME currentClass \in Classes, NEW k \in 1 .. (NumClasses - 1)
  PROVE  /\ ClassAfter(k) = IF currentClass + k < NumClasses
                            THEN currentClass + k
                            ELSE currentClass + k - NumClasses
         /\ ClassAfter(k) \in Classes
         /\ ClassAfter(k) # currentClass
         /\ (ClassAfter(k) - currentClass) % NumClasses = k
<1>0. NumClasses \in Nat \ {0} /\ currentClass \in 0 .. (NumClasses - 1)
  BY APQAssumption DEF Classes
<1>1. ClassAfter(k) = IF currentClass + k < NumClasses
                      THEN currentClass + k
                      ELSE currentClass + k - NumClasses
  <2>1. CASE currentClass + k < NumClasses
    BY <1>0, <2>1, SMTT(20) DEF ClassAfter
  <2>2. CASE currentClass + k >= NumClasses
    BY <1>0, <2>2, SMTT(20) DEF ClassAfter
  <2> QED BY <1>0, <2>1, <2>2
<1>2. ClassAfter(k) \in 0 .. (NumClasses - 1) /\ ClassAfter(k) # currentClass
  BY <1>0, <1>1
<1>3. (ClassAfter(k) - currentClass) % NumClasses = k
  BY <1>0, <1>1, <1>2, Distance
<1> QED BY <1>1, <1>2, <1>3 DEF Classes

\* Every other class is some steps away.
LEMMA ClassReached ==
  ASSUME currentClass \in Classes, NEW c \in Classes, c # currentClass
  PROVE  \E k \in 1 .. (NumClasses - 1) :
            k = (c - currentClass) % NumClasses /\ ClassAfter(k) = c
<1>0. /\ NumClasses \in Nat \ {0}
      /\ currentClass \in 0 .. (NumClasses - 1) /\ c \in 0 .. (NumClasses - 1)
  BY APQAssumption DEF Classes
<1> DEFINE k == (c - currentClass) % NumClasses
<1>1. k = IF c >= currentClass THEN c - currentClass
                               ELSE c - currentClass + NumClasses
  BY <1>0, Distance
<1>2. k \in 1 .. (NumClasses - 1)
  BY <1>0, <1>1
<1>3. ClassAfter(k) = c
  <2> HIDE DEF k
  <2> QED BY <1>0, <1>1, <1>2, ClassAfterValue
<1> QED BY <1>2, <1>3

\* The scheduler's next class: it has work if any class has, and no class
\* with work is passed over.
LEMMA NextClassFound ==
  ASSUME currentClass \in Classes
  PROVE  /\ NextClass \in Classes
         /\ (\E c \in Classes : queues[c] # <<>>) => queues[NextClass] # <<>>
         /\ \A c \in Classes \ {currentClass} : queues[c] # <<>> =>
               /\ NextClass # currentClass
               /\ (NextClass - currentClass) % NumClasses
                     <= (c - currentClass) % NumClasses
<1> DEFINE Hits == {k \in 1 .. (NumClasses - 1) : queues[ClassAfter(k)] # <<>>}
<1>1. ASSUME NEW c \in Classes \ {currentClass}, queues[c] # <<>>
      PROVE  (c - currentClass) % NumClasses \in Hits
  BY <1>1, ClassReached
<1>2. CASE Hits = {}
  <2>1. NextClass = currentClass
    BY <1>2 DEF NextClass
  <2> QED BY <1>1, <1>2, <2>1
<1>3. CASE Hits # {}
  <2> DEFINE m == CHOOSE k \in Hits : \A j \in Hits : k <= j
  <2>1. m \in Hits /\ \A j \in Hits : m <= j
    <3>1. Hits \in SUBSET Nat
      BY APQAssumption
    <3>2. \E k \in Hits : \A j \in Hits : k <= j
      <4> HIDE DEF Hits
      <4> QED BY <1>3, <3>1, LeastNatural
    <3> QED BY <3>2
  <2>2. NextClass = ClassAfter(m)
    BY <1>3 DEF NextClass
  <2> HIDE DEF m
  <2>3. /\ ClassAfter(m) \in Classes /\ ClassAfter(m) # currentClass
        /\ (ClassAfter(m) - currentClass) % NumClasses = m
    BY <2>1, ClassAfterValue
  <2> QED BY <1>1, <2>1, <2>2, <2>3
<1> QED BY <1>2, <1>3

\* Wrapping around gives an int32, which no natural number is less than.
LEMMA Int32Type ==
  ASSUME NEW n \in Nat
  PROVE  Int32(n) \in -(MaxInt32 + 1) .. MaxInt32 /\ Int32(n) <= n
<1> DEFINE m == 2 * (MaxInt32 + 1)
           x == n + MaxInt32 + 1
<1>1. MaxInt32 \in Nat /\ m \in Nat \ {0} /\ x \in Nat
  BY APQAssumption DEF APQAssumption
<1>2. Int32(n) = (x % m) - (MaxInt32 + 1)
  BY DEF Int32
<1> HIDE DEF m
<1>3. x % m \in 0 .. (m - 1)
  BY <1>1
<1>4. x % m <= x
  BY <1>1, SMTT(20)
<1> QED BY <1>1, <1>2, <1>3, <1>4 DEF m

Int32s == -(MaxInt32 + 1) .. MaxInt32

\* What selectPriorityClass leaves behind is a class and tokens of that class.
LEMMA SelectionType ==
  ASSUME TypeOK
  PROVE  /\ SelectedClass \in Classes
         /\ TokensLeft \in Int32s
         /\ TokensLeft <= 0 \/ TokensLeft < Weight[SelectedClass]
<1>1. NextClass \in Classes
  BY NextClassFound DEF TypeOK
<1>2. \A c \in Classes : Weight[c] \in Nat \ {0}
  BY APQAssumption
<1>3. CASE remainingTokens > 0
  BY <1>2, <1>3, APQAssumption DEF APQAssumption, TypeOK, SelectedClass, TokensLeft, Int32s
<1>4. CASE ~ (remainingTokens > 0)
  <2>1. SelectedClass = NextClass /\ TokensLeft = Int32(Weight[NextClass] - 1)
    BY <1>4 DEF SelectedClass, TokensLeft
  <2>2. Weight[NextClass] - 1 \in Nat /\ Weight[NextClass] \in Nat
    BY <1>1, <1>2
  <2>3. /\ Int32(Weight[NextClass] - 1) \in Int32s
        /\ Int32(Weight[NextClass] - 1) <= Weight[NextClass] - 1
    BY <2>2, Int32Type DEF Int32s
  <2>4. TokensLeft \in Int32s /\ TokensLeft <= Weight[SelectedClass] - 1
    BY <2>1, <2>3
  <2>5. TokensLeft \in Int /\ Weight[SelectedClass] \in Nat
    BY <2>1, <2>2, <2>4, APQAssumption DEF APQAssumption, Int32s
  <2> QED BY <1>1, <2>1, <2>4, <2>5
<1> QED BY <1>3, <1>4

-----------------------------------------------------------------------------
(* The inductive invariant.                                                *)

IInv == TypeOK /\ IsFiniteSet(Slots) /\ Headroom /\ GaugesFresh

\* Gauges of well-typed lanes are well-typed once the slots can be counted.
LEMMA GaugesType ==
  ASSUME NEW qs \in [Classes -> Seq(Items)], IsFiniteSet(SlotsOf(qs))
  PROVE  GaugesOf(qs) \in [classSize : [Classes -> Nat], fill : Nat]
<1>1. \A c \in Classes : Len(qs[c]) \in Nat
  BY LenProperties
<1>2. Cardinality(SlotsOf(qs)) \in Nat
  BY FS_CardinalityType
<1> QED BY <1>1, <1>2 DEF GaugesOf

\* The empty queue satisfies it.
LEMMA InitIInv == Init => IInv
<1> SUFFICES ASSUME Init PROVE IInv
  OBVIOUS
<1> DEFINE none == [c \in Classes |-> <<>>]
<1>1. none \in [Classes -> Seq(Items)]
  BY EmptySeq
<1>2. SlotsOf(none) = {}
  BY <1>1, SlotsEmpty
<1>3. IsFiniteSet(SlotsOf(none)) /\ Cardinality(SlotsOf(none)) = 0
  BY <1>2, FS_EmptySet
<1>4. queues = none /\ gauges = GaugesOf(none)
  BY DEF Init
<1>5. 0 \in Classes /\ Weight[0] \in Nat \ {0}
  BY APQAssumption DEF Classes
<1>6. GaugesOf(none) \in [classSize : [Classes -> Nat], fill : Nat]
  BY <1>1, <1>3, GaugesType
<1>7. TypeOK
  <2>1. /\ currentClass = 0 /\ remainingTokens = 0 /\ spillFunc = FALSE
        /\ result = Outcome("none", NoItem)
    BY DEF Init
  <2>2. result \in [status : Statuses, item : Items \cup {NoItem}]
    BY <2>1 DEF Outcome, Statuses
  <2>3. remainingTokens \in -(MaxInt32 + 1) .. MaxInt32 /\ remainingTokens <= 0
    BY <2>1, APQAssumption DEF APQAssumption
  <2>4. queues \in [Classes -> Seq(Items)]
    BY <1>1, <1>4, Zenon
  <2>5. gauges \in [classSize : [Classes -> Nat], fill : Nat]
    BY <1>4, <1>6, Zenon
  <2> QED BY <1>5, <2>1, <2>2, <2>3, <2>4, <2>5 DEF TypeOK
<1>8. Headroom
  BY <1>3, <1>4 DEF Headroom, getTotalSize, Slots
<1> QED BY <1>3, <1>4, <1>7, <1>8 DEF IInv, GaugesFresh, Slots

\* A call that leaves lanes and gauges alone keeps it.
LEMMA QueueKept ==
  ASSUME IInv, UNCHANGED queues, UNCHANGED gauges, TypeOK'
  PROVE  IInv'
BY DEF IInv, Headroom, GaugesFresh, getTotalSize, Slots

\* Enqueue keeps it, be the item new to the queue or not.
LEMMA EnqueueIInv ==
  ASSUME IInv, NEW i \in Items, UNCHANGED spillFunc,
         EnqueueAccept(i) \/ EnqueueSpill(i) \/ EnqueueReject(i)
  PROVE  IInv'
<1> USE DEF IInv
<1>0. /\ queues \in [Classes -> Seq(Items)]
      /\ Capacity \in Nat \ {0} /\ Cardinality(Slots) \in Nat
  BY APQAssumption, FS_CardinalityType DEF TypeOK
<1>1. CASE EnqueueAccept(i)
  <2> DEFINE c == classifyItem(i)
  <2>1. c \in Classes
    BY ClassifyType
  <2>2. queues' = [queues EXCEPT ![c] = Append(@, i)]
    BY <1>1 DEF EnqueueAccept
  <2> HIDE DEF c
  <2>3. queues' \in [Classes -> Seq(Items)]
    BY <1>0, <2>1, <2>2, AppendProperties
  <2>4. /\ Slots' = Slots \cup {<<c, Len(queues[c]) + 1>>}
        /\ <<c, Len(queues[c]) + 1>> \notin Slots
    BY <1>0, <2>1, <2>2, SlotsAppend DEF Slots
  <2>5. IsFiniteSet(Slots') /\ Cardinality(Slots') = Cardinality(Slots) + 1
    BY <2>4, FS_AddElement
  <2>6. GaugesFresh'
    BY <1>1 DEF EnqueueAccept, updateMetrics, GaugesFresh
  <2>7. gauges' \in [classSize : [Classes -> Nat], fill : Nat]
    BY <2>3, <2>5, <2>6, GaugesType DEF GaugesFresh, Slots
  <2>8. TypeOK'
    BY <1>1, <2>3, <2>7 DEF TypeOK, EnqueueAccept, Outcome, Statuses
  <2>9. Headroom'
    BY <1>0, <1>1, <2>5 DEF EnqueueAccept, NearlyFull, Headroom, getTotalSize
  <2> QED BY <2>5, <2>6, <2>8, <2>9
<1>2. CASE EnqueueSpill(i)
  <2>1. TypeOK'
    BY <1>2 DEF TypeOK, EnqueueSpill, queueVars, Outcome, Statuses
  <2> QED BY <1>2, <2>1, QueueKept DEF EnqueueSpill, queueVars
<1>3. CASE EnqueueReject(i)
  <2>1. TypeOK'
    BY <1>3 DEF TypeOK, EnqueueReject, queueVars, Outcome, Statuses
  <2> QED BY <1>3, <2>1, QueueKept DEF EnqueueReject, queueVars
<1> QED BY <1>1, <1>2, <1>3

\* So does Dequeue.
LEMMA DequeueIInv == ASSUME IInv, Dequeue PROVE IInv'
<1> USE DEF IInv
<1>0. /\ queues \in [Classes -> Seq(Items)]
      /\ Capacity \in Nat \ {0} /\ Cardinality(Slots) \in Nat
  BY APQAssumption, FS_CardinalityType DEF TypeOK
<1>1. CASE DequeueEmpty
  <2>1. TypeOK'
    BY <1>1 DEF TypeOK, Dequeue, DequeueEmpty, queueVars, Outcome, Statuses
  <2> QED BY <1>1, <2>1, QueueKept DEF DequeueEmpty, queueVars
<1>2. CASE DequeueMiss
  <2>1. TypeOK'
    BY <1>2, SelectionType
    DEF TypeOK, Dequeue, DequeueMiss, selectPriorityClass, Outcome, Statuses, Int32s
  <2> QED BY <1>2, <2>1, QueueKept DEF DequeueMiss
<1>3. CASE DequeueItem
  <2> DEFINE c == SelectedClass
  <2>1. /\ c \in Classes /\ TokensLeft \in -(MaxInt32 + 1) .. MaxInt32
        /\ TokensLeft <= 0 \/ TokensLeft < Weight[c]
    BY SelectionType DEF Int32s
  <2>2. /\ queues[c] # <<>>
        /\ queues' = [queues EXCEPT ![c] = Tail(@)]
        /\ currentClass' = c /\ remainingTokens' = TokensLeft
        /\ result' = Outcome("dequeued", Head(queues[c]))
    BY <1>3 DEF DequeueItem, selectPriorityClass
  <2> HIDE DEF c
  <2>3. queues' \in [Classes -> Seq(Items)] /\ Head(queues[c]) \in Items
    BY <1>0, <2>1, <2>2, HeadTailProperties
  <2>4. /\ Slots' = Slots \ {<<c, Len(queues[c])>>}
        /\ <<c, Len(queues[c])>> \in Slots
    BY <1>0, <2>1, <2>2, SlotsTail DEF Slots
  <2>5. IsFiniteSet(Slots') /\ Cardinality(Slots') = Cardinality(Slots) - 1
    BY <2>4, FS_RemoveElement
  <2>6. GaugesFresh'
    BY <1>3 DEF DequeueItem, updateMetrics, GaugesFresh
  <2>7. gauges' \in [classSize : [Classes -> Nat], fill : Nat]
    BY <2>3, <2>5, <2>6, GaugesType DEF GaugesFresh, Slots
  <2>8. TypeOK'
    BY <2>1, <2>2, <2>3, <2>7 DEF TypeOK, Dequeue, Outcome, Statuses
  <2>9. Headroom'
    BY <1>0, <2>5 DEF Headroom, getTotalSize
  <2> QED BY <2>5, <2>6, <2>8, <2>9
<1> QED BY <1>1, <1>2, <1>3 DEF Dequeue

\* Every call keeps it.
LEMMA StepIInv == IInv /\ [Next]_vars => IInv'
<1> SUFFICES ASSUME IInv, [Next]_vars PROVE IInv'
  OBVIOUS
<1>1. CASE UNCHANGED vars
  BY <1>1, QueueKept DEF vars, IInv, TypeOK
<1>2. ASSUME NEW set \in BOOLEAN, SetSpillFunc(set) PROVE IInv'
  BY <1>2, QueueKept DEF SetSpillFunc, queueVars, IInv, TypeOK
<1>3. ASSUME NEW i \in Items, Enqueue(i) PROVE IInv'
  BY <1>3, EnqueueIInv DEF Enqueue
<1>4. CASE Dequeue
  BY <1>4, DequeueIInv
<1> QED BY <1>1, <1>2, <1>3, <1>4 DEF Next

\* The invariant holds in every reachable state.
THEOREM Invariant == Spec => []IInv
BY InitIInv, StepIInv, PTL DEF Spec

-----------------------------------------------------------------------------
(* The properties.                                                         *)

\* Every variable keeps its type (all of plugin.go:143-337).
THEOREM TypeCorrect == Spec => []TypeOK
BY Invariant, PTL DEF IInv

\* The spill rule keeps the queue within its capacity (plugin.go:155-172).
THEOREM HeadroomHolds == Spec => []Headroom
BY Invariant, PTL DEF IInv

\* The gauges always describe the queue (plugin.go:328-337).
THEOREM GaugesAreFresh == Spec => []GaugesFresh
BY Invariant, PTL DEF IInv

\* A new turn goes to a class with work whenever there is work
\* (plugin.go:301-318).
THEOREM FreshTurns == Spec => []FreshTurnHasWork
<1>1. IInv => FreshTurnHasWork
  <2> SUFFICES ASSUME IInv, ~ (remainingTokens > 0), getTotalSize # 0
               PROVE  queues[SelectedClass] # <<>>
    BY APQAssumption DEF APQAssumption, FreshTurnHasWork, IInv, TypeOK
  <2>1. Slots # {}
    BY FS_EmptySet DEF getTotalSize
  <2>2. \E c \in Classes : queues[c] # <<>>
    BY <2>1, SlotsEmpty DEF IInv, TypeOK, Slots
  <2>3. currentClass \in Classes
    BY DEF IInv, TypeOK
  <2>4. queues[NextClass] # <<>>
    BY <2>2, <2>3, NextClassFound
  <2> QED BY <2>4 DEF SelectedClass
<1> QED BY <1>1, Invariant, PTL

\* One Dequeue serves a waiting class or brings its turn closer.
LEMMA DequeueProgress ==
  ASSUME IInv, Dequeue, NEW c \in Classes, queues[c] # <<>>
  PROVE  queues'[c] = Tail(queues[c]) \/ CloserToService(c)
<1>0. /\ queues \in [Classes -> Seq(Items)] /\ currentClass \in Classes
      /\ remainingTokens \in Int
      /\ NumClasses \in Nat \ {0} /\ Classes = 0 .. (NumClasses - 1)
  <2>1. MaxInt32 \in Nat
    BY APQAssumption DEF APQAssumption
  <2> QED BY <2>1, APQAssumption DEF IInv, TypeOK, Classes
<1>1. getTotalSize # 0
  <2>1. Slots # {}
    BY <1>0, SlotsEmpty DEF Slots
  <2> QED BY <2>1, FS_EmptySet DEF IInv, getTotalSize
<1>2. DequeueMiss \/ DequeueItem
  BY <1>1 DEF Dequeue, DequeueEmpty
<1>3. currentClass' = SelectedClass /\ remainingTokens' = TokensLeft
  BY <1>2 DEF DequeueMiss, DequeueItem, selectPriorityClass
<1>4. queues[SelectedClass] # <<>> => queues' = [queues EXCEPT ![SelectedClass] = Tail(@)]
  BY <1>2 DEF DequeueMiss, DequeueItem
<1>5. CASE remainingTokens > 0
  <2>1. SelectedClass = currentClass /\ TokensLeft = remainingTokens - 1
    BY <1>5 DEF SelectedClass, TokensLeft
  <2>2. CASE c = currentClass
    BY <1>0, <1>4, <2>1, <2>2
  <2>3. CASE c # currentClass
    <3>1. TurnsUntil(c)' = TurnsUntil(c)
      BY <1>3, <2>1, <2>3 DEF TurnsUntil
    <3>2. remainingTokens' < remainingTokens
      BY <1>0, <1>3, <2>1
    <3> QED BY <3>1, <3>2 DEF CloserToService
  <2> QED BY <2>2, <2>3
<1>6. CASE ~ (remainingTokens > 0)
  <2>1. SelectedClass = NextClass
    BY <1>6 DEF SelectedClass
  <2>2. NextClass \in Classes /\ queues[NextClass] # <<>>
    BY <1>0, NextClassFound
  <2>3. CASE c = NextClass
    BY <1>0, <1>4, <2>1, <2>2, <2>3
  <2>4. CASE c # NextClass
    <3> DEFINE far == (c - currentClass) % NumClasses
               next == (NextClass - currentClass) % NumClasses
               left == (c - NextClass) % NumClasses
    <3>1. left \in 0 .. (NumClasses - 1)
      BY <1>0, <2>2, Distance
    <3>2. TurnsUntil(c)' = left
      BY <1>3, <2>1, <2>4 DEF TurnsUntil
    <3>3. CASE c = currentClass
      <4>1. TurnsUntil(c) = NumClasses
        BY <1>6, <3>3 DEF TurnsUntil
      <4> HIDE DEF left
      <4> QED BY <1>0, <3>1, <3>2, <4>1 DEF CloserToService
    <3>4. CASE c # currentClass
      <4>1. TurnsUntil(c) = far
        BY <3>4 DEF TurnsUntil
      <4>2. NextClass # currentClass /\ next <= far
        BY <1>0, <3>4, NextClassFound
      <4>3. /\ far = IF c >= currentClass THEN c - currentClass
                     ELSE c - currentClass + NumClasses
            /\ next = IF NextClass >= currentClass THEN NextClass - currentClass
                      ELSE NextClass - currentClass + NumClasses
            /\ left = IF c >= NextClass THEN c - NextClass
                      ELSE c - NextClass + NumClasses
        BY <1>0, <2>2, Distance
      <4> HIDE DEF far, next, left
      <4>4. left < far
        BY <1>0, <2>2, <2>4, <3>4, <4>2, <4>3
      <4> QED BY <3>2, <4>1, <4>4 DEF CloserToService
    <3> QED BY <3>3, <3>4
  <2> QED BY <2>3, <2>4
<1> QED BY <1>5, <1>6

\* No class starves (plugin.go:289-325): the pair of turns and tokens left
\* before a waiting class is served decreases with every Dequeue.
THEOREM NoStarvation == Spec => ServiceProgress
<1>1. IInv /\ [Next]_vars =>
         [Dequeue => \A c \in Classes : queues[c] # <<>> =>
            queues'[c] = Tail(queues[c]) \/ CloserToService(c)]_vars
  BY DequeueProgress
<1> QED BY <1>1, Invariant, PTL DEF Spec, ServiceProgress

-----------------------------------------------------------------------------
(* The items that wait, and the abstract buffer.                           *)

\* An item waits when some lane holds it.
LEMMA QueuedMember ==
  ASSUME NEW qs, NEW x
  PROVE  x \in ItemsOf(qs) <=>
            \E c \in Classes : \E k \in 1 .. Len(qs[c]) : x = qs[c][k]
<1>1. ASSUME x \in ItemsOf(qs)
      PROVE  \E c \in Classes : \E k \in 1 .. Len(qs[c]) : x = qs[c][k]
  <2>1. PICK s \in SlotsOf(qs) : x = qs[s[1]][s[2]]
    BY <1>1 DEF ItemsOf
  <2>2. s[1] \in Classes /\ s[2] \in 1 .. Len(qs[s[1]])
    BY DEF SlotsOf
  <2> QED BY <2>1, <2>2
<1>2. ASSUME NEW c \in Classes, NEW k \in 1 .. Len(qs[c]), x = qs[c][k]
      PROVE  x \in ItemsOf(qs)
  <2>1. <<c, k>> \in SlotsOf(qs)
    BY SlotMember
  <2> QED BY <1>2, <2>1 DEF ItemsOf
<1> QED BY <1>1, <1>2

\* What waits are items.
LEMMA QueuedType ==
  ASSUME TypeOK
  PROVE  Queued \subseteq Items
<1>1. \A c \in Classes : \A k \in 1 .. Len(queues[c]) : queues[c][k] \in Items
  BY ElementOfSeq DEF TypeOK
<1> QED BY <1>1, QueuedMember DEF Queued

\* The order of waiting is that of the positions in a lane.
LEMMA OrderMember ==
  ASSUME NEW qs, NEW x, NEW y
  PROVE  <<x, y>> \in OrderOf(qs) <=>
            \E c \in Classes : \E k, l \in 1 .. Len(qs[c]) :
                k < l /\ x = qs[c][k] /\ y = qs[c][l]
BY QueuedMember DEF OrderOf

\* Appending to a lane: the old items keep their places.
LEMMA LaneAppended ==
  ASSUME NEW s \in Seq(Items), NEW i \in Items
  PROVE  LET r == Append(s, i)
         IN  /\ Len(s) \in Nat /\ Len(r) = Len(s) + 1
             /\ 1 .. Len(r) = (1 .. Len(s)) \cup {Len(s) + 1}
             /\ \A k \in 1 .. Len(s) : r[k] = s[k]
             /\ r[Len(s) + 1] = i
BY LenProperties, AppendProperties

\* Taking the head of a lane: the others move up by one place.
LEMMA LaneServed ==
  ASSUME NEW s \in Seq(Items), s # <<>>
  PROVE  LET r == Tail(s)
         IN  /\ Len(s) \in Nat \ {0} /\ Len(r) = Len(s) - 1
             /\ \A k \in 1 .. Len(r) : k + 1 \in 1 .. Len(s) /\ r[k] = s[k + 1]
             /\ \A k \in 1 .. Len(s) : k = 1 \/ (k - 1 \in 1 .. Len(r) /\ r[k - 1] = s[k])
             /\ Head(s) = s[1]
<1>1. /\ Len(s) \in Nat \ {0} /\ Len(Tail(s)) = Len(s) - 1
      /\ \A k \in 1 .. Len(Tail(s)) : Tail(s)[k] = s[k + 1]
      /\ Head(s) = s[1]
  BY EmptySeq, LenProperties, HeadTailProperties
<1>2. \A k \in 1 .. Len(Tail(s)) : k + 1 \in 1 .. Len(s)
  BY <1>1
<1>3. ASSUME NEW k \in 1 .. Len(s), k # 1
      PROVE  k - 1 \in 1 .. Len(Tail(s)) /\ Tail(s)[k - 1] = s[k]
  <2>1. k - 1 \in 1 .. Len(Tail(s)) /\ (k - 1) + 1 = k
    BY <1>1, <1>3
  <2> QED BY <1>1, <2>1
<1> QED BY <1>1, <1>2, <1>3

\* Enqueue adds its item to those that wait.
LEMMA AcceptQueued ==
  ASSUME TypeOK, NEW i \in Items, EnqueueAccept(i)
  PROVE  Queued' = Queued \cup {i}
<1> DEFINE c == classifyItem(i)
<1>1. /\ c \in Classes /\ queues \in [Classes -> Seq(Items)]
      /\ queues' = [queues EXCEPT ![c] = Append(@, i)]
  BY ClassifyType DEF TypeOK, EnqueueAccept
<1> HIDE DEF c
<1>2. /\ queues'[c] = Append(queues[c], i)
      /\ \A d \in Classes \ {c} : queues'[d] = queues[d]
  BY <1>1
<1>3. /\ Len(queues[c]) \in Nat
      /\ 1 .. Len(queues'[c]) = (1 .. Len(queues[c])) \cup {Len(queues[c]) + 1}
      /\ \A k \in 1 .. Len(queues[c]) : queues'[c][k] = queues[c][k]
      /\ queues'[c][Len(queues[c]) + 1] = i
  BY <1>1, <1>2, LaneAppended
<1>4. ASSUME NEW x \in ItemsOf(queues') PROVE x \in ItemsOf(queues) \cup {i}
  <2>1. PICK d \in Classes : \E k \in 1 .. Len(queues'[d]) : x = queues'[d][k]
    BY QueuedMember
  <2>2. x = i \/ \E k \in 1 .. Len(queues[d]) : x = queues[d][k]
    BY <1>2, <1>3, <2>1
  <2> QED BY <2>2, QueuedMember
<1>5. ASSUME NEW x \in ItemsOf(queues) \cup {i} PROVE x \in ItemsOf(queues')
  <2>1. CASE x = i
    <3>1. Len(queues[c]) + 1 \in 1 .. Len(queues'[c])
      BY <1>3
    <3> QED BY <1>1, <1>3, <2>1, <3>1, QueuedMember
  <2>2. CASE x \in ItemsOf(queues)
    <3>1. PICK d \in Classes : \E k \in 1 .. Len(queues[d]) : x = queues[d][k]
      BY <2>2, QueuedMember
    <3>2. \E k \in 1 .. Len(queues'[d]) : x = queues'[d][k]
      BY <1>2, <1>3, <3>1
    <3> QED BY <3>2, QueuedMember
  <2> QED BY <1>5, <2>1, <2>2
<1> QED BY <1>4, <1>5 DEF Queued

\* Dequeue hands out an item that waited; the others still do.
LEMMA DequeueQueued ==
  ASSUME TypeOK, DequeueItem
  PROVE  /\ result'.item \in Queued
         /\ Queued' \subseteq Queued
         /\ Queued \subseteq Queued' \cup {result'.item}
<1> DEFINE c == SelectedClass
<1>1. /\ c \in Classes /\ queues \in [Classes -> Seq(Items)]
      /\ queues[c] # <<>>
      /\ queues' = [queues EXCEPT ![c] = Tail(@)]
      /\ result'.item = Head(queues[c])
  BY SelectionType DEF TypeOK, DequeueItem, Outcome
<1> HIDE DEF c
<1>2. /\ queues'[c] = Tail(queues[c])
      /\ \A d \in Classes \ {c} : queues'[d] = queues[d]
  BY <1>1
<1>3. /\ Len(queues[c]) \in Nat \ {0}
      /\ \A k \in 1 .. Len(queues'[c]) :
            k + 1 \in 1 .. Len(queues[c]) /\ queues'[c][k] = queues[c][k + 1]
      /\ \A k \in 1 .. Len(queues[c]) :
            k = 1 \/ (k - 1 \in 1 .. Len(queues'[c]) /\ queues'[c][k - 1] = queues[c][k])
      /\ result'.item = queues[c][1]
  BY <1>1, <1>2, LaneServed
<1>4. result'.item \in ItemsOf(queues)
  <2>1. 1 \in 1 .. Len(queues[c])
    BY <1>3
  <2> QED BY <1>1, <1>3, <2>1, QueuedMember
<1>5. ASSUME NEW x \in ItemsOf(queues') PROVE x \in ItemsOf(queues)
  <2>1. PICK d \in Classes : \E k \in 1 .. Len(queues'[d]) : x = queues'[d][k]
    BY QueuedMember
  <2>2. CASE d = c
    BY <1>1, <1>3, <2>1, <2>2, QueuedMember
  <2>3. CASE d # c
    BY <1>2, <2>1, <2>3, QueuedMember
  <2> QED BY <2>2, <2>3
<1>6. ASSUME NEW x \in ItemsOf(queues) PROVE x \in ItemsOf(queues') \cup {result'.item}
  <2>1. PICK d \in Classes : \E k \in 1 .. Len(queues[d]) : x = queues[d][k]
    BY QueuedMember
  <2>2. x = result'.item \/ \E k \in 1 .. Len(queues'[d]) : x = queues'[d][k]
    <3>1. CASE d = c
      <4>1. PICK k \in 1 .. Len(queues[c]) : x = queues[c][k]
        BY <2>1, <3>1
      <4> QED BY <1>3, <3>1, <4>1
    <3>2. CASE d # c
      BY <1>2, <2>1, <3>2
    <3> QED BY <3>1, <3>2
  <2>3. x \in ItemsOf(queues') \/ x = result'.item
    BY <2>2, QueuedMember
  <2> QED BY <2>3
<1> QED BY <1>4, <1>5, <1>6 DEF Queued

-----------------------------------------------------------------------------
(* The queue implements the buffer.                                        *)

\* A lane holds items of its class, and each of them once: so the items that
\* wait can be counted by the slots they take.
BufferInv ==
    /\ \A c \in Classes : \A k \in 1 .. Len(queues[c]) : classifyItem(queues[c][k]) = c
    /\ \A c \in Classes : \A k, l \in 1 .. Len(queues[c]) :
          queues[c][k] = queues[c][l] => k = l
    /\ IsFiniteSet(Queued) /\ Cardinality(Queued) = Cardinality(Slots)

\* An item that is taken in comes behind those of its class.
LEMMA AcceptImplements ==
  ASSUME IInv, BufferInv, NEW i \in Items, i \notin Queued, EnqueueAccept(i)
  PROVE  BufferInv' /\ Buffer!Accept(i)
<1> DEFINE c == classifyItem(i)
           new == Len(queues[c]) + 1
<1>1. /\ c \in Classes /\ queues \in [Classes -> Seq(Items)]
      /\ queues' = [queues EXCEPT ![c] = Append(@, i)]
      /\ Capacity \in Nat \ {0}
  BY ClassifyType, APQAssumption DEF IInv, TypeOK, EnqueueAccept
<1>2. classifyItem(i) = c
  OBVIOUS
<1> HIDE DEF c
<1>3. /\ queues'[c] = Append(queues[c], i)
      /\ \A d \in Classes \ {c} : queues'[d] = queues[d]
  BY <1>1
<1>4. /\ Len(queues[c]) \in Nat
      /\ 1 .. Len(queues'[c]) = (1 .. Len(queues[c])) \cup {new}
      /\ \A k \in 1 .. Len(queues[c]) : queues'[c][k] = queues[c][k] /\ k < new
      /\ queues'[c][new] = i
  <2>1. \A k \in 1 .. Len(queues[c]) : k < new
    BY <1>1, LenProperties
  <2> QED BY <1>1, <1>3, <2>1, LaneAppended
<1> HIDE DEF new
<1>5. \A d \in Classes : \A k \in 1 .. Len(queues[d]) : queues[d][k] # i
  BY QueuedMember DEF Queued
<1>6. Queued' = Queued \cup {i}
  BY AcceptQueued DEF IInv
<1>7. BufferInv'
  <2>1. ASSUME NEW d \in Classes, NEW k \in 1 .. Len(queues'[d])
        PROVE  classifyItem(queues'[d][k]) = d
    BY <1>2, <1>3, <1>4 DEF BufferInv
  <2>2. ASSUME NEW d \in Classes, NEW k \in 1 .. Len(queues'[d]),
               NEW l \in 1 .. Len(queues'[d]), queues'[d][k] = queues'[d][l]
        PROVE  k = l
    <3>1. CASE d = c
      <4>1. (k = new \/ k \in 1 .. Len(queues[c])) /\ (l = new \/ l \in 1 .. Len(queues[c]))
        BY <1>4, <3>1
      <4> QED BY <1>1, <1>4, <1>5, <2>2, <3>1, <4>1 DEF BufferInv
    <3>2. CASE d # c
      BY <1>3, <2>2, <3>2 DEF BufferInv
    <3> QED BY <3>1, <3>2
  <2>3. IsFiniteSet(Queued') /\ Cardinality(Queued') = Cardinality(Queued) + 1
    BY <1>6, FS_AddElement DEF BufferInv
  <2>4. Cardinality(Slots') = Cardinality(Slots) + 1
    <3>1. /\ Slots' = Slots \cup {<<c, Len(queues[c]) + 1>>}
          /\ <<c, Len(queues[c]) + 1>> \notin Slots
      BY <1>1, SlotsAppend DEF Slots
    <3> QED BY <3>1, FS_AddElement DEF IInv
  <2> QED BY <2>1, <2>2, <2>3, <2>4 DEF BufferInv
<1>8. Cardinality(Queued) < Capacity
  <2>1. Cardinality(Slots) \in Nat
    BY FS_CardinalityType DEF IInv
  <2> QED BY <1>1, <2>1 DEF EnqueueAccept, NearlyFull, getTotalSize, BufferInv
<1> DEFINE before == {<<j, i>> : j \in {k \in Queued : classifyItem(k) = classifyItem(i)}}
<1>9. ASSUME NEW x, NEW y
      PROVE  <<x, y>> \in OrderOf(queues') <=> <<x, y>> \in OrderOf(queues) \cup before
  <2>1. <<x, y>> \in before <=> y = i /\ \E k \in 1 .. Len(queues[c]) : x = queues[c][k]
    <3>1. x \in Queued /\ classifyItem(x) = c <=>
             \E k \in 1 .. Len(queues[c]) : x = queues[c][k]
      BY <1>1, QueuedMember DEF Queued, BufferInv
    <3> QED BY <1>2, <3>1
  <2> HIDE DEF before
  <2>2. ASSUME <<x, y>> \in OrderOf(queues')
        PROVE  <<x, y>> \in OrderOf(queues) \cup before
    <3>1. PICK d \in Classes : \E k, l \in 1 .. Len(queues'[d]) :
                 k < l /\ x = queues'[d][k] /\ y = queues'[d][l]
      BY <2>2, OrderMember
    <3>2. CASE d # c
      BY <1>3, <3>1, <3>2, OrderMember
    <3>3. CASE d = c
      <4>1. PICK k \in 1 .. Len(queues'[c]), l \in 1 .. Len(queues'[c]) :
                 k < l /\ x = queues'[c][k] /\ y = queues'[c][l]
        BY <3>1, <3>3
      <4>2. k \in 1 .. Len(queues[c])
        <5>1. k \in 1 .. Len(queues[c]) \/ k = new
          BY <1>4
        <5>2. l \in 1 .. Len(queues[c]) \/ l = new
          BY <1>4
        <5>3. k # new
          BY <1>4, <4>1, <5>2 DEF new
        <5> QED BY <5>1, <5>3
      <4>3. CASE l = new
        BY <1>4, <2>1, <4>1, <4>2, <4>3
      <4>4. CASE l \in 1 .. Len(queues[c])
        BY <1>1, <1>4, <4>1, <4>2, <4>4, OrderMember
      <4> QED BY <1>4, <4>3, <4>4
    <3> QED BY <3>2, <3>3
  <2>3. ASSUME <<x, y>> \in before PROVE <<x, y>> \in OrderOf(queues')
    <3>1. PICK k \in 1 .. Len(queues[c]) : x = queues[c][k]
      BY <2>1, <2>3
    <3>2. k \in 1 .. Len(queues'[c]) /\ new \in 1 .. Len(queues'[c]) /\ k < new
      BY <1>4
    <3>3. x = queues'[c][k] /\ y = queues'[c][new]
      BY <1>4, <2>1, <2>3, <3>1
    <3> QED BY <1>1, <3>2, <3>3, OrderMember
  <2>4. ASSUME <<x, y>> \in OrderOf(queues) PROVE <<x, y>> \in OrderOf(queues')
    <3>1. PICK d \in Classes : \E k, l \in 1 .. Len(queues[d]) :
                 k < l /\ x = queues[d][k] /\ y = queues[d][l]
      BY <2>4, OrderMember
    <3>2. \E k, l \in 1 .. Len(queues'[d]) :
                 k < l /\ x = queues'[d][k] /\ y = queues'[d][l]
      BY <1>3, <1>4, <3>1
    <3> QED BY <3>2, OrderMember
  <2> QED BY <2>2, <2>3, <2>4
<1>10. OrderOf(queues') = OrderOf(queues) \cup before
  <2>1. \A p \in OrderOf(queues') \cup OrderOf(queues) \cup before : p = <<p[1], p[2]>>
    BY DEF OrderOf
  <2> HIDE DEF before
  <2> QED BY <1>9, <2>1
<1>11. result' = Buffer!Answer("enqueued", i)
  BY DEF EnqueueAccept, Outcome, Buffer!Answer
<1>12. {<<j, i>> : j \in {k \in Queued : [n \in Items |-> classifyItem(n)][k]
                                           = [n \in Items |-> classifyItem(n)][i]}} = before
  <2>1. Queued \subseteq Items
    BY QueuedType DEF IInv
  <2> QED BY <2>1
<1>13. Buffer!Cardinality(Queued) = Cardinality(Queued)
  BY Zenon DEF Buffer!Cardinality, Cardinality
<1> HIDE DEF before
<1> QED BY <1>6, <1>7, <1>8, <1>10, <1>11, <1>12, <1>13 DEF Buffer!Accept

\* The item handed out is the first of its class.
LEMMA DeliverImplements ==
  ASSUME IInv, BufferInv, DequeueItem
  PROVE  BufferInv' /\ Buffer!Deliver(result'.item)
<1> DEFINE c == SelectedClass
           i == queues[c][1]
<1>1. /\ c \in Classes /\ queues \in [Classes -> Seq(Items)]
      /\ queues[c] # <<>>
      /\ queues' = [queues EXCEPT ![c] = Tail(@)]
      /\ result' = Outcome("dequeued", Head(queues[c]))
  BY SelectionType DEF IInv, TypeOK, DequeueItem
<1> HIDE DEF c
<1>2. /\ queues'[c] = Tail(queues[c])
      /\ \A d \in Classes \ {c} : queues'[d] = queues[d]
  BY <1>1
<1>3. /\ Len(queues[c]) \in Nat \ {0} /\ Len(queues'[c]) = Len(queues[c]) - 1
      /\ \A k \in 1 .. Len(queues'[c]) :
            k + 1 \in 1 .. Len(queues[c]) /\ queues'[c][k] = queues[c][k + 1]
      /\ \A k \in 1 .. Len(queues[c]) :
            k = 1 \/ (k - 1 \in 1 .. Len(queues'[c]) /\ queues'[c][k - 1] = queues[c][k])
      /\ Head(queues[c]) = i
  BY <1>1, <1>2, LaneServed
<1>4. 1 \in 1 .. Len(queues[c])
  BY <1>3
<1>5. \A k \in 1 .. Len(queues'[c]) : k \in Nat /\ k + 1 # 1
  OBVIOUS
<1> HIDE DEF i
<1>6. \A d \in Classes : \A k \in 1 .. Len(queues[d]) : queues[d][k] = i => d = c /\ k = 1
  <2>1. ASSUME NEW d \in Classes, NEW k \in 1 .. Len(queues[d]), queues[d][k] = i
        PROVE  d = c
    BY <1>1, <1>4, <2>1 DEF BufferInv, i
  <2>2. ASSUME NEW k \in 1 .. Len(queues[c]), queues[c][k] = i PROVE k = 1
    BY <1>1, <1>4, <2>2 DEF BufferInv, i
  <2> QED BY <2>1, <2>2
<1>7. ASSUME NEW d \in Classes, NEW k \in 1 .. Len(queues'[d]) PROVE queues'[d][k] # i
  <2>1. CASE d = c
    BY <1>1, <1>3, <1>5, <1>6, <2>1
  <2>2. CASE d # c
    BY <1>2, <1>6, <2>2
  <2> QED BY <2>1, <2>2
<1>8. result'.item = i /\ result' = Buffer!Answer("dequeued", i)
  BY <1>1, <1>3 DEF Outcome, Buffer!Answer
<1>9. i \in Queued /\ Queued' = Queued \ {i}
  <2>1. i \notin Queued'
    BY <1>7, QueuedMember DEF Queued
  <2> QED BY <1>8, <2>1, DequeueQueued DEF IInv
<1>10. BufferInv'
  <2>1. ASSUME NEW d \in Classes, NEW k \in 1 .. Len(queues'[d])
        PROVE  classifyItem(queues'[d][k]) = d
    <3>1. CASE d = c
      BY <1>1, <1>3, <3>1 DEF BufferInv
    <3>2. CASE d # c
      BY <1>2, <3>2 DEF BufferInv
    <3> QED BY <3>1, <3>2
  <2>2. ASSUME NEW d \in Classes, NEW k \in 1 .. Len(queues'[d]),
               NEW l \in 1 .. Len(queues'[d]), queues'[d][k] = queues'[d][l]
        PROVE  k = l
    <3>1. CASE d = c
      <4>1. k + 1 = l + 1
        BY <1>1, <1>3, <2>2, <3>1 DEF BufferInv
      <4> QED BY <4>1
    <3>2. CASE d # c
      BY <1>2, <2>2, <3>2 DEF BufferInv
    <3> QED BY <3>1, <3>2
  <2>3. IsFiniteSet(Queued') /\ Cardinality(Queued') = Cardinality(Queued) - 1
    BY <1>9, FS_RemoveElement DEF BufferInv
  <2>4. Cardinality(Slots') = Cardinality(Slots) - 1
    <3>1. /\ Slots' = Slots \ {<<c, Len(queues[c])>>}
          /\ <<c, Len(queues[c])>> \in Slots
      BY <1>1, SlotsTail DEF Slots
    <3> QED BY <3>1, FS_RemoveElement DEF IInv
  <2> QED BY <2>1, <2>2, <2>3, <2>4 DEF BufferInv
<1>11. \A j \in Queued : <<j, i>> \notin OrderOf(queues)
  <2> SUFFICES ASSUME NEW j, <<j, i>> \in OrderOf(queues) PROVE FALSE
    OBVIOUS
  <2>1. PICK d \in Classes : \E k, l \in 1 .. Len(queues[d]) :
           k < l /\ j = queues[d][k] /\ i = queues[d][l]
    BY OrderMember
  <2>2. PICK k \in 1 .. Len(queues[d]), l \in 1 .. Len(queues[d]) :
           k < l /\ i = queues[d][l]
    BY <2>1
  <2>3. l = 1
    BY <1>6, <2>2
  <2> QED BY <2>2, <2>3
<1> DEFINE rest == {p \in OrderOf(queues) : p[1] # i /\ p[2] # i}
<1>12. ASSUME NEW x, NEW y
       PROVE  <<x, y>> \in OrderOf(queues') <=> <<x, y>> \in rest
  <2>1. <<x, y>> \in rest <=> <<x, y>> \in OrderOf(queues) /\ x # i /\ y # i
    OBVIOUS
  <2> HIDE DEF rest
  <2>2. ASSUME <<x, y>> \in OrderOf(queues') PROVE <<x, y>> \in rest
    <3>1. PICK d \in Classes : \E k, l \in 1 .. Len(queues'[d]) :
             k < l /\ x = queues'[d][k] /\ y = queues'[d][l]
      BY <2>2, OrderMember
    <3>2. x # i /\ y # i
      BY <1>7, <3>1
    <3>3. \E k, l \in 1 .. Len(queues[d]) :
             k < l /\ x = queues[d][k] /\ y = queues[d][l]
      <4>1. CASE d # c
        BY <1>2, <3>1, <4>1
      <4>2. CASE d = c
        <5>1. PICK k \in 1 .. Len(queues'[c]), l \in 1 .. Len(queues'[c]) :
                 k < l /\ x = queues'[c][k] /\ y = queues'[c][l]
          BY <3>1, <4>2
        <5>2. k + 1 < l + 1
          BY <5>1
        <5> QED BY <1>3, <4>2, <5>1, <5>2
      <4> QED BY <4>1, <4>2
    <3> QED BY <2>1, <3>2, <3>3, OrderMember
  <2>3. ASSUME <<x, y>> \in rest PROVE <<x, y>> \in OrderOf(queues')
    <3>1. PICK d \in Classes : \E k, l \in 1 .. Len(queues[d]) :
             k < l /\ x = queues[d][k] /\ y = queues[d][l]
      BY <2>1, <2>3, OrderMember
    <3>2. \E k, l \in 1 .. Len(queues'[d]) :
             k < l /\ x = queues'[d][k] /\ y = queues'[d][l]
      <4>1. CASE d # c
        BY <1>2, <3>1, <4>1
      <4>2. CASE d = c
        <5>1. PICK k \in 1 .. Len(queues[c]), l \in 1 .. Len(queues[c]) :
                 k < l /\ x = queues[c][k] /\ y = queues[c][l]
          BY <3>1, <4>2
        <5>2. k # 1 /\ l # 1
          BY <2>1, <2>3, <5>1 DEF i
        <5>3. k - 1 < l - 1
          BY <5>1
        <5> QED BY <1>3, <4>2, <5>1, <5>2, <5>3
      <4> QED BY <4>1, <4>2
    <3> QED BY <3>2, OrderMember
  <2> QED BY <2>2, <2>3
<1>13. OrderOf(queues') = rest
  <2>1. \A p \in OrderOf(queues') \cup rest : p = <<p[1], p[2]>>
    BY DEF OrderOf
  <2> HIDE DEF rest
  <2> QED BY <1>12, <2>1
<1> QED BY <1>8, <1>9, <1>10, <1>11, <1>13 DEF Buffer!Deliver

\* Every call is a step of the buffer or one it does not see.
LEMMA StepImplements ==
  IInv /\ BufferInv /\ [Next]_vars
     => BufferInv' /\ [Buffer!Next]_<<Queued, OrderOf(queues), result>>
<1> SUFFICES ASSUME IInv, BufferInv, [Next]_vars
             PROVE  BufferInv' /\ [Buffer!Next]_<<Queued, OrderOf(queues), result>>
  OBVIOUS
<1>1. ASSUME UNCHANGED queues
      PROVE  BufferInv' /\ UNCHANGED <<Queued, OrderOf(queues)>>
  BY <1>1 DEF BufferInv, Queued, ItemsOf, OrderOf, Slots
<1>2. CASE UNCHANGED vars
  BY <1>1, <1>2 DEF vars
<1>3. ASSUME NEW set \in BOOLEAN, SetSpillFunc(set)
      PROVE  BufferInv' /\ UNCHANGED <<Queued, OrderOf(queues), result>>
  BY <1>1, <1>3 DEF SetSpillFunc, queueVars
<1>4. ASSUME NEW i \in Items, Enqueue(i) PROVE BufferInv' /\ Buffer!Next
  <2>1. i \notin Queued
    BY <1>4 DEF Enqueue
  <2>2. CASE EnqueueAccept(i)
    BY <2>1, <2>2, AcceptImplements DEF Buffer!Next
  <2>3. CASE EnqueueSpill(i) \/ EnqueueReject(i)
    <3>1. UNCHANGED queues
      BY <2>3 DEF EnqueueSpill, EnqueueReject, queueVars
    <3>2. \E status \in {"spilled", "spillFailed", "rejected"} :
             result' = Buffer!Answer(status, i)
      BY <2>3 DEF EnqueueSpill, EnqueueReject, Outcome, Buffer!Answer
    <3>3. Buffer!TurnAway(i)
      BY <1>1, <2>1, <3>1, <3>2 DEF Buffer!TurnAway, Buffer!bufferVars
    <3> QED BY <1>1, <3>1, <3>3 DEF Buffer!Next
  <2> QED BY <1>4, <2>2, <2>3 DEF Enqueue
<1>5. CASE Dequeue
  <2>1. CASE DequeueItem
    <3>1. BufferInv' /\ Buffer!Deliver(result'.item) /\ result'.item \in Queued
      BY <2>1, DeliverImplements, DequeueQueued DEF IInv
    <3>2. result'.item \in Items
      BY <3>1, QueuedType DEF IInv
    <3> QED BY <3>1, <3>2 DEF Buffer!Next
  <2>2. CASE DequeueEmpty \/ DequeueMiss
    <3>1. UNCHANGED queues
      BY <2>2 DEF DequeueEmpty, DequeueMiss, queueVars
    <3>2. Queued = {} <=> getTotalSize = 0
      BY FS_EmptySet DEF BufferInv, IInv, getTotalSize
    <3>3. Buffer!DeliverNothing
      BY <1>1, <2>2, <3>1, <3>2
      DEF DequeueEmpty, DequeueMiss, Outcome,
          Buffer!DeliverNothing, Buffer!Answer, Buffer!bufferVars
    <3> QED BY <1>1, <3>1, <3>3 DEF Buffer!Next
  <2> QED BY <1>5, <2>1, <2>2 DEF Dequeue
<1> QED BY <1>2, <1>3, <1>4, <1>5 DEF Next

\* The lanes, the round robin and the spill rule implement a bounded buffer
\* that loses, repeats and reorders nothing inside a class
\* (plugin.go:143-210).
THEOREM BufferImplemented == Spec => ImplementsBuffer
<1>1. Init => BufferInv /\ Buffer!Init
  <2> SUFFICES ASSUME Init PROVE BufferInv /\ Buffer!Init
    OBVIOUS
  <2>1. /\ queues = [c \in Classes |-> <<>>]
        /\ \A c \in Classes : Len(queues[c]) = 0 /\ 1 .. Len(queues[c]) = {}
    BY EmptySeq DEF Init
  <2>2. Queued = {} /\ OrderOf(queues) = {} /\ Slots = {}
    BY <2>1 DEF Queued, ItemsOf, OrderOf, Slots, SlotsOf
  <2>3. result = Buffer!Answer("none", NoItem)
    BY DEF Init, Outcome, Buffer!Answer
  <2> QED BY <2>1, <2>2, <2>3, FS_EmptySet DEF BufferInv, Buffer!Init
<1> QED BY <1>1, Invariant, StepImplements, PTL DEF Spec, ImplementsBuffer, Buffer!Spec

=============================================================================
