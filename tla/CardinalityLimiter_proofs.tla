---------------------- MODULE CardinalityLimiter_proofs ----------------------
(***************************************************************************)
(* For any number of calls, any batches and any bound: the map of tracked  *)
(* keys stays within max_keys, never shrinks, cl_keys_used catches up, and *)
(* every variable keeps its type.                                          *)
(***************************************************************************)
EXTENDS CardinalityLimiter, SequenceTheorems, FiniteSetTheorems,
        WellFoundedInduction, TLAPS

\* What the three properties need of the state: the gauge was once the size
\* of a map that has only grown since.
IInv ==
    /\ IsFiniteSet(keyMap) /\ KeysBounded
    /\ keysUsed \in Nat /\ keysUsed <= Cardinality(keyMap)
    /\ tracked \in [Callers -> BOOLEAN]
    /\ GaugeCatchesUp

-----------------------------------------------------------------------------
\* The locked section of lines 129-141 keeps a finite map within its bound and
\* never makes it smaller: what it evicts makes room for what it added.
LEMMA TrackBounds ==
    ASSUME NEW key, IsFiniteSet(keyMap), KeysBounded, Track(key)
    PROVE  /\ IsFiniteSet(keyMap')
           /\ KeysBounded'
           /\ Cardinality(keyMap') >= Cardinality(keyMap)
<1> DEFINE More == keyMap \cup {key}
<1>1. MaxKeys \in Nat /\ Cardinality(keyMap) \in Nat
  BY CLAssumption, FS_CardinalityType DEF CLAssumption
<1>2. /\ IsFiniteSet(More)
      /\ \/ Cardinality(More) = Cardinality(keyMap)
         \/ Cardinality(More) = Cardinality(keyMap) + 1
  BY FS_AddElement
<1>3. CASE Cardinality(More) <= MaxKeys /\ keyMap' = More
  BY <1>1, <1>2, <1>3 DEF KeysBounded
<1>4. CASE /\ Cardinality(More) > MaxKeys
           /\ \E k \in More : keyMap' = More \ {k}
  <2>1. PICK k \in More : keyMap' = More \ {k}
    BY <1>4
  <2>2. /\ IsFiniteSet(More \ {k})
        /\ Cardinality(More \ {k}) = Cardinality(More) - 1
    BY <1>2, FS_RemoveElement
  <2>3. Cardinality(More) = Cardinality(keyMap) + 1
    BY <1>1, <1>2, <1>4 DEF KeysBounded
  <2> QED
    BY <1>1, <2>1, <2>2, <2>3 DEF KeysBounded
<1> QED
  BY <1>3, <1>4 DEF Track

\* No call has begun and the map is empty.
LEMMA InitIInv == Init => IInv
<1> SUFFICES ASSUME Init PROVE IInv
  OBVIOUS
<1>1. IsFiniteSet({}) /\ Cardinality({}) = 0
  BY FS_EmptySet
<1> QED
  BY <1>1, CLAssumption DEF Init, IInv, KeysBounded, GaugeCatchesUp, CLAssumption

\* Every step keeps the invariant and lowers neither the map nor the gauge.
LEMMA StepIInv ==
    IInv /\ [Next]_vars
        => IInv' /\ Cardinality(keyMap') >= Cardinality(keyMap) /\ keysUsed' >= keysUsed
<1> SUFFICES ASSUME IInv, [Next]_vars
             PROVE  /\ IInv'
                    /\ Cardinality(keyMap') >= Cardinality(keyMap)
                    /\ keysUsed' >= keysUsed
  OBVIOUS
<1>0. Cardinality(keyMap) \in Nat /\ keysUsed \in Nat
  BY FS_CardinalityType DEF IInv
<1>1. ASSUME UNCHANGED <<keyMap, keysUsed, tracked>>
      PROVE  /\ IInv'
             /\ Cardinality(keyMap') >= Cardinality(keyMap)
             /\ keysUsed' >= keysUsed
  BY <1>0, <1>1 DEF IInv, KeysBounded, GaugeCatchesUp
<1>2. ASSUME NEW w \in Callers, NEW b \in Batches, Receive(w, b)
      PROVE  UNCHANGED <<keyMap, keysUsed, tracked>>
  BY <1>2 DEF Receive
<1>3. ASSUME NEW w \in Callers, ReceiveEmpty(w) \/ Finish(w)
      PROVE  /\ IInv'
             /\ Cardinality(keyMap') >= Cardinality(keyMap)
             /\ keysUsed' >= keysUsed
  <2>1. /\ keyMap' = keyMap /\ keysUsed' = Cardinality(keyMap)
        /\ tracked' = tracked \/ tracked' = [tracked EXCEPT ![w] = FALSE]
    BY <1>3 DEF ReceiveEmpty, Finish
  <2>2. tracked' \in [Callers -> BOOLEAN]
    BY <2>1 DEF IInv
  <2>3. Cardinality(keyMap') = Cardinality(keyMap) /\ keysUsed' = Cardinality(keyMap')
    BY <2>1
  <2>4. KeysBounded' /\ GaugeCatchesUp' /\ IsFiniteSet(keyMap')
    BY <2>1, <2>3 DEF IInv, KeysBounded, GaugeCatchesUp
  <2> QED
    BY <1>0, <2>2, <2>3, <2>4 DEF IInv
<1>4. ASSUME NEW w \in Callers, ProcessPoint(w)
      PROVE  /\ IInv'
             /\ Cardinality(keyMap') >= Cardinality(keyMap)
             /\ keysUsed' >= keysUsed
  <2>1. keysUsed' = keysUsed
    BY <1>4 DEF ProcessPoint
  <2>2. \/ UNCHANGED <<keyMap, tracked>>
        \/ /\ \E key : Track(key)
           /\ tracked' = [tracked EXCEPT ![w] = TRUE]
    BY <1>4 DEF ProcessPoint
  <2>3. CASE UNCHANGED <<keyMap, tracked>>
    BY <1>1, <2>1, <2>3
  <2>4. CASE /\ \E key : Track(key)
             /\ tracked' = [tracked EXCEPT ![w] = TRUE]
    <3>1. PICK key : Track(key)
      BY <2>4
    <3>2. /\ IsFiniteSet(keyMap')
          /\ KeysBounded'
          /\ Cardinality(keyMap') >= Cardinality(keyMap)
      BY <3>1, TrackBounds DEF IInv
    <3>3. Cardinality(keyMap') \in Nat
      BY <3>2, FS_CardinalityType
    <3>4. tracked' \in [Callers -> BOOLEAN] /\ tracked'[w] = TRUE
      BY <2>4 DEF IInv
    <3> QED
      BY <1>0, <2>1, <3>2, <3>3, <3>4 DEF IInv, GaugeCatchesUp
  <2> QED
    BY <2>2, <2>3, <2>4
<1> QED
  BY <1>1, <1>2, <1>3, <1>4 DEF Next, vars

-----------------------------------------------------------------------------
\* The invariant holds throughout.
LEMMA Invariant == Spec => []IInv
<1>1. IInv /\ [Next]_vars => IInv'
  BY StepIInv
<1> QED
  BY <1>1, InitIInv, PTL DEF Spec

\* max_keys bounds the map however the calls interleave (lines 129-141).
THEOREM KeysAreBounded == Spec => []KeysBounded
<1>1. IInv => KeysBounded
  BY DEF IInv
<1> QED
  BY <1>1, Invariant, PTL

\* The gauge differs from the size of the map only while a call that changed
\* the map is still to set it (lines 101-104 against 129-141).
THEOREM GaugeIsCaughtUp == Spec => []GaugeCatchesUp
<1>1. IInv => GaugeCatchesUp
  BY DEF IInv
<1> QED
  BY <1>1, Invariant, PTL

\* Neither the map nor the gauge is ever seen to fall (lines 132-140).
THEOREM MapNeverShrinks == Spec => NeverShrinks
<1>1. IInv /\ [Next]_vars
          => [Cardinality(keyMap') >= Cardinality(keyMap) /\ keysUsed' >= keysUsed]_vars
  BY StepIInv
<1> QED
  BY <1>1, Invariant, PTL DEF Spec, NeverShrinks

-----------------------------------------------------------------------------
(* The labels that are left.                                               *)

\* A set of numbers has a least one: the intervals below its members are
\* finite sets, and inclusion of those is well founded.
LEMMA LeastNatural ==
    ASSUME NEW S \in SUBSET Nat, S # {}
    PROVE  \E m \in S : \A k \in S : m <= k
<1> DEFINE Below == {0 .. k : k \in S}
<1>1. Below \subseteq FiniteSubsetsOf(Nat) /\ Below # {}
  <2>1. \A k \in S : 0 .. k \in FiniteSubsetsOf(Nat)
    BY FS_Interval DEF FiniteSubsetsOf
  <2> QED
    BY <2>1
<1>2. PICK x \in Below : \A y \in Below : ~ (<<y, x>> \in StrictSubsetOrdering(Nat))
  <2> HIDE DEF Below
  <2>1. IsWellFoundedOn(StrictSubsetOrdering(Nat), FiniteSubsetsOf(Nat))
    BY FS_StrictSubsetOrderingWellFounded, Zenon
  <2> QED
    BY <1>1, <2>1, WFMin, Zenon
<1>3. PICK m \in S : x = 0 .. m
  OBVIOUS
<1>4. ASSUME NEW k \in S, k < m PROVE FALSE
  <2>1. 0 .. k \subseteq Nat /\ 0 .. m \subseteq Nat /\ 0 .. k \subseteq 0 .. m
    BY <1>4
  <2>2. m \in 0 .. m /\ m \notin 0 .. k
    BY <1>4
  <2>3. <<0 .. k, 0 .. m>> \in StrictSubsetOrdering(Nat)
    BY <2>1, <2>2 DEF StrictSubsetOrdering
  <2> QED
    BY <1>2, <1>3, <2>3
<1> QED
  BY <1>4

\* One step of the removal, ...
Leaves(g, attrs, n) ==
    IF n = 0 THEN <<>>
    ELSE IF attrs[n] \in AggregateLabels THEN g[n - 1]
    ELSE Append(g[n - 1], attrs[n])

\* ... and what the first n labels leave.
Removes(g, attrs, n) == g = [k \in 0 .. n |-> Leaves(g, attrs, k)]

\* The function that Kept chooses exists: a least number of labels without one
\* would have one more label than a number with one.
LEMMA KeptExists == ASSUME NEW attrs, NEW n \in Nat PROVE \E g : Removes(g, attrs, n)
<1> DEFINE S == {m \in Nat : ~ \E g : Removes(g, attrs, m)}
<1> SUFFICES ASSUME S # {} PROVE FALSE
  OBVIOUS
<1>1. PICK m \in S : \A k \in S : m <= k
  <2>1. S \in SUBSET Nat
    OBVIOUS
  <2> HIDE DEF S
  <2> QED
    BY <2>1, LeastNatural
<1>2. m \in Nat /\ ~ \E g : Removes(g, attrs, m)
  OBVIOUS
<1>3. CASE m = 0
  <2> DEFINE g == [k \in 0 .. 0 |-> <<>>]
  <2>1. Removes(g, attrs, 0)
    BY DEF Removes, Leaves
  <2> QED
    BY <1>2, <1>3, <2>1
<1>4. CASE m # 0
  <2>1. m - 1 \in Nat /\ ~ (m <= m - 1)
    BY <1>2, <1>4
  <2>2. PICK g : Removes(g, attrs, m - 1)
    BY <1>1, <2>1
  <2> DEFINE h == [k \in 0 .. m |-> IF k = m THEN Leaves(g, attrs, m) ELSE g[k]]
  <2>3. \A k \in 0 .. m : h[k] = IF k = m THEN Leaves(g, attrs, m) ELSE g[k]
    OBVIOUS
  <2>4. \A k \in 0 .. m - 1 : g[k] = Leaves(g, attrs, k)
    BY <2>2 DEF Removes
  <2>5. h = [k \in 0 .. m |-> h[k]]
    OBVIOUS
  <2> HIDE DEF h
  <2>6. \A k \in 0 .. m : h[k] = Leaves(h, attrs, k)
    <3> TAKE k \in 0 .. m
    <3>1. CASE k = 0
      <4>1. 0 \in 0 .. m - 1 /\ 0 \in 0 .. m /\ 0 # m
        BY <1>2, <1>4
      <4>2. h[0] = g[0] /\ g[0] = Leaves(g, attrs, 0)
        BY <2>3, <2>4, <4>1
      <4> QED
        BY <3>1, <4>2 DEF Leaves
    <3>2. CASE k # 0
      <4>1. k - 1 \in 0 .. m /\ k - 1 # m /\ (k # m => k \in 0 .. m - 1)
        BY <1>2, <3>2
      <4>2. h[k - 1] = g[k - 1]
        BY <2>3, <4>1
      <4>3. Leaves(h, attrs, k) = Leaves(g, attrs, k)
        BY <3>2, <4>2 DEF Leaves
      <4>4. h[k] = Leaves(g, attrs, k)
        BY <2>3, <2>4, <4>1
      <4> QED
        BY <4>3, <4>4
    <3> QED
      BY <3>1, <3>2
  <2>7. Removes(h, attrs, m)
    BY <2>5, <2>6 DEF Removes
  <2> QED
    BY <1>2, <2>7
<1> QED
  BY <1>3, <1>4

\* What is left of labels are labels.
LEMMA AggregatedType == ASSUME NEW attrs \in Seq(Labels) PROVE Aggregated(attrs) \in Seq(Labels)
<1> DEFINE K == Kept(attrs)
           S == {n \in 0 .. Len(attrs) : K[n] \notin Seq(Labels)}
<1>1. Len(attrs) \in Nat /\ \A n \in 1 .. Len(attrs) : attrs[n] \in Labels
  BY LenProperties
<1>2. Removes(K, attrs, Len(attrs))
  <2>1. K = CHOOSE g : Removes(g, attrs, Len(attrs))
    BY DEF Kept, Removes, Leaves
  <2> HIDE DEF K
  <2> QED
    BY <1>1, <2>1, KeptExists
<1> HIDE DEF K
<1>3. \A n \in 0 .. Len(attrs) : K[n] = Leaves(K, attrs, n)
  BY <1>2 DEF Removes
<1>4. S = {}
  <2> SUFFICES ASSUME S # {} PROVE FALSE
    OBVIOUS
  <2>1. S \in SUBSET Nat
    BY <1>1
  <2>2. PICK n \in S : \A k \in S : n <= k
    <3> HIDE DEF S
    <3> QED
      BY <2>1, LeastNatural
  <2>3. n \in 0 .. Len(attrs) /\ K[n] \notin Seq(Labels) /\ K[n] = Leaves(K, attrs, n)
    BY <1>3
  <2>4. n # 0
    BY <2>3, EmptySeq DEF Leaves
  <2>5. n - 1 \in 0 .. Len(attrs) /\ ~ (n <= n - 1) /\ n \in 1 .. Len(attrs)
    BY <1>1, <2>3, <2>4
  <2>6. K[n - 1] \in Seq(Labels) /\ attrs[n] \in Labels
    BY <1>1, <2>2, <2>5
  <2>7. Append(K[n - 1], attrs[n]) \in Seq(Labels)
    BY <2>6, AppendProperties
  <2> QED
    BY <2>3, <2>4, <2>6, <2>7 DEF Leaves
<1>5. K[Len(attrs)] \in Seq(Labels)
  <2>1. Len(attrs) \in 0 .. Len(attrs)
    BY <1>1
  <2> QED
    BY <1>4, <2>1
<1> QED
  BY <1>5 DEF Aggregated, K

-----------------------------------------------------------------------------
\* A point leaves its call with labels, and its key is made of them.
LEMMA StepType == ASSUME TypeOK, IInv, [Next]_vars PROVE TypeOK'
<1>1. IsFiniteSet(keyMap') /\ keysUsed' \in Nat /\ tracked' \in [Callers -> BOOLEAN]
  BY StepIInv DEF IInv
<1>2. CASE UNCHANGED vars
  BY <1>2 DEF TypeOK, vars
<1>3. ASSUME NEW w \in Callers, NEW b \in Batches, Receive(w, b) PROVE TypeOK'
  <2>1. b \in Seq(Points)
    BY CLAssumption DEF CLAssumption
  <2> QED
    BY <1>1, <1>3, <2>1 DEF Receive, TypeOK
<1>4. ASSUME NEW w \in Callers, ReceiveEmpty(w) PROVE TypeOK'
  BY <1>1, <1>4 DEF ReceiveEmpty, TypeOK
<1>5. ASSUME NEW w \in Callers, ProcessPoint(w) PROVE TypeOK'
  <2> DEFINE p == Head(batch[w])
             attrs == IF p \in Counted THEN Aggregated(Attributes[p]) ELSE Attributes[p]
  <2>1. p \in Points /\ Tail(batch[w]) \in Seq(Points)
    <3>1. batch[w] \in Seq(Points) /\ batch[w] # <<>>
      BY <1>5 DEF TypeOK, ProcessPoint
    <3> QED
      BY <3>1, HeadTailProperties
  <2>2. attrs \in Seq(Labels)
    <3> HIDE DEF p
    <3>1. Attributes[p] \in Seq(Labels)
      BY <2>1, CLAssumption DEF CLAssumption
    <3> QED
      BY <3>1, AggregatedType
  <2>3. /\ done' = [done EXCEPT ![w] = @ \cup {<<p, attrs>>}]
        /\ Track(attrs) \/ UNCHANGED keyMap
        /\ droppedSamples' = droppedSamples \/ droppedSamples' = droppedSamples \cup {p}
        /\ batch' = [batch EXCEPT ![w] = Tail(@)]
        /\ UNCHANGED emitted
    BY <1>5 DEF ProcessPoint, hashAttributes
  <2> HIDE DEF p, attrs
  <2>4. keyMap' \subseteq Seq(Labels)
    BY <2>2, <2>3 DEF Track, TypeOK
  <2>5. done' \in [Callers -> SUBSET (Points \X Seq(Labels))]
    BY <2>1, <2>2, <2>3 DEF TypeOK
  <2>6. batch' \in [Callers -> Seq(Points)]
    BY <2>1, <2>3 DEF TypeOK
  <2>7. droppedSamples' \subseteq Points /\ emitted' \subseteq Points \X Seq(Labels)
    BY <2>1, <2>3 DEF TypeOK
  <2> QED
    BY <1>1, <2>4, <2>5, <2>6, <2>7 DEF TypeOK
<1>6. ASSUME NEW w \in Callers, Finish(w) PROVE TypeOK'
  <2>1. emitted' \subseteq Points \X Seq(Labels)
    BY <1>6 DEF Finish, TypeOK
  <2>2. done' \in [Callers -> SUBSET (Points \X Seq(Labels))]
    BY <1>6 DEF Finish, TypeOK
  <2> QED
    BY <1>1, <1>6, <2>1, <2>2 DEF Finish, TypeOK
<1> QED
  BY <1>2, <1>3, <1>4, <1>5, <1>6 DEF Next

\* Every variable keeps its type for any labels, points and batches: removing
\* labels leaves the labels of a point (lines 120-125), and keys are made of
\* labels only.
THEOREM TypeCorrect == Spec => []TypeOK
<1>1. Init => TypeOK
  BY FS_EmptySet, EmptySeq DEF Init, TypeOK
<1>2. TypeOK /\ IInv /\ [Next]_vars => TypeOK'
  BY StepType
<1> QED
  BY <1>1, <1>2, Invariant, PTL DEF Spec
=============================================================================
