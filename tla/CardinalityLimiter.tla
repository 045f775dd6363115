-------------------------- MODULE CardinalityLimiter --------------------------
(***************************************************************************)
(* The cardinality limiter processor, plugins/cl/plugin.go.  Several calls *)
(* of processMetrics run at once, each on a batch of its own; they share   *)
(* keyMap, under keyMapMutex, and the gauge cl_keys_used.                  *)
(*                                                                         *)
(* Scoring a point and removing its labels touches only the caller's batch *)
(* and is one action with the locked update of keyMap that follows.  The   *)
(* three loops over number, histogram and summary points are the same.     *)
(* keyMap counts occurrences of a key, but nothing reads the counts: only  *)
(* its domain is kept.  A hash is the sequence of labels hashed.           *)
(***************************************************************************)
EXTENDS Integers, Sequences, FiniteSets
LOCAL INSTANCE Functions

CONSTANTS
    Callers,          \* concurrent calls of processMetrics
    Points,           \* the data points of all batches
    Labels,           \* key and value pairs
    Attributes,       \* Attributes[p]: the labels of p, in the order they are kept
    Chars,            \* Chars[l]: characters of key and value of l
    Counted,          \* the points of gauges, sums, histograms and summaries
    AggregateLabels,  \* the labels whose key is configured for removal
    Batches,          \* the sequences of points that may arrive
    MaxKeys,
    HighScore, CriticalScore   \* in percent

ASSUME CLAssumption ==
    /\ Attributes \in [Points -> Seq(Labels)]
    /\ Chars \in [Labels -> Nat]
    /\ Counted \subseteq Points
    /\ AggregateLabels \subseteq Labels
    /\ Batches \subseteq Seq(Points)
    /\ MaxKeys \in Nat \ {0}
    /\ HighScore \in Nat \ {0} /\ CriticalScore \in Nat \ {0}

VARIABLES
    keyMap,          \* the keys tracked
    keysUsed,        \* the gauge cl_keys_used
    droppedSamples,  \* the points cl_dropped_samples_total has counted
    batch,           \* batch[w]: points call w has still to process
    done,            \* done[w]: points it has processed, with their labels
    tracked,         \* tracked[w]: has it touched keyMap since its last return?
    emitted          \* the points handed to the next consumer, with their labels

vars == <<keyMap, keysUsed, droppedSamples, batch, done, tracked, emitted>>

-----------------------------------------------------------------------------
\* score >= t percent, where the score is at most 1 and counts characters
\* against 100 and 5 for each label.
ScoreReaches(attrs, t) ==
    /\ t <= 100
    /\ 100 * FoldFunction(+, 0, [k \in DOMAIN attrs |-> Chars[attrs[k]]])
          >= t * (100 + 5 * Len(attrs))

IsCritical(attrs) == ScoreReaches(attrs, CriticalScore)
IsHigh(attrs) == ~IsCritical(attrs) /\ ScoreReaches(attrs, HighScore)

\* The labels that removal leaves of the first n, in their order.
Kept(attrs) ==
    LET kept[n \in 0 .. Len(attrs)] ==
            IF n = 0 THEN <<>>
            ELSE IF attrs[n] \in AggregateLabels THEN kept[n - 1]
            ELSE Append(kept[n - 1], attrs[n])
    IN  kept

\* Labels after aggregation.
Aggregated(attrs) == IF IsHigh(attrs) THEN Kept(attrs)[Len(attrs)] ELSE attrs

\* The hash runs over the labels in the order they are kept.
hashAttributes(attrs) == attrs

\* Variants: room for one key too many; evict down to an empty map.
TrackLoose(key) ==
    \/ Cardinality(keyMap \cup {key}) <= MaxKeys + 1 /\ keyMap' = keyMap \cup {key}
    \/ /\ Cardinality(keyMap \cup {key}) > MaxKeys + 1
       /\ \E k \in keyMap \cup {key} : keyMap' = (keyMap \cup {key}) \ {k}
TrackPurging(key) ==
    keyMap' = IF Cardinality(keyMap \cup {key}) > MaxKeys THEN {key}
              ELSE keyMap \cup {key}

\* A new key beyond MaxKeys evicts some key, possibly itself.
Track(key) ==
    \/ Cardinality(keyMap \cup {key}) <= MaxKeys /\ keyMap' = keyMap \cup {key}
    \/ /\ Cardinality(keyMap \cup {key}) > MaxKeys
       /\ \E k \in keyMap \cup {key} : keyMap' = (keyMap \cup {key}) \ {k}

-----------------------------------------------------------------------------
Init ==
    /\ keyMap = {} /\ keysUsed = 0 /\ droppedSamples = {}
    /\ batch = [w \in Callers |-> <<>>]
    /\ done = [w \in Callers |-> {}]
    /\ tracked = [w \in Callers |-> FALSE]
    /\ emitted = {}

Idle(w) == batch[w] = <<>> /\ done[w] = {}

Receive(w, b) ==
    /\ Idle(w) /\ b # <<>>
    /\ batch' = [batch EXCEPT ![w] = b]
    /\ UNCHANGED <<keyMap, keysUsed, droppedSamples, done, tracked, emitted>>

\* A call without points only refreshes the gauge.
ReceiveEmpty(w) ==
    /\ Idle(w)
    /\ keysUsed' = Cardinality(keyMap)
    /\ UNCHANGED <<keyMap, droppedSamples, batch, done, tracked, emitted>>

\* The next point of the batch; other metric types pass through untouched.
ProcessPoint(w) ==
    /\ batch[w] # <<>>
    /\ LET p == Head(batch[w])
           attrs == IF p \in Counted THEN Aggregated(Attributes[p]) ELSE Attributes[p]
       IN  /\ done' = [done EXCEPT ![w] = @ \cup {<<p, attrs>>}]
           /\ IF p \in Counted
              THEN /\ Track(hashAttributes(attrs))
                   /\ tracked' = [tracked EXCEPT ![w] = TRUE]
              ELSE UNCHANGED <<keyMap, tracked>>
           /\ droppedSamples' =
                 IF p \in Counted /\ IsCritical(Attributes[p])
                 THEN droppedSamples \cup {p} ELSE droppedSamples
    /\ batch' = [batch EXCEPT ![w] = Tail(@)]
    /\ UNCHANGED <<keysUsed, emitted>>

\* Variants: the gauge is set to one less; it is not set.
FinishLagging(w) ==
    /\ batch[w] = <<>> /\ done[w] # {}
    /\ keysUsed' = Cardinality(keyMap) - 1
    /\ emitted' = emitted \cup done[w]
    /\ done' = [done EXCEPT ![w] = {}]
    /\ tracked' = [tracked EXCEPT ![w] = FALSE]
    /\ UNCHANGED <<keyMap, droppedSamples, batch>>

FinishQuiet(w) ==
    /\ batch[w] = <<>> /\ done[w] # {}
    /\ emitted' = emitted \cup done[w]
    /\ done' = [done EXCEPT ![w] = {}]
    /\ tracked' = [tracked EXCEPT ![w] = FALSE]
    /\ UNCHANGED <<keyMap, keysUsed, droppedSamples, batch>>

\* The gauge is refreshed under the read lock and the whole batch returned.
Finish(w) ==
    /\ batch[w] = <<>> /\ done[w] # {}
    /\ keysUsed' = Cardinality(keyMap)
    /\ emitted' = emitted \cup done[w]
    /\ done' = [done EXCEPT ![w] = {}]
    /\ tracked' = [tracked EXCEPT ![w] = FALSE]
    /\ UNCHANGED <<keyMap, droppedSamples, batch>>

Next ==
    \E w \in Callers :
        \/ \E b \in Batches : Receive(w, b)
        \/ ReceiveEmpty(w)
        \/ ProcessPoint(w)
        \/ Finish(w)

Spec == Init /\ [][Next]_vars

-----------------------------------------------------------------------------
\* Every variable has its type.
TypeOK ==
    /\ keyMap \subseteq Seq(Labels) /\ IsFiniteSet(keyMap)
    /\ keysUsed \in Nat
    /\ droppedSamples \subseteq Points
    /\ batch \in [Callers -> Seq(Points)]
    /\ done \in [Callers -> SUBSET (Points \X Seq(Labels))]
    /\ tracked \in [Callers -> BOOLEAN]
    /\ emitted \subseteq Points \X Seq(Labels)

\* README.md:63, "keeping memory usage bounded": whatever mix of batches is
\* in progress, the map never holds more than max_keys keys (lines 129-141).
KeysBounded == Cardinality(keyMap) <= MaxKeys

\* The gauge differs from the size of the map only while a call that has
\* touched the map is still to refresh it: no interleaving of calls leaves a
\* stale value behind (lines 101-104 against 129-141).
GaugeCatchesUp ==
    keysUsed # Cardinality(keyMap) => \E w \in Callers : tracked[w]

\* Eviction only makes room for the key that came: neither the map nor the
\* gauge ever shrinks, so a falling cl_keys_used is never seen (lines 132-140).
NeverShrinks ==
    [][Cardinality(keyMap') >= Cardinality(keyMap) /\ keysUsed' >= keysUsed]_vars
=============================================================================
