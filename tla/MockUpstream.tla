---------------------------- MODULE MockUpstream ----------------------------
(***************************************************************************)
(* cmd/mock-upstream/main.go: a server that acknowledges every OTLP        *)
(* request, unless told to simulate an outage or random failures.          *)
(*                                                                         *)
(* The flag and the rate are atomic variables which the handlers of        *)
(* requests and of control calls read and write one at a time, so a        *)
(* request meets each at a moment of its own.  Control calls with a wrong  *)
(* method or body change nothing; the request counters and the status      *)
(* page are left out, nothing depends on them.                             *)
(***************************************************************************)
EXTENDS Integers

CONSTANTS
    Clients,  \* whoever posts OTLP requests, one at a time each
    Rates     \* the integers that control calls carry as rate_percent

VARIABLES
    outageMode,
    failureRatePerc,
    request,  \* request[c]: where the request of client c is, or its answer
    seen      \* seen[c]: the values of outageMode since request c came in

upstreamVars == <<outageMode, failureRatePerc, request, seen>>

Answers == {"200", "429", "503"}

Init ==
    /\ outageMode = FALSE
    /\ failureRatePerc = 0
    /\ request = [c \in Clients |-> "none"]
    /\ seen = [c \in Clients |-> {}]

\* A request of client c comes in; it may repeat one that was answered.
Receive(c) ==
    /\ request[c] \in Answers \cup {"none"}
    /\ request' = [request EXCEPT ![c] = "received"]
    /\ seen' = [seen EXCEPT ![c] = {outageMode}]
    /\ UNCHANGED <<outageMode, failureRatePerc>>

\* Client c has taken note of the answer and posts nothing for now.
Settle(c) ==
    /\ request[c] \in Answers
    /\ request' = [request EXCEPT ![c] = "none"]
    /\ seen' = [seen EXCEPT ![c] = {}]
    /\ UNCHANGED <<outageMode, failureRatePerc>>

\* Variant: a failure rate takes precedence over the outage.
CheckOutageLast(c) ==
    /\ request[c] = "received"
    /\ request' = [request EXCEPT ![c] =
                      IF outageMode /\ failureRatePerc = 0 THEN "503" ELSE "admitted"]
    /\ UNCHANGED <<outageMode, failureRatePerc, seen>>

CheckOutage(c) ==
    /\ request[c] = "received"
    /\ request' = [request EXCEPT ![c] = IF outageMode THEN "503" ELSE "admitted"]
    /\ UNCHANGED <<outageMode, failureRatePerc, seen>>

\* What rand.Intn(100) < failureRate may come out as.
Draws == (IF failureRatePerc > 0 THEN {"429"} ELSE {})
             \cup (IF failureRatePerc < 100 THEN {"200"} ELSE {})

DrawFailure(c) ==
    /\ request[c] = "admitted"
    /\ \E answer \in Draws : request' = [request EXCEPT ![c] = answer]
    /\ UNCHANGED <<outageMode, failureRatePerc, seen>>

SetOutage(enabled) ==
    /\ outageMode' = enabled
    /\ seen' = [c \in Clients |->
                   IF request[c] \in {"received", "admitted"}
                   THEN seen[c] \cup {enabled} ELSE seen[c]]
    /\ UNCHANGED <<failureRatePerc, request>>

\* Variant: the rate is stored as it comes.
ClampedNot(r) == r

Clamped(r) == IF r < 0 THEN 0 ELSE IF r > 100 THEN 100 ELSE r

SetFailureRate(r) ==
    /\ failureRatePerc' = Clamped(r)
    /\ UNCHANGED <<outageMode, request, seen>>

Handle(c) == CheckOutage(c) \/ DrawFailure(c)

Control ==
    \/ \E enabled \in BOOLEAN : SetOutage(enabled)
    \/ \E r \in Rates : SetFailureRate(r)

\* Every variable has its type; the rate is a percentage.
UpstreamTypeOK ==
    /\ outageMode \in BOOLEAN
    /\ failureRatePerc \in 0 .. 100
    /\ request \in [Clients -> {"none", "received", "admitted"} \cup Answers]
    /\ seen \in [Clients -> SUBSET BOOLEAN]

\* However outages begin and end while a request is on its way (lines
\* 106-135): it is let through only if there was no outage at some moment of
\* it, and refused with 503 only if there was one.
AnswersHonest ==
    \A c \in Clients :
        /\ request[c] \in {"200", "429"} => FALSE \in seen[c]
        /\ request[c] = "503" => TRUE \in seen[c]
=============================================================================
