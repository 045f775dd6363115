------------------------------- MODULE DLQVerify -------------------------------
(***************************************************************************)
(* verificationLoop, plugins/dlq/file_storage.go:365-450: a goroutine that *)
(* lists the segments, skips the current one and checks the hash of every  *)
(* other.  It takes no lock, so each of its reads of currentSegment and of *)
(* the files is an action that interleaves with the writer of DLQStorage.  *)
(* A failed check only increments dlq_corrupted_total.                     *)
(***************************************************************************)
EXTENDS DLQStorage

VARIABLES
    vpc,      \* where the verifier is
    listed,   \* the segments it has still to look at
    header,   \* the header it has read
    verdict   \* its last verdict, and whether the segment was intact then

verifierVars == <<vpc, listed, header, verdict>>
allVars == <<vars, verifierVars>>

NoVerdict == [segment |-> None, passed |-> TRUE, intact |-> TRUE]

\* os.ReadDir sorts by name: the segment looked at is the oldest left.
segment == CHOOSE t \in listed : \A u \in listed : t <= u

-----------------------------------------------------------------------------
\* What the two sides hash: StoreItem the data of each frame, verifySegment
\* every byte after the header, the sizes included.
HashedByWriter(items) == [k \in DOMAIN items |-> <<"data", items[k]>>]

\* Variant: the verifier hashes what the frames should hold.
HashedByVerifierItems(b) == [k \in DOMAIN b |-> <<"data", b[k].item>>]

HashedByVerifier(b) ==
    [k \in 1 .. 2 * Len(b) |->
        LET frame == b[(k + 1) \div 2]
        IN  IF k % 2 = 1 THEN <<"size", frame.item>>
            ELSE IF frame.whole THEN <<"data", frame.item>>
            ELSE <<"torn", frame.item>>]

\* A header that is short, or whose hash was never written, matches nothing;
\* the item count is read and not compared.
Matching(h, b) ==
    h.kind = "sealed" /\ HashedByWriter(h.hash) = HashedByVerifier(b)

\* A file as finalizeSegment leaves it when nothing went wrong.
Intact(file) ==
    /\ file.header.kind = "sealed"
    /\ file.header.count = Len(file.body)
    /\ \A k \in DOMAIN file.body : file.body[k].whole

-----------------------------------------------------------------------------
VerifyInit ==
    /\ Init
    /\ vpc = "off" /\ listed = {} /\ header = Blank("none")
    /\ verdict = NoVerdict

\* Start begins the loop once it has a segment.
Launch ==
    /\ vpc' = IF /\ pc = "placeholder" /\ caller = "start"
                 /\ currentSegment' # None
              THEN "sleeping" ELSE vpc
    /\ UNCHANGED <<listed, header, verdict>>

\* The context that Start was given is done.
Quit ==
    /\ vpc = "sleeping"
    /\ vpc' = "off"
    /\ UNCHANGED <<vars, listed, header, verdict>>

\* The ticker fires: listSegments.
List ==
    /\ vpc = "sleeping" /\ DOMAIN files # {}
    /\ listed' = DOMAIN files
    /\ vpc' = "guard"
    /\ UNCHANGED <<vars, header, verdict>>

\* Variant: the loop does not look whether anything is left.
MoveBlind(rest) == listed' = rest /\ vpc' = "guard"

Move(rest) ==
    /\ listed' = rest
    /\ vpc' = IF rest = {} THEN "sleeping" ELSE "guard"

\* if fs.currentSegment != nil
Guard ==
    /\ vpc = "guard"
    /\ vpc' = IF currentSegment = None THEN "open" ELSE "name"
    /\ UNCHANGED <<vars, listed, header, verdict>>

\* fs.currentSegment.Name(): the field is read again, and may be nil by now.
Name ==
    /\ vpc = "name"
    /\ IF currentSegment = None
       THEN vpc' = "panic" /\ UNCHANGED listed
       ELSE IF currentSegment = segment
       THEN Move(listed \ {segment})
       ELSE vpc' = "open" /\ UNCHANGED listed
    /\ UNCHANGED <<vars, header, verdict>>

ReadHeader ==
    /\ vpc = "open"
    /\ header' = files[segment].header
    /\ vpc' = "hash"
    /\ UNCHANGED <<vars, listed, verdict>>

CompareHash ==
    /\ vpc = "hash"
    /\ verdict' = [segment |-> segment,
                   passed  |-> Matching(header, files[segment].body),
                   intact  |-> /\ Intact(files[segment])
                               /\ header = files[segment].header]
    /\ Move(listed \ {segment})
    /\ UNCHANGED <<vars, header>>

Writer ==
    \/ Tick
    \/ Start \/ Stop \/ \E i \in Items : StoreItem(i)
    \/ WriteSize \/ WriteData \/ Return
    \/ Finalize \/ Close \/ Create \/ Placeholder

\* The verifier dies with the process.
VerifierCrash ==
    /\ Crash
    /\ vpc' = "off" /\ listed' = {} /\ header' = Blank("none")
    /\ UNCHANGED verdict

VerifyNext ==
    \/ vpc # "panic" /\ Writer /\ Launch
    \/ VerifierCrash
    \/ Quit \/ List \/ Guard \/ Name \/ ReadHeader \/ CompareHash

VerifySpec == VerifyInit /\ [][VerifyNext]_allVars

-----------------------------------------------------------------------------
\* Every variable has its type.
VerifyTypeOK ==
    /\ TypeOK
    /\ vpc \in {"off", "sleeping", "guard", "name", "open", "hash", "panic"}
    /\ listed \subseteq DOMAIN files
    /\ vpc \in {"guard", "name", "open", "hash"} => listed # {}
    /\ header.kind \in {"none", "placeholder", "sealed", "torn"}
    /\ verdict.segment \in DOMAIN files \cup {None}

\* Verification never vouches for damage: a segment that passes was sealed
\* and every frame in it is whole, whatever writes failed and whenever the
\* process died, although nothing is locked (lines 412-450).
VerdictSound == verdict.passed => verdict.intact

\* README.md:11, "File-based storage with integrity verification", and line
\* 411, "verifySegment checks a single segment for corruption": a segment
\* nothing happened to is not counted as corrupted.
IntactPasses == verdict.intact => verdict.passed
=============================================================================
