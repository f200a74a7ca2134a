-------------------------- MODULE VotingParticipation --------------------------
(***************************************************************************)
(* What a restored wallet learns about the notes it already voted with     *)
(* (wallet/voting/participation.rs), and the bundle plan that is made from *)
(* the rest (the note selection of wallet/voting/delegation.rs).           *)
(*                                                                         *)
(* One account and one round.  A check of the app reads the snapshot       *)
(* notes, asks a server of the voting chain about each one, and hands the  *)
(* signed header, the validator set and the answers to Rust, which reads   *)
(* the notes again, verifies what it was given and stores the notes that   *)
(* may not be planned.  Meanwhile the wallet is rewound and scanned again, *)
(* another device votes, and the screens set up and warm up bundles.       *)
(*                                                                         *)
(* Signatures and Merkle proofs are abstract: a header is genuine, or it   *)
(* was made up and only faulty validators signed it; an answer verifies    *)
(* when it is about the right key and height and agrees with the store the *)
(* header commits to.                                                      *)
(***************************************************************************)
EXTENDS Integers, FiniteSets, FiniteSetsExt

CONSTANTS
    Notes,        \* notes of the account at the round's snapshot height
    Validators,   \* validators of the voting chain
    Bundled,      \* Bundled[v]: voting power in the trust anchor of the build
    Current,      \* Current[v]: voting power in the set that signs now
    Faulty,       \* validators that sign anything
    Enough,       \* notes that make a vote
    Batches,      \* scan batches below the snapshot
    MaxHeight,    \* bound: blocks of the voting chain
    MaxRewinds,   \* bound: rewinds of the wallet
    MaxRevision,  \* bound: revisions after which nothing crashes
    Planners      \* the calls that plan bundles: setup, prepare, warm

Total(power) == MapThenSumSet(LAMBDA v : power[v], Validators)

None == [none |-> TRUE]

VARIABLES
    height,     \* voting chain: its height
    usedAt,     \* voting chain: the height a note voted at, 0 before
    notes,      \* wallet: the snapshot notes it knows
    scanned,    \* wallet: batches scanned, Batches when the snapshot is reached
    sync,       \* wallet: the rewind or scan under way
    contiguous, \* wallet: the next batch continues the last one (voting_scan_end)
    rewinds,    \* rewinds so far
    registered, \* the snapshot's revision file exists
    revision,   \* its contents
    row,        \* sidecar: the excluded notes of the round
    plan,       \* sidecar: the notes of the round's bundles
    confirmed,  \* sidecar: the notes whose delegation is confirmed
    known,      \* app: the observations it keeps
    check,      \* app: the check under way
    shown,      \* app: the last decision it kept, with the revision it is for
    setup,      \* the set-up call under way: notes selected outside the lock
    warm        \* the warm-up under way

chain   == <<height, usedAt>>
wallet  == <<notes, scanned, sync, contiguous, rewinds>>
files   == <<registered, revision>>
sidecar == <<row, plan, confirmed>>
app     == <<known, check, shown>>
vars    == <<chain, wallet, files, sidecar, app, setup, warm>>

Init ==
    /\ height = 1 /\ usedAt \in [Notes -> {0, 1}]
    /\ notes = Notes /\ scanned = Batches /\ sync = "idle"
    /\ contiguous = FALSE /\ rewinds = 0
    /\ registered = FALSE /\ revision = 0
    /\ row = None /\ plan = None /\ confirmed = {}
    /\ known = [n \in Notes |-> None] /\ check = None /\ shown = None
    /\ setup = None /\ warm = None

-----------------------------------------------------------------------------
(* The voting chain and the other device *)

Block == height < MaxHeight /\ height' = height + 1
         /\ UNCHANGED <<usedAt, wallet, files, sidecar, app, setup, warm>>

VoteElsewhere(n) ==
    /\ height < MaxHeight /\ usedAt[n] = 0
    /\ height' = height + 1 /\ usedAt' = [usedAt EXCEPT ![n] = height + 1]
    /\ UNCHANGED <<wallet, files, sidecar, app, setup, warm>>

UsedBy(n, h) == usedAt[n] # 0 /\ usedAt[n] <= h

-----------------------------------------------------------------------------
(* The wallet: revisions of the snapshot, rewinds and scans *)

Record == revision' = IF registered THEN revision + 1 ELSE revision

RewindRecords ==
    /\ sync = "idle" /\ rewinds < MaxRewinds /\ rewinds' = rewinds + 1
    /\ sync' = "rewind" /\ Record
    /\ UNCHANGED <<chain, notes, scanned, contiguous, registered, sidecar, app, setup, warm>>

RewindTruncates ==
    /\ sync = "rewind" /\ sync' = "rewound"
    /\ scanned' \in 0 .. Batches - 1
    /\ notes' \in SUBSET notes
    /\ contiguous' = FALSE
    /\ UNCHANGED <<chain, rewinds, files, sidecar, app, setup, warm>>

RewindEnds ==
    /\ sync = "rewound" /\ sync' = "idle" /\ Record
    /\ UNCHANGED <<chain, notes, scanned, contiguous, rewinds, registered, sidecar, app, setup, warm>>

\* The sync engine's own rewind after a reorg records nothing itself.
Reorg ==
    /\ sync = "idle" /\ rewinds < MaxRewinds /\ rewinds' = rewinds + 1
    /\ scanned' \in 0 .. Batches - 1 /\ notes' \in SUBSET notes
    /\ contiguous' = FALSE
    /\ UNCHANGED <<chain, sync, files, sidecar, app, setup, warm>>

\* faulty variant: the start of a range is not recorded either
FaultyScanBegins ==
    /\ sync = "idle" /\ scanned < Batches /\ sync' = "scan" /\ contiguous' = TRUE
    /\ UNCHANGED <<chain, notes, scanned, rewinds, files, sidecar, app, setup, warm>>

ScanBegins ==
    /\ sync = "idle" /\ scanned < Batches
    /\ sync' = "scan" /\ contiguous' = TRUE
    /\ IF contiguous THEN UNCHANGED revision ELSE Record
    /\ UNCHANGED <<chain, notes, scanned, rewinds, registered, sidecar, app, setup, warm>>

ScanWrites ==
    /\ sync = "scan"
    /\ notes' \in SUBSET Notes
    /\ scanned' = scanned + 1
    /\ sync' = IF notes' = notes THEN "idle" ELSE "changed"
    /\ UNCHANGED <<chain, contiguous, rewinds, files, sidecar, app, setup, warm>>

ScanRecords ==
    /\ sync = "changed" /\ sync' = "idle" /\ Record
    /\ UNCHANGED <<chain, notes, scanned, contiguous, rewinds, registered, sidecar, app, setup, warm>>

-----------------------------------------------------------------------------
(* Verification of what the server sent *)

Power(power, signers) == MapThenSumSet(LAMBDA v : power[v], signers)
TwoThirds(power, signers) == 3 * Power(power, signers) > 2 * Total(power)

\* faulty variant: only the set the server sent has to have signed
FaultyHeaderVerifies(h) == h.fresh /\ h.setMatches /\ TwoThirds(Current, h.signers)

\* The set hashes to the header's and its powers are in bounds, the header is
\* of the chain and not too old or early, and its signers are more than two
\* thirds of the current and of the bundled power.
HeaderVerifies(h) ==
    /\ h.fresh /\ h.setMatches
    /\ TwoThirds(Current, h.signers)
    /\ TwoThirds(Bundled, h.signers)

Headers == [fresh : BOOLEAN, setMatches : BOOLEAN, signers : SUBSET Validators,
            genuine : BOOLEAN, at : 2 .. MaxHeight]

\* A header that was not produced by the chain carries faulty signatures only.
CanExist(h) == h.at <= height /\ (~h.genuine => h.signers \subseteq Faulty)

\* What the store says about a note under the header's app hash.
Answers == {"used", "unused", "other", "misplaced", "missing"}

QueryVerifies(h, n, answer) ==
    \/ answer = "used"   /\ (h.genuine => UsedBy(n, h.at - 1))
    \/ answer = "unused" /\ (h.genuine => ~UsedBy(n, h.at - 1))

Merged(old, answer, h) ==
    IF ~old.none /\ (old.used \/ old.height > h)
    THEN old
    ELSE [none |-> FALSE, used |-> answer = "used", height |-> h]

Observed(cached, h, answers) ==
    [n \in Notes |->
        IF n \in DOMAIN answers /\ QueryVerifies(h, n, answers[n])
        THEN Merged(cached[n], answers[n], h.at - 1)
        ELSE cached[n]]

-----------------------------------------------------------------------------
(* One check of the app *)

Reached == scanned = Batches

WithConfirmed(obs) ==
    [n \in Notes |-> IF n \in confirmed
                     THEN [none |-> FALSE, used |-> TRUE, height |-> 0] ELSE obs[n]]

\* The revision is read, which registers the snapshot, and the notes after it.
BeginCheck ==
    /\ check.none /\ registered' = TRUE
    /\ check' = [none |-> FALSE, revision |-> revision, stage |-> "registered"]
    /\ UNCHANGED <<chain, wallet, revision, sidecar, known, shown, setup, warm>>

Prepare ==
    /\ ~check.none /\ check.stage = "registered" /\ Reached
    /\ LET cached == [n \in Notes |-> IF n \in notes THEN WithConfirmed(known)[n] ELSE None]
       IN check' = [none |-> FALSE, revision |-> check.revision, stage |-> "prepared",
                    fingerprint |-> notes, cached |-> cached,
                    queries |-> {n \in notes : cached[n].none}]
    /\ UNCHANGED <<chain, wallet, files, sidecar, known, shown, setup, warm>>

Excluded(obs) == {n \in notes : obs[n].none \/ obs[n].used}
Remaining(obs) == notes \ Excluded(obs)

\* faulty variant: the notes that could not be verified count as unused
FaultyDecision(obs) ==
    [none |-> FALSE, stage |-> "evaluated", revision |-> check.revision, notes |-> notes, obs |-> obs,
     unavailable |-> /\ \E n \in notes : ~obs[n].none /\ obs[n].used
                     /\ Cardinality(Remaining(obs)) < Enough /\ plan.none]

Decision(obs) ==
    [none |-> FALSE, stage |-> "evaluated", revision |-> check.revision, notes |-> notes, obs |-> obs,
     unavailable |-> /\ \A n \in notes : ~obs[n].none
                     /\ \E n \in notes : obs[n].used
                     /\ Cardinality(Remaining(obs)) < Enough /\ plan.none]

\* faulty variant: the exclusions of a started round are replaced
FaultySaveExclusions(obs) == row' = [none |-> FALSE, excluded |-> Excluded(obs)]

\* A round with bundles keeps its exclusions.
SaveExclusions(obs) ==
    row' = IF plan.none THEN [none |-> FALSE, excluded |-> Excluded(obs)] ELSE row

Evaluate(h, answers) ==
    LET obs == WithConfirmed(IF answers = <<>> THEN check.cached
                             ELSE Observed(check.cached, h, answers))
    IN /\ SaveExclusions(obs)
       /\ check' = Decision(obs)

\* The header and the answers come from a server; an answer that does not
\* verify leaves its note unknown, a header that does not fails the check.
EvaluateWithEvidence ==
    /\ ~check.none /\ check.stage = "prepared" /\ check.queries # {}
    /\ \E h \in Headers, answers \in [check.queries -> Answers] :
        /\ CanExist(h) /\ HeaderVerifies(h)
        /\ Reached /\ notes = check.fingerprint
        /\ Evaluate(h, answers)
    /\ UNCHANGED <<chain, wallet, files, plan, confirmed, known, shown, setup, warm>>

EvaluateFromCache ==
    /\ ~check.none /\ check.stage = "prepared" /\ check.queries = {}
    /\ Reached /\ notes = check.fingerprint
    /\ Evaluate(None, <<>>)
    /\ UNCHANGED <<chain, wallet, files, plan, confirmed, known, shown, setup, warm>>

CheckFails ==
    /\ ~check.none /\ check.stage # "evaluated"
    /\ check' = None
    /\ UNCHANGED <<chain, wallet, files, sidecar, known, shown, setup, warm>>

\* The observations are written first; the decision is kept only if the
\* revision is still the one the check began with.
Keep ==
    /\ ~check.none /\ check.stage = "evaluated"
    /\ known' = [n \in Notes |-> IF check.obs[n].none THEN known[n] ELSE check.obs[n]]
    /\ shown' = IF check.revision = revision THEN check ELSE shown
    /\ check' = None
    /\ UNCHANGED <<chain, wallet, files, sidecar, setup, warm>>

-----------------------------------------------------------------------------
(* The plan of the round *)

\* faulty variant: the stored exclusions are not looked up
FaultyFilterNotes(selected) == selected

FilterNotes(selected) == IF row.none THEN selected ELSE selected \ row.excluded

\* The bundles of a round are created once; later calls must ask for the same.
EnsureBundles(selected) ==
    plan' = IF plan.none /\ Cardinality(selected) >= Enough
            THEN [none |-> FALSE, notes |-> selected] ELSE plan

SetupSelects ==
    /\ "setup" \in Planners /\ setup.none /\ Reached
    /\ setup' = [none |-> FALSE, notes |-> notes]
    /\ UNCHANGED <<chain, wallet, files, sidecar, app, warm>>

\* setup_delegation_bundles: filter and plan under the sidecar's write lock.
SetupPlans ==
    /\ ~setup.none /\ setup' = None
    /\ EnsureBundles(FilterNotes(setup.notes))
    /\ UNCHANGED <<chain, wallet, files, row, confirmed, app, warm>>

\* prepare_bundle: everything under the lock; a bundle of the plan is then
\* delegated, proved and confirmed by the chain.
PrepareBundle(n) ==
    /\ "prepare" \in Planners /\ Reached /\ EnsureBundles(FilterNotes(notes))
    /\ IF ~plan'.none /\ FilterNotes(notes) = plan'.notes /\ n \in plan'.notes
          /\ usedAt[n] = 0 /\ height < MaxHeight
       THEN /\ height' = height + 1 /\ usedAt' = [usedAt EXCEPT ![n] = height + 1]
            /\ confirmed' = confirmed \union {n}
       ELSE UNCHANGED <<chain, confirmed>>
    /\ UNCHANGED <<wallet, files, row, app, setup, warm>>

WarmSelects ==
    /\ "warm" \in Planners /\ warm.none /\ Reached
    /\ warm' = [none |-> FALSE, notes |-> notes, stage |-> "selected"]
    /\ UNCHANGED <<chain, wallet, files, sidecar, app, setup>>

\* The first attempt of the warm-up does not hold the write lock.
WarmFilters ==
    /\ ~warm.none /\ warm.stage = "selected"
    /\ warm' = [warm EXCEPT !.notes = FilterNotes(@), !.stage = "filtered"]
    /\ UNCHANGED <<chain, wallet, files, sidecar, app, setup>>

WarmPlans ==
    /\ ~warm.none /\ warm.stage = "filtered" /\ warm' = None
    /\ EnsureBundles(warm.notes)
    /\ UNCHANGED <<chain, wallet, files, row, confirmed, app, setup>>

\* The retry after a lost writer race holds the lock for the whole operation.
WarmRetries ==
    /\ ~warm.none /\ warm.stage = "selected" /\ warm' = None
    /\ EnsureBundles(FilterNotes(warm.notes))
    /\ UNCHANGED <<chain, wallet, files, row, confirmed, app, setup>>

Crash ==
    /\ revision < MaxRevision
    /\ sync # "idle" \/ ~check.none \/ ~setup.none \/ ~warm.none
    /\ sync' = "idle" /\ contiguous' = FALSE
    /\ check' = None /\ setup' = None /\ warm' = None
    /\ UNCHANGED <<chain, notes, scanned, rewinds, files, sidecar, known, shown>>

Next ==
    \/ Block \/ \E n \in Notes : VoteElsewhere(n)
    \/ RewindRecords \/ RewindTruncates \/ RewindEnds \/ Reorg
    \/ ScanBegins \/ ScanWrites \/ ScanRecords
    \/ BeginCheck \/ Prepare \/ EvaluateWithEvidence \/ EvaluateFromCache \/ CheckFails \/ Keep
    \/ SetupSelects \/ SetupPlans \/ \E n \in Notes : PrepareBundle(n)
    \/ WarmSelects \/ WarmFilters \/ WarmPlans \/ WarmRetries
    \/ Crash

Spec == Init /\ [][Next]_vars

-----------------------------------------------------------------------------
(* What the checks promise *)

\* What the app keeps about a note is what the voting chain said at that
\* height, whatever a server sends, as long as less than a third of the bundled
\* power is faulty: a note marked used was used, one marked unused was not yet.
ObservationsAreTrue ==
    \A n \in Notes : ~known[n].none =>
        IF known[n].used THEN usedAt[n] # 0 ELSE ~UsedBy(n, known[n].height)

\* A kept decision whose revision is still the file's is about the notes the
\* wallet has: a rewind or a rescan that changed them always moved the
\* revision on, at whatever point it was interrupted.
DecisionIsCurrent ==
    (~shown.none /\ shown.revision = revision /\ Reached /\ sync = "idle") => shown.notes = notes

\* The app hides a round only when the notes that have not voted cannot vote.
UnavailableIsTrue ==
    (~shown.none /\ shown.unavailable) =>
        Cardinality({n \in shown.notes : usedAt[n] = 0}) < Enough

\* The round's bundles hold no note the stored exclusions name: the plan was
\* made from them, and they were not replaced afterwards.
PlanRespectsExclusions ==
    (~plan.none /\ ~row.none) => plan.notes \intersect row.excluded = {}
=============================================================================
