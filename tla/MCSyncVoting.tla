---------------------------- MODULE MCSyncVoting ----------------------------
(***************************************************************************)
(* The sync engine, its progress, cancellation and run tokens, and the     *)
(* voting calls, each explored on its own: the variable scene picks the    *)
(* instance a behaviour belongs to.                                        *)
(*                                                                         *)
(* A behaviour is one of a single instance, which scene names; the         *)
(* instance keeps its variables in the first of s1 to s22 and the rest are *)
(* idle.                                                                   *)
(***************************************************************************)
EXTENDS SyncControl, TLC

VARIABLES scene,
    s1, s2, s3, s4, s5, s6, s7, s8, s9, s10, s11, s12, s13, s14, s15, s16, s17, s18, s19,
    s20, s21, s22

\* a foreground and a background caller
ModeAsked == [fg |-> 1, bg |-> 2]

-----------------------------------------------------------------------------
(* The instances *)

\* Two reorganisations, a lagging reply, a stop or a crash against every await of a
\* session.
Engine == INSTANCE SyncEngine WITH
    Start0 <- 3, MaxHeight <- 5, MaxGen <- 2, BatchSize <- 2, Distance <- 2, Floor <- 0,
    MaxRewinds <- 2, MaxRetries <- 1, MaxPasses <- 1, AnchorDepth <- 1,
    RepairDistances <- <<1, 2>>, MaxFaults <- 1,
    chain <- s1, fork <- s2, blocks <- s3, dbTip <- s4, rescan <- s5, damage <- s6,
    checkDue <- s7, taint <- s8, marker <- s9, pc <- s10, tip <- s11, need <- s12,
    rewinds <- s13, passes <- s14, force <- s15, batch <- s16, prefetch <- s17,
    attempt <- s18, err <- s19, stop <- s20, vouched <- s21, faults <- s22

\* Every queue, batch, repair and rewind of a chain of five blocks, with work entering the
\* queue.
Progress == INSTANCE ScanProgress WITH
    Tip <- 5, Batch <- 2, Whole <- 120, Cap <- 114, Growths <- 2,
    queue <- s1, total <- s2, remaining <- s3, mode <- s4, window <- s5, repairs <- s6,
    growths <- s7, shown <- s8, last <- s9

\* Two starts of the mempool observer, two syncs of one payment-link claim and one of
\* another.
Tokens == INSTANCE RunTokens WITH
    Runs <- {"o1", "o2", "c1", "c2", "d1"},
    KeyOf <- [o1 |-> "mempool", o2 |-> "mempool", c1 |-> "claim1", c2 |-> "claim1", d1 |-> "claim2"],
    Keys <- {"mempool", "claim1", "claim2"},
    entry <- s1, token <- s2, pc <- s3, asked <- s4

\* Everything a server of the voting chain can send; one validator holds less than a third
\* of the bundled power and most of the power the server reports.
Checks == INSTANCE VotingParticipation WITH
    Notes <- {1, 2}, Validators <- {"v1", "v2", "v3"}, Faulty <- {"v3"},
    Bundled <- [v1 |-> 3, v2 |-> 3, v3 |-> 2], Current <- [v1 |-> 1, v2 |-> 1, v3 |-> 5],
    Enough <- 1, Batches <- 1, MaxHeight <- 3, MaxRevision <- 4, MaxRewinds <- 0,
    Planners <- {"warm", "prepare"},
    height <- s1, usedAt <- s2, notes <- s3, scanned <- s4, sync <- s5, contiguous <- s6,
    rewinds <- s7, registered <- s8, revision <- s9, row <- s10, plan <- s11,
    confirmed <- s12, known <- s13, check <- s14, shown <- s15, setup <- s16, warm <- s17

\* Checks that race with the planning calls that hold the sidecar's write lock.
Plans == INSTANCE VotingParticipation WITH
    Notes <- {1, 2}, Validators <- {"v1", "v2", "v3"}, Faulty <- {"v3"},
    Bundled <- [v1 |-> 3, v2 |-> 3, v3 |-> 2], Current <- [v1 |-> 1, v2 |-> 1, v3 |-> 5],
    Enough <- 1, Batches <- 1, MaxHeight <- 3, MaxRevision <- 4, MaxRewinds <- 0,
    Planners <- {"setup", "prepare"},
    height <- s1, usedAt <- s2, notes <- s3, scanned <- s4, sync <- s5, contiguous <- s6,
    rewinds <- s7, registered <- s8, revision <- s9, row <- s10, plan <- s11,
    confirmed <- s12, known <- s13, check <- s14, shown <- s15, setup <- s16, warm <- s17

\* Rewinds and contiguous scans around the snapshot, cut off at any point.
Rewinds == INSTANCE VotingParticipation WITH
    Notes <- {1}, Validators <- {"v1", "v2", "v3"}, Faulty <- {"v3"},
    Bundled <- [v1 |-> 3, v2 |-> 3, v3 |-> 2], Current <- [v1 |-> 1, v2 |-> 1, v3 |-> 5],
    Enough <- 1, Batches <- 2, MaxHeight <- 2, MaxRevision <- 4, MaxRewinds <- 2,
    Planners <- {},
    height <- s1, usedAt <- s2, notes <- s3, scanned <- s4, sync <- s5, contiguous <- s6,
    rewinds <- s7, registered <- s8, revision <- s9, row <- s10, plan <- s11,
    confirmed <- s12, known <- s13, check <- s14, shown <- s15, setup <- s16, warm <- s17

\* The background proof and two foreground calls of a software account.
Software == INSTANCE VotingDelegation WITH
    Jobs <- [ahead |-> "background", first |-> "software", again |-> "software"],
    Endpoints <- 2, MaxSetups <- 3, MaxStarts <- 4,
    setup <- s1, proof <- s2, ksig <- s3, sent <- s4, built <- s5, starts <- s6,
    device <- s7, job <- s8, given <- s9

\* Two proofs of a Keystone account's signed request.
Keystone == INSTANCE VotingDelegation WITH
    Jobs <- [first |-> "keystone", again |-> "keystone"], Endpoints <- 2, MaxSetups <- 3,
    MaxStarts <- 5,
    setup <- s1, proof <- s2, ksig <- s3, sent <- s4, built <- s5, starts <- s6,
    device <- s7, job <- s8, given <- s9

\* The warm-ups and the background proof, with every error path while the connection thread
\* runs.
Warming == INSTANCE VotingDelegation WITH
    Jobs <- [ahead |-> "background", pir |-> "pir", cache |-> "cache"], Endpoints <- 2,
    MaxSetups <- 3, MaxStarts <- 3,
    setup <- s1, proof <- s2, ksig <- s3, sent <- s4, built <- s5, starts <- s6,
    device <- s7, job <- s8, given <- s9

\* One vote from the ballot to its helpers, a tracking pass beside the cast, and a restart.
Shares == INSTANCE ShareDelivery WITH
    Helpers <- {"h1", "h2"}, Planned <- 1, MaxCrashes <- 1, MaxTries <- 4,
    intent <- s1, vote <- s2, plan <- s3, journal <- s4, shown <- s5, chain <- s6,
    cast <- s7, pass <- s8, cancel <- s9, req <- s10, posts <- s11, crashes <- s12,
    tries <- s13

\* Three bundles proved at once beside two coordinated writers.
Provers == INSTANCE VotingLocks WITH
    Kind <- [p1 |-> "proof", p2 |-> "proof", p3 |-> "proof", w1 |-> "write", w2 |-> "write"],
    pc <- s1, ctx <- s2, writer <- s3, opening <- s4, sqlite <- s5, cached <- s6,
    attempt <- s7, lostTo <- s8

\* A connection that is opened for the first time beside a read, a coordinated writer and a
\* proof.
Opening == INSTANCE VotingLocks WITH
    Kind <- [c1 |-> "context", c2 |-> "context", w1 |-> "write", r1 |-> "read", p1 |-> "proof"],
    pc <- s1, ctx <- s2, writer <- s3, opening <- s4, sqlite <- s5, cached <- s6,
    attempt <- s7, lostTo <- s8

-----------------------------------------------------------------------------
On(s) == scene = s

all == <<scene, vars, s1, s2, s3, s4, s5, s6, s7, s8, s9, s10, s11, s12, s13, s14, s15,
         s16, s17, s18, s19, s20, s21, s22>>

\* an instance of k variables leaves the others alone
Unused(k) ==
    /\ (k < 1 => s1 = 0) /\ (k < 2 => s2 = 0) /\ (k < 3 => s3 = 0) /\ (k < 4 => s4 = 0)
    /\ (k < 5 => s5 = 0) /\ (k < 6 => s6 = 0) /\ (k < 7 => s7 = 0) /\ (k < 8 => s8 = 0)
    /\ (k < 9 => s9 = 0) /\ (k < 10 => s10 = 0) /\ (k < 11 => s11 = 0)
    /\ (k < 12 => s12 = 0) /\ (k < 13 => s13 = 0) /\ (k < 14 => s14 = 0)
    /\ (k < 15 => s15 = 0) /\ (k < 16 => s16 = 0) /\ (k < 17 => s17 = 0)
    /\ (k < 18 => s18 = 0) /\ (k < 19 => s19 = 0) /\ (k < 20 => s20 = 0)
    /\ (k < 21 => s21 = 0) /\ (k < 22 => s22 = 0)
StayUnused(k) ==
    /\ UNCHANGED scene
    /\ (k < 1 => s1' = 0) /\ (k < 2 => s2' = 0) /\ (k < 3 => s3' = 0)
    /\ (k < 4 => s4' = 0) /\ (k < 5 => s5' = 0) /\ (k < 6 => s6' = 0)
    /\ (k < 7 => s7' = 0) /\ (k < 8 => s8' = 0) /\ (k < 9 => s9' = 0)
    /\ (k < 10 => s10' = 0) /\ (k < 11 => s11' = 0) /\ (k < 12 => s12' = 0)
    /\ (k < 13 => s13' = 0) /\ (k < 14 => s14' = 0) /\ (k < 15 => s15' = 0)
    /\ (k < 16 => s16' = 0) /\ (k < 17 => s17' = 0) /\ (k < 18 => s18' = 0)
    /\ (k < 19 => s19' = 0) /\ (k < 20 => s20' = 0) /\ (k < 21 => s21' = 0)
    /\ (k < 22 => s22' = 0)

SceneInit ==
    \/ scene = "control" /\ Init /\ Unused(0)
    \/ scene = "engine" /\ Engine!Init /\ Unused(22) /\ Init
    \/ scene = "progress" /\ Progress!Init /\ Unused(9) /\ Init
    \/ scene = "tokens" /\ Tokens!Init /\ Unused(4) /\ Init
    \/ scene = "checks" /\ Checks!Init /\ Unused(17) /\ Init
    \/ scene = "plans" /\ Plans!Init /\ Unused(17) /\ Init
    \/ scene = "rewinds" /\ Rewinds!Init /\ Unused(17) /\ Init
    \/ scene = "software" /\ Software!Init /\ Unused(9) /\ Init
    \/ scene = "keystone" /\ Keystone!Init /\ Unused(9) /\ Init
    \/ scene = "warming" /\ Warming!Init /\ Unused(9) /\ Init
    \/ scene = "shares" /\ Shares!Init /\ Unused(13) /\ Init
    \/ scene = "provers" /\ Provers!Init /\ Unused(8) /\ Init
    \/ scene = "callers" /\ Opening!Init /\ Unused(8) /\ Init

SceneNext ==
    \/ On("control") /\ Next /\ StayUnused(0)
    \/ On("engine") /\ Engine!Next /\ StayUnused(22) /\ UNCHANGED vars
    \/ On("progress") /\ Progress!Next /\ StayUnused(9) /\ UNCHANGED vars
    \/ On("tokens") /\ Tokens!Next /\ StayUnused(4) /\ UNCHANGED vars
    \/ On("checks") /\ Checks!Next /\ StayUnused(17) /\ UNCHANGED vars
    \/ On("plans") /\ Plans!Next /\ StayUnused(17) /\ UNCHANGED vars
    \/ On("rewinds") /\ Rewinds!Next /\ StayUnused(17) /\ UNCHANGED vars
    \/ On("software") /\ Software!Next /\ StayUnused(9) /\ UNCHANGED vars
    \/ On("keystone") /\ Keystone!Next /\ StayUnused(9) /\ UNCHANGED vars
    \/ On("warming") /\ Warming!Next /\ StayUnused(9) /\ UNCHANGED vars
    \/ On("shares") /\ Shares!Next /\ StayUnused(13) /\ UNCHANGED vars
    \/ On("provers") /\ Provers!Next /\ StayUnused(8) /\ UNCHANGED vars
    \/ On("callers") /\ Opening!Next /\ StayUnused(8) /\ UNCHANGED vars
    \/ /\ scene \in {"progress", "checks", "plans", "rewinds", "software", "keystone",
                      "warming", "shares"}   \* these may end
       /\ UNCHANGED all

SceneSpec == SceneInit /\ [][SceneNext]_all

-----------------------------------------------------------------------------
(* What is checked of each instance *)

\* The blocks the wallet has stored are one chain and a completed marker is true
\* (SyncEngine!StoredChainLinked, MarkerIsTrue), no event's target lies behind its percentage and
\* a drained queue is shown as the whole bar (ScanProgress!TargetAhead, DrainedIsWhole).  A sync
\* completes only at a tip the server vouched for (SyncEngine!CompletionVouched), and without a
\* reorganisation nothing that was scanned is dropped (NoSpuriousRewind).
EngineIsSound ==
    /\ [](On("control") => TypeOK)
    /\ [](On("engine") => Engine!TypeOK /\ Engine!StoredChainLinked /\ Engine!MarkerIsTrue)
    /\ [](On("progress") => Progress!TypeOK /\ Progress!TargetAhead /\ Progress!DrainedIsWhole)
    /\ [][On("engine") => Engine!CompletionVouchedStep /\ Engine!NoSpuriousRewindStep]_all

\* A stop reaches the run it is for and no other (RunTokens!StopsReachTheirRun), and there is one
\* run per key (OneRunPerKey).
StopsReachTheirRun ==
    On("tokens") => Tokens!TypeOK /\ Tokens!StopsReachTheirRun /\ Tokens!OneRunPerKey

\* What a check records of a note is true of the voting chain
\* (VotingParticipation!ObservationsAreTrue), "unavailable" is said only of a round that is
\* (UnavailableIsTrue), a plan leaves out the notes known to be used (PlanRespectsExclusions), and
\* a kept decision is about the notes the wallet has now (DecisionIsCurrent).
ChecksAreTrue ==
    /\ On("checks") => Checks!ObservationsAreTrue /\ Checks!UnavailableIsTrue
    /\ On("plans") => Plans!PlanRespectsExclusions
    /\ On("rewinds") => Rewinds!DecisionIsCurrent

\* A failed delegation has tried every endpoint (VotingDelegation!EveryEndpointTried), a stored
\* proof and the device's signature are of the stored setup (ProofFitsSetup, DeviceSignatureFits),
\* and no call leaves its connection thread behind (NoThreadLeft).  Shares are planned and stored
\* before one is sent (ShareDelivery!PlannedBeforeSent), and no helper is posted the same share
\* twice (OnePostPerHelper).
VotesGoOnce ==
    /\ On("software") => Software!TypeOK /\ Software!EveryEndpointTried /\ Software!ProofFitsSetup
    /\ On("keystone") => Keystone!DeviceSignatureFits
    /\ On("warming") => Warming!NoThreadLeft
    /\ On("shares") => Shares!PlannedBeforeSent /\ Shares!OnePostPerHelper

\* No calls wait for each other (VotingLocks!NobodyStuck), and the retries of a proof outlast
\* every race for SQLite's writer (ProofsSurvive).
NobodyStuck ==
    /\ On("provers") => Provers!NobodyStuck /\ Provers!ProofsSurvive
    /\ On("callers") => Opening!NobodyStuck
=============================================================================
