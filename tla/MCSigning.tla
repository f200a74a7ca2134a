----------------------------- MODULE MCSigning ------------------------------
(***************************************************************************)
(* Planning and signing a migration: the plan and its approval, the        *)
(* schedule, the locks of the notes, the requests to a Keystone device and *)
(* the transactions it signs, and the upgrade of the tables that an older  *)
(* program left. The first scene is RunLocks itself: the driver and the    *)
(* pass after a sync reconcile the same two runs, with a crash anywhere.   *)
(* No note of theirs is an input of a stage (StageNotes is empty,          *)
(* DiscardStages changes nothing): with stages an abandoned run may keep   *)
(* such a note locked, and LocksFollowButForStages of RunLocksProofs says  *)
(* what remains true.                                                      *)
(*                                                                         *)
(* A behaviour is one of a single instance, which scene names; the         *)
(* instance keeps its variables in the first of s1 to s10 and the rest are *)
(* idle.                                                                   *)
(***************************************************************************)
EXTENDS RunLocks, Integers, Sequences

VARIABLES scene,
    s1, s2, s3, s4, s5, s6, s7, s8, s9, s10

-----------------------------------------------------------------------------
(* The instances *)

\* Every plan for up to four notes and four actions, with layers of consolidations, exact
\* matches and split trees, approved and rebuilt after the wallet did or did not change.
Plan == INSTANCE MigrationPlan WITH
    Actions <- 4, PrepFee <- 2, MinDenom <- 4, MaxDenom <- 40, MigFee <- 1,
    NoteValues <- {0, 3, 6, 25}, MaxNotes <- 4,
    notes <- s1, phase <- s2, crossings <- s3, limit <- s4, plan <- s5

\* Every schedule of three parts, signed in sessions with blocks, a policy change, failures
\* and cancelled sessions in between.
Schedule == INSTANCE TransferSchedule WITH
    Values <- <<5, 5, 2>>, MaxDelay <- 1, FastDelay <- 0, BatchLimit <- 2, MaxTip <- 1,
    tip <- s1, conf <- s2, run <- s3, part <- s4, sessions <- s5

\* Repeated recovery waves of two parts while the chain moves.
Ladder == INSTANCE TransferSchedule WITH
    Values <- <<5, 2>>, MaxDelay <- 1, FastDelay <- 0, BatchLimit <- 1, MaxTip <- 3,
    tip <- s1, conf <- s2, run <- s3, part <- s4, sessions <- s5

\* Requests for splits, for everything at once and for batches of two of three parts, with
\* rejections, removals and syncs between any two steps.
Requests == INSTANCE KeystoneRequests WITH
    MaxReq <- 3, MaxRuns <- 2, Parts <- 3, BatchMax <- 2,
    Kinds <- {"denom", "single", "batch"}, Crashes <- 0, Faults <- 0,
    req <- s1, worker <- s2, op <- s3, run <- s4, applied <- s5, lock <- s6, net <- s7,
    made <- s8, left <- s9

\* A version 6 transaction with a dummy and two real spends, and a TEX pair; every answer
\* of a signer and every outcome of the broadcast.
Pczt == INSTANCE PcztSigning WITH
    Txs <- {"v6", "tex1", "tex2"},
    Actions <- [v6 |-> {"o0", "o1", "i0"}, tex1 |-> {"o0", "o1"}, tex2 |-> {}],
    Dummies <- [v6 |-> {"i0"}, tex1 |-> {"o1"}, tex2 |-> {}],
    Version <- [v6 |-> 6, tex1 |-> 5, tex2 |-> 5],
    Branch <- [v6 |-> "nu6_3", tex1 |-> "nu6_3", tex2 |-> "nu6_3"],
    Spends <- [v6 |-> "none", tex1 |-> "none", tex2 |-> "tex1"], NoTx <- "none",
    MaxSigs <- 2,
    request <- s1, base <- s2, mode <- s3, view <- s4, answer <- s5, signed <- s6,
    net <- s7, stored <- s8, result <- s9, pc <- s10

\* Two connections upgrade the tables of an older program at the same time.
Meet == INSTANCE MigrationUpgrade WITH
    Openers <- {"a", "b"}, Parts <- {0, 1}, Txs <- {1, 2}, NoteOf <- <<1, 0>>,
    Values <- [p \in {0, 1} |-> 5], Offset <- [p \in {0, 1} |-> p + 1],
    TargetOf <- [p \in {0, 1} |-> 2], MODULUS <- 4, Tip <- 2, StageHeight <- 9,
    Markers <- {TRUE}, Kept <- {FALSE}, Statuses <- {"scheduled"}, Redraws <- TRUE,
    Fails <- FALSE,
    cols <- s1, old <- s2, run <- s3, tx <- s4, kid <- s5, stage <- s6, op <- s7,
    done <- s8

\* Any statement of an upgrade fails; of the two parts the second one crosses an expiry
\* bucket.
Broken == INSTANCE MigrationUpgrade WITH
    Openers <- {"a"}, Parts <- {0, 1}, Txs <- {1, 2}, NoteOf <- <<1, 0>>,
    Values <- [p \in {0, 1} |-> 5], Offset <- [p \in {0, 1} |-> p + 2],
    TargetOf <- [p \in {0, 1} |-> 2], MODULUS <- 4, Tip <- 2, StageHeight <- 2,
    Markers <- BOOLEAN, Kept <- BOOLEAN,
    Statuses <- {"scheduled", "broadcasted", "confirmed"}, Redraws <- TRUE, Fails <- TRUE,
    cols <- s1, old <- s2, run <- s3, tx <- s4, kid <- s5, stage <- s6, op <- s7,
    done <- s8

\* An upgrade, and then uses and openings in any order.
Reopened == INSTANCE MigrationUpgrade WITH
    Openers <- {"a"}, Parts <- {0, 1}, Txs <- {1, 2}, NoteOf <- <<0, 1>>,
    Values <- [p \in {0, 1} |-> 5], Offset <- [p \in {0, 1} |-> p + 1],
    TargetOf <- [p \in {0, 1} |-> 2], MODULUS <- 4, Tip <- 3, StageHeight <- 2,
    Markers <- BOOLEAN, Kept <- BOOLEAN,
    Statuses <- {"scheduled", "broadcasted", "confirmed"}, Redraws <- TRUE,
    Fails <- FALSE,
    cols <- s1, old <- s2, run <- s3, tx <- s4, kid <- s5, stage <- s6, op <- s7,
    done <- s8

\* An upgrade, and then a stop before the overdue transactions are redrawn.
After == INSTANCE MigrationUpgrade WITH
    Openers <- {"a"}, Parts <- {0, 1}, Txs <- {1, 2}, NoteOf <- <<0, 1>>,
    Values <- [p \in {0, 1} |-> 5], Offset <- [p \in {0, 1} |-> p + 1],
    TargetOf <- [p \in {0, 1} |-> 2], MODULUS <- 4, Tip <- 3, StageHeight <- 2,
    Markers <- BOOLEAN, Kept <- BOOLEAN, Statuses <- {"scheduled"}, Redraws <- FALSE,
    Fails <- FALSE,
    cols <- s1, old <- s2, run <- s3, tx <- s4, kid <- s5, stage <- s6, op <- s7,
    done <- s8

\* A single part, which crosses an expiry bucket.
Lone == INSTANCE MigrationUpgrade WITH
    Openers <- {"a"}, Parts <- {0}, Txs <- {1}, NoteOf <- <<0>>,
    Values <- [p \in {0} |-> 5], Offset <- [p \in {0} |-> 3],
    TargetOf <- [p \in {0} |-> 2], MODULUS <- 4, Tip <- 4, StageHeight <- 2,
    Markers <- BOOLEAN, Kept <- BOOLEAN,
    Statuses <- {"scheduled", "broadcasted", "confirmed"}, Redraws <- TRUE,
    Fails <- FALSE,
    cols <- s1, old <- s2, run <- s3, tx <- s4, kid <- s5, stage <- s6, op <- s7,
    done <- s8

-----------------------------------------------------------------------------
On(s) == scene = s

all == <<scene, vars, s1, s2, s3, s4, s5, s6, s7, s8, s9, s10>>

\* an instance of k variables leaves the others alone
Unused(k) ==
    /\ (k < 1 => s1 = 0) /\ (k < 2 => s2 = 0) /\ (k < 3 => s3 = 0) /\ (k < 4 => s4 = 0)
    /\ (k < 5 => s5 = 0) /\ (k < 6 => s6 = 0) /\ (k < 7 => s7 = 0) /\ (k < 8 => s8 = 0)
    /\ (k < 9 => s9 = 0) /\ (k < 10 => s10 = 0)
StayUnused(k) ==
    /\ UNCHANGED scene
    /\ (k < 1 => s1' = 0) /\ (k < 2 => s2' = 0) /\ (k < 3 => s3' = 0)
    /\ (k < 4 => s4' = 0) /\ (k < 5 => s5' = 0) /\ (k < 6 => s6' = 0)
    /\ (k < 7 => s7' = 0) /\ (k < 8 => s8' = 0) /\ (k < 9 => s9' = 0)
    /\ (k < 10 => s10' = 0)

\* the base instance in one of its initial states, for the scenes of the others
Quiet == Init /\ run = [r \in RunIds |-> NoRun] /\ ~ready

SceneInit ==
    \/ scene = "locks" /\ Init /\ Unused(0)
    \/ scene = "plan" /\ Plan!Init /\ Unused(5) /\ Quiet
    \/ scene = "schedule" /\ Schedule!Init /\ Unused(5) /\ Quiet
    \/ scene = "ladder" /\ Ladder!Init /\ Unused(5) /\ Quiet
    \/ scene = "requests" /\ Requests!Init /\ Unused(9) /\ Quiet
    \/ scene = "pczt" /\ Pczt!Init /\ Unused(10) /\ Quiet
    \/ scene = "meet" /\ Meet!Init /\ Unused(8) /\ Quiet
    \/ scene = "broken" /\ Broken!Init /\ Unused(8) /\ Quiet
    \/ scene = "reopened" /\ Reopened!Init /\ Unused(8) /\ Quiet
    \/ scene = "after" /\ After!Init /\ Unused(8) /\ Quiet
    \/ scene = "lone" /\ Lone!Init /\ Unused(8) /\ Quiet

SceneNext ==
    \/ On("locks") /\ Next /\ StayUnused(0)
    \/ On("plan") /\ Plan!Next /\ StayUnused(5) /\ UNCHANGED vars
    \/ On("schedule") /\ Schedule!Next /\ StayUnused(5) /\ UNCHANGED vars
    \/ On("ladder") /\ Ladder!Next /\ StayUnused(5) /\ UNCHANGED vars
    \/ On("requests") /\ Requests!Next /\ StayUnused(9) /\ UNCHANGED vars
    \/ On("pczt") /\ Pczt!Next /\ StayUnused(10) /\ UNCHANGED vars
    \/ On("meet") /\ Meet!Next /\ StayUnused(8) /\ UNCHANGED vars
    \/ On("broken") /\ Broken!Next /\ StayUnused(8) /\ UNCHANGED vars
    \/ On("reopened") /\ Reopened!Next /\ StayUnused(8) /\ UNCHANGED vars
    \/ On("after") /\ After!Next /\ StayUnused(8) /\ UNCHANGED vars
    \/ On("lone") /\ Lone!Next /\ StayUnused(8) /\ UNCHANGED vars
    \/ /\ scene \in {"plan", "schedule", "ladder", "requests", "meet", "broken",
                      "reopened", "after", "lone"}   \* these may end
       /\ UNCHANGED all

SceneSpec == SceneInit /\ [][SceneNext]_all

-----------------------------------------------------------------------------
(* What is checked of the other instances *)

\* A plan can be carried out (MigrationPlan!PlanCanBeCarriedOut) and leaves at most one residual
\* note (OneResidual), and its approval holds for the same wallet (ApprovalReplays).  No two parts
\* share a schedule entry (TransferSchedule!EveryPartHasItsEntry), all sessions keep the approved
\* distances (OneCadence), and the ladder of a recovery keeps its records within what the code
\* accepts (LadderStays) and hands out no slot before an earlier one or in the past (LadderExtends).
PlansHold ==
    /\ [](On("locks") => TypeOK)
    /\ [](On("plan") => Plan!TypeOK /\ Plan!PlanCanBeCarriedOut /\ Plan!OneResidual)
    /\ [][On("plan") => Plan!ApprovalReplaysStep]_all
    /\ [](On("schedule") => Schedule!EveryPartHasItsEntry /\ Schedule!OneCadence)
    /\ [](On("ladder") => Ladder!LadderStays)
    /\ [][On("ladder") => Ladder!LadderExtendsStep]_all

\* One open request for a balance (KeystoneRequests!OneOpenRequest), whose status is so
\* (StatusIsHonest) and whose answer is applied once (AnswersApplyOnce).
RequestsHold ==
    On("requests") => /\ Requests!TypeOK /\ Requests!OneOpenRequest
                      /\ Requests!StatusIsHonest /\ Requests!AnswersApplyOnce

\* The device is shown no signature and nothing it need not see (PcztSigning!RequestIsBare), only
\* the requested transaction is extracted (OnlyTheRequested), both forms of a request lead to the
\* same transaction (PathsAgree), and the result says what became of it (ResultIsHonest).
SignaturesHold ==
    On("pczt") => /\ Pczt!RequestIsBare /\ Pczt!OnlyTheRequested
                  /\ Pczt!PathsAgree /\ Pczt!ResultIsHonest

\* However upgrades of the tables meet or break off, no two transactions get the same part
\* (MigrationUpgrade!PartsAreDistinct), a transaction keeps the record it is signed again from
\* (RecoveryKeepsChild) and every height fits its expiry (HeightsFit); a part that crosses a bucket
\* is signed again (CrossingIsResigned, one part), a stop before any redraw keeps what the older
\* program may have sent (SentIsKept), and a second upgrade changes nothing (ReopeningIsQuiet).
UpgradesHold ==
    /\ [](On("meet") => Meet!TypeOK /\ Meet!PartsAreDistinct /\ Meet!RecoveryKeepsChild /\ Meet!HeightsFit)
    /\ [](On("broken") => Broken!PartsAreDistinct /\ Broken!RecoveryKeepsChild /\ Broken!HeightsFit)
    /\ [](On("after") => After!SentIsKept)
    /\ [](On("lone") => Lone!CrossingIsResigned)
    /\ [][On("reopened") => Reopened!ReopeningIsQuietStep]_all

-----------------------------------------------------------------------------
\* An upgrade, and then redraws and a stop in any order.
Legacy == INSTANCE MigrationUpgrade WITH
    Openers <- {"a"}, Parts <- {0, 1}, Txs <- {1, 2}, NoteOf <- <<0, 1>>,
    Values <- [p \in {0, 1} |-> 5], Offset <- [p \in {0, 1} |-> p + 1],
    TargetOf <- [p \in {0, 1} |-> 2], MODULUS <- 4, Tip <- 2, StageHeight <- 2,
    Markers <- BOOLEAN, Kept <- BOOLEAN, Statuses <- {"scheduled"}, Redraws <- TRUE, Fails <- FALSE,
    cols <- s1, old <- s2, run <- s3, tx <- s4, kid <- s5, stage <- s6, op <- s7,
    done <- s8

LegacySpec ==
    /\ scene = "legacy" /\ Legacy!Init /\ Unused(8) /\ Quiet
    /\ [][Legacy!Next /\ StayUnused(8) /\ UNCHANGED vars]_all

\* "Stop can safely discard an unknown row whose broadcast height is still in the future" (the
\* comment of the upgrade that marks what an older program left scheduled): a stop drops nothing
\* that the network was given.
UnknownIsSafelyDiscarded == Legacy!SentIsKept
=============================================================================
