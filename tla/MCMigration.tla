---------------------------- MODULE MCMigration -----------------------------
(***************************************************************************)
(* The driver of a scheduled migration run beside the sync engine and the  *)
(* network. Expiry buckets have two blocks, so that the signed schedule, a *)
(* redraw and a rebuild all cross bucket boundaries within a few blocks.   *)
(* The first scene is the module itself, with one part, two builds of it,  *)
(* crashes at every step, messages that stay on the wire and a stop at any *)
(* moment.                                                                 *)
(*                                                                         *)
(* A behaviour is one of a single instance, which scene names; the         *)
(* instance keeps its variables in the first of s1 to s15 and the rest are *)
(* idle.                                                                   *)
(***************************************************************************)
EXTENDS MigrationRun, TLC

VARIABLES scene,
    s1, s2, s3, s4, s5, s6, s7, s8, s9, s10, s11, s12, s13, s14, s15

\* the part is signed for the first block
SignedFirst == [p \in Parts |-> 0]

-----------------------------------------------------------------------------
(* The instances *)

\* Two parts with redraws across an expiry bucket and failing local storage.
Both == INSTANCE MigrationRun WITH
    Parts <- {1, 2}, MODULUS <- 2, MaxTip <- 1, MaxGen <- 1, Delays <- {0, 1},
    Signed <- [p \in {1, 2} |-> p - 1], Reorgs <- FALSE, Foreign <- TRUE, Outsider <- 9,
    Stops <- FALSE, Crashes <- FALSE, Safety <- 1,
    run <- s1, raw <- s2, pc <- s3, flow <- s4, cur <- s5, dtip <- s6, todo <- s7,
    known <- s8, seen <- s9, view <- s10, met <- s11, tip <- s12, chain <- s13,
    pool <- s14, wire <- s15

\* One part with shallow blocks that leave the chain, outside spends and a stop at any
\* moment, also while such a block goes.
Forked == INSTANCE MigrationRun WITH
    Parts <- {1}, MODULUS <- 2, MaxTip <- 2, MaxGen <- 2, Delays <- {0, 1},
    Signed <- [p \in {1} |-> p - 1], Reorgs <- TRUE, Foreign <- TRUE, Outsider <- 9,
    Stops <- TRUE, Crashes <- FALSE, Safety <- 1,
    run <- s1, raw <- s2, pc <- s3, flow <- s4, cur <- s5, dtip <- s6, todo <- s7,
    known <- s8, seen <- s9, view <- s10, met <- s11, tip <- s12, chain <- s13,
    pool <- s14, wire <- s15

\* One terminal stage that is mined in up to three blocks, with a crash between any two
\* transactions.
Remined == INSTANCE DenominationStages WITH
    N <- 1, Parents <- <<{}>>, Terminals <- {1}, Sched <- <<0>>, Expiry <- <<0>>,
    Spaced <- FALSE, MaxTip <- 0, MaxId <- 3, Delays <- {0}, Reorgs <- TRUE,
    Stops <- FALSE, Crashes <- TRUE, Overlap <- FALSE,
    d <- s1, raw <- s2, drv <- s3, plan <- s4, spc <- s5, known <- s6, seen <- s7,
    view <- s8, cmined <- s9, tip <- s10, chain <- s11, pool <- s12, wire <- s13,
    ids <- s14

-----------------------------------------------------------------------------
On(s) == scene = s

all == <<scene, vars, s1, s2, s3, s4, s5, s6, s7, s8, s9, s10, s11, s12, s13, s14, s15>>

\* an instance of k variables leaves the others alone
Unused(k) ==
    /\ (k < 1 => s1 = 0) /\ (k < 2 => s2 = 0) /\ (k < 3 => s3 = 0) /\ (k < 4 => s4 = 0)
    /\ (k < 5 => s5 = 0) /\ (k < 6 => s6 = 0) /\ (k < 7 => s7 = 0) /\ (k < 8 => s8 = 0)
    /\ (k < 9 => s9 = 0) /\ (k < 10 => s10 = 0) /\ (k < 11 => s11 = 0)
    /\ (k < 12 => s12 = 0) /\ (k < 13 => s13 = 0) /\ (k < 14 => s14 = 0)
    /\ (k < 15 => s15 = 0)
StayUnused(k) ==
    /\ UNCHANGED scene
    /\ (k < 1 => s1' = 0) /\ (k < 2 => s2' = 0) /\ (k < 3 => s3' = 0)
    /\ (k < 4 => s4' = 0) /\ (k < 5 => s5' = 0) /\ (k < 6 => s6' = 0)
    /\ (k < 7 => s7' = 0) /\ (k < 8 => s8' = 0) /\ (k < 9 => s9' = 0)
    /\ (k < 10 => s10' = 0) /\ (k < 11 => s11' = 0) /\ (k < 12 => s12' = 0)
    /\ (k < 13 => s13' = 0) /\ (k < 14 => s14' = 0) /\ (k < 15 => s15' = 0)

SceneInit ==
    \/ scene = "stop" /\ Init /\ Unused(0)
    \/ scene = "parts" /\ Both!Init /\ Unused(15) /\ Init
    \/ scene = "reorgs" /\ Forked!Init /\ Unused(15) /\ Init
    \/ scene = "moved" /\ Remined!Init /\ Unused(14) /\ Init

SceneNext ==
    \/ On("stop") /\ Next /\ StayUnused(0)
    \/ On("parts") /\ Both!Next /\ StayUnused(15) /\ UNCHANGED vars
    \/ On("reorgs") /\ Forked!Next /\ StayUnused(15) /\ UNCHANGED vars
    \/ On("moved") /\ Remined!Next /\ StayUnused(14) /\ UNCHANGED vars

SceneSpec == SceneInit /\ [][SceneNext]_all

-----------------------------------------------------------------------------
(* What is checked of the other instances *)

\* The two driver instances implement PartLedger, each with its own notes.
Promise == INSTANCE PartLedger WITH
    Parts <- {1, 2},
    fate <- CASE On("parts") -> Both!Fate
              [] On("reorgs") -> [p \in {1, 2} |-> IF p = 1 THEN Forked!Fate[1] ELSE "held"]
              [] OTHER -> [p \in {1, 2} |-> "held"],
    reserved <- On("stop") \/ On("moved") \/ s1.locked

\* With two parts a scheduled row fits the expiry it was built with
\* (MigrationRun!ScheduledRowsCanonical) and a retired run has stored what was accepted
\* (RetireAfterStore); through reorganisations and outside spends what may be on the network is
\* marked (AttemptRecorded), a complete run has moved every part (CompleteMeansMigrated) and a stop
\* gives up no live transaction of a scheduled or broadcasted row that the wallet does not know
\* (StopStoresLive); both keep the promise of PartLedger; and a child whose funding stage is mined
\* in another block is noticed (DenominationStages!StaleChildNoticed).
TwoPartsAndReorgs ==
    /\ [](On("parts") => Both!TypeOK /\ Both!CompleteMeansMigrated /\ Both!ScheduledRowsCanonical)
    /\ [](On("reorgs") => Forked!AttemptRecorded /\ Forked!CompleteMeansMigrated)
    /\ [](On("moved") => Remined!StaleChildNoticed)
    /\ [][(On("parts") => Both!RetireAfterStoreStep) /\ (On("reorgs") => Forked!StopStoresLiveStep)]_all
    /\ Promise!Spec

-----------------------------------------------------------------------------
\* One part whose height lies a bucket above the height it was built for, and reorganisations.
Late == INSTANCE MigrationRun WITH
    Parts <- {3}, MODULUS <- 2, MaxTip <- 4, MaxGen <- 1, Delays <- {1}, Signed <- [p \in {3} |-> 2],
    Reorgs <- TRUE, Foreign <- FALSE, Outsider <- 9, Stops <- FALSE, Crashes <- FALSE, Safety <- 1,
    run <- s1, raw <- s2, pc <- s3, flow <- s4, cur <- s5, dtip <- s6, todo <- s7,
    known <- s8, seen <- s9, view <- s10, met <- s11, tip <- s12, chain <- s13,
    pool <- s14, wire <- s15

LateSpec ==
    scene = "late" /\ Late!Init /\ Init /\ [][Late!Next /\ UNCHANGED <<scene, vars>>]_all

\* "must become broadcastable again" (the comment of the reset of a confirmed part that a
\* reorganisation removed): a scheduled part fits its expiry, or no part is due any more.
ReorgedPartIsBroadcastable == Late!ScheduledRowsCanonical
=============================================================================
