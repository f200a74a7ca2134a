------------------------------ MODULE MCWallet ------------------------------
(***************************************************************************)
(* What the wallet learns, shows and sends on its own: the bounded refresh *)
(* of the transparent receive addresses, the history, the enhancement of   *)
(* transactions, the mempool observer, the resubmission of pending         *)
(* transactions, the outbox that sends the parts of a migration in the     *)
(* background, and what the app is told of a migration meanwhile.          *)
(*                                                                         *)
(* A behaviour is one of a single instance, which scene names; the         *)
(* instance keeps its variables in the first of s1 to s15 and the rest are *)
(* idle.                                                                   *)
(***************************************************************************)
EXTENDS MempoolObserver, TLC

VARIABLES scene,
    s1, s2, s3, s4, s5, s6, s7, s8, s9, s10, s11, s12, s13, s14, s15

\* what the observer's two transactions pay: one of them account a2, the other nobody here; it only
\* matters once the wallet has recorded it as its own
Pays == [in |-> {"a2"}, out |-> {}]

-----------------------------------------------------------------------------
(* The instances *)

\* Three addresses, of which one is recent and one is swept in a session; crashes, failed
\* groups, reorganisations and a write of the user interface.
Refresh == INSTANCE TransparentRefresh WITH
    N <- 3, RecentLimit <- 1, SweepLimit <- 1, Lookback <- 1, MaxTip <- 3, MaxOuts <- 2,
    MaxUi <- 1, MaxFaults <- 1,
    tip <- s1, outs <- s2, stored <- s3, rec <- s4, pc <- s5, batches <- s6, base <- s7,
    got <- s8, ui <- s9, raced <- s10, uis <- s11, faults <- s12

\* Every pair of transactions of every kind and status.
History == INSTANCE TransactionHistory WITH
    Amounts <- {2}, Kinds <- {"send", "transparent", "tex", "receive", "own"},
    Statuses <- {"pending", "mined", "expired"}, Fee <- 1, MaxTxs <- 2, MaxTime <- 2,
    txs <- s1, now <- s2

\* Up to five transactions of two-step transfers and ordinary transparent sends that look
\* alike, made in the same second or not.
Steps == INSTANCE TransactionHistory WITH
    Amounts <- {2}, Kinds <- {"transparent", "tex"}, Statuses <- {"pending"}, Fee <- 1,
    MaxTxs <- 5, MaxTime <- 2,
    txs <- s1, now <- s2

\* The second transaction spends outputs of the first and of one the server does not know,
\* the third of the first; each reveals the next.
Enhance == INSTANCE Enhancement WITH
    Txs <- 1 .. 4, Spends <- <<{}, {1, 4}, {1}, {}>>, Value <- <<5, 4, 3, 6>>,
    Pays <- <<-2, 8, 3, -1>>, Reveals <- <<{2}, {3}, {1, 4}, {}>>, Known <- {1, 2, 3},
    Touching <- {2}, MaxFailures <- 2,
    asks <- s1, stored <- s2, settled <- s3, fee <- s4, pass <- s5, failures <- s6

\* A chain of dependencies against the order of the txids and a child of two, two passes
\* with lost answers, blocks and route changes.
Resubmit == INSTANCE Resubmission WITH
    N <- 4, Parents <- <<{2}, {3}, {}, {1, 3}>>, Unreadable <- {}, Refused <- {},
    MaxPasses <- 2, MaxHeight <- 3,
    row <- s1, height <- s2, pool <- s3, tor <- s4, pass <- s5, passes <- s6,
    sends <- s7, orphaned <- s8

\* Two parts, background runs, lost answers, crashes and a stop, before any expiry
\* boundary.
Stopping == INSTANCE MigrationOutbox WITH
    Parts <- {1, 2}, MODULUS <- 8, MaxHeight <- 3, MaxGen <- 1, MaxFaults <- 2,
    MaxSessions <- 2, MaxDelay <- 1, AnchorHeight <- 1, Stops <- TRUE,
    CrashInStop <- FALSE,
    run <- s1, raw <- s2, view <- s3, seen <- s4, tip <- s5, mem <- s6, mined <- s7,
    sent <- s8, item <- s9, armed <- s10, receipts <- s11, worker <- s12, app <- s13,
    faults <- s14, sessions <- s15

\* Two parts across expiry boundaries: they expire or leave their bucket in the outbox, in
\* the database or in both, and are built again while a run of the outbox is under way; the
\* user may stop the run at any moment.
Resign == INSTANCE MigrationOutbox WITH
    Parts <- {1, 2}, MODULUS <- 2, MaxHeight <- 3, MaxGen <- 2, MaxFaults <- 1,
    MaxSessions <- 2, MaxDelay <- 1, AnchorHeight <- 0, Stops <- TRUE,
    CrashInStop <- FALSE,
    run <- s1, raw <- s2, view <- s3, seen <- s4, tip <- s5, mem <- s6, mined <- s7,
    sent <- s8, item <- s9, armed <- s10, receipts <- s11, worker <- s12, app <- s13,
    faults <- s14, sessions <- s15

\* The status of a run of two parts is read while they are proved, sent and mined.
Told == INSTANCE MigrationStatus WITH
    Parts <- {1, 2}, MODULUS <- 3, Offset <- [q \in {1, 2} |-> q], Target <- 2,
    Ready <- 2, Spacing <- 2, Delays <- {0, 1}, MaxTip <- 4, MaxGen <- 1,
    Reorgs <- FALSE, Early <- FALSE,
    run <- s1, retry <- s2, mined <- s3, tip <- s4, drv <- s5, ask <- s6, told <- s7

\* One part that may expire and be built again, with reorganisations and a user who resumes
\* early.
Retold == INSTANCE MigrationStatus WITH
    Parts <- {1}, MODULUS <- 2, Offset <- [q \in {1} |-> q], Target <- 2, Ready <- 1,
    Spacing <- 2, Delays <- {0, 1}, MaxTip <- 5, MaxGen <- 2, Reorgs <- TRUE,
    Early <- TRUE,
    run <- s1, retry <- s2, mined <- s3, tip <- s4, drv <- s5, ask <- s6, told <- s7

-----------------------------------------------------------------------------
On(s) == scene = s

all == <<scene, vars, s1, s2, s3, s4, s5, s6, s7, s8, s9, s10, s11, s12, s13, s14, s15>>

\* an instance of k variables leaves the others alone
Unused(k) ==
    /\ (k < 1 => s1 = 0) /\ (k < 2 => s2 = 0) /\ (k < 3 => s3 = 0) /\ (k < 4 => s4 = 0)
    /\ (k < 5 => s5 = 0) /\ (k < 6 => s6 = 0) /\ (k < 7 => s7 = 0) /\ (k < 8 => s8 = 0)
    /\ (k < 9 => s9 = 0) /\ (k < 10 => s10 = 0) /\ (k < 11 => s11 = 0)
    /\ (k < 12 => s12 = 0) /\ (k < 13 => s13 = 0) /\ (k < 14 => s14 = 0)
    /\ (k < 15 => s15 = 0)
StayUnused(k) ==
    /\ UNCHANGED scene
    /\ (k < 1 => s1' = 0) /\ (k < 2 => s2' = 0) /\ (k < 3 => s3' = 0)
    /\ (k < 4 => s4' = 0) /\ (k < 5 => s5' = 0) /\ (k < 6 => s6' = 0)
    /\ (k < 7 => s7' = 0) /\ (k < 8 => s8' = 0) /\ (k < 9 => s9' = 0)
    /\ (k < 10 => s10' = 0) /\ (k < 11 => s11' = 0) /\ (k < 12 => s12' = 0)
    /\ (k < 13 => s13' = 0) /\ (k < 14 => s14' = 0) /\ (k < 15 => s15' = 0)

\* the base instance in one of its initial states, for the scenes of the others
Quiet == Init /\ mempool = {} /\ keys = {}

SceneInit ==
    \/ scene = "mempool" /\ Init /\ Unused(0)
    \/ scene = "refresh" /\ Refresh!Init /\ Unused(12) /\ Quiet
    \/ scene = "history" /\ History!Init /\ Unused(2) /\ Quiet
    \/ scene = "steps" /\ Steps!Init /\ Unused(2) /\ Quiet
    \/ scene = "enhance" /\ Enhance!Init /\ Unused(6) /\ Quiet
    \/ scene = "resubmit" /\ Resubmit!Init /\ Unused(8) /\ Quiet
    \/ scene = "stopping" /\ Stopping!Init /\ Unused(15) /\ Quiet
    \/ scene = "resign" /\ Resign!Init /\ Unused(15) /\ Quiet
    \/ scene = "told" /\ Told!Init /\ Unused(7) /\ Quiet
    \/ scene = "retold" /\ Retold!Init /\ Unused(7) /\ Quiet

SceneNext ==
    \/ On("mempool") /\ Next /\ StayUnused(0)
    \/ On("refresh") /\ Refresh!Next /\ StayUnused(12) /\ UNCHANGED vars
    \/ On("history") /\ History!Next /\ StayUnused(2) /\ UNCHANGED vars
    \/ On("steps") /\ Steps!Next /\ StayUnused(2) /\ UNCHANGED vars
    \/ On("enhance") /\ Enhance!Next /\ StayUnused(6) /\ UNCHANGED vars
    \/ On("resubmit") /\ Resubmit!Next /\ StayUnused(8) /\ UNCHANGED vars
    \/ On("stopping") /\ Stopping!Next /\ StayUnused(15) /\ UNCHANGED vars
    \/ On("resign") /\ Resign!Next /\ StayUnused(15) /\ UNCHANGED vars
    \/ On("told") /\ Told!Next /\ StayUnused(7) /\ UNCHANGED vars
    \/ On("retold") /\ Retold!Next /\ StayUnused(7) /\ UNCHANGED vars
    \/ /\ scene \in {"history", "steps", "enhance", "resubmit", "stopping", "resign",
                      "told", "retold"}   \* these may end
       /\ UNCHANGED all

SceneSpec == SceneInit /\ [][SceneNext]_all

-----------------------------------------------------------------------------
(* What is checked of each instance *)

\* The bounded refresh skips no output (TransparentRefresh!NothingMissed), and a used address is
\* offered only in the windows named (OfferIsUnused).
ReceivesAreKnown ==
    /\ On("mempool") => TypeOK
    /\ On("refresh") => Refresh!TypeOK /\ Refresh!NothingMissed /\ Refresh!OfferIsUnused

\* The lines shown account for the balance (TransactionHistory!HistoryExplainsBalance), a line and
\* its detail page agree (DetailAgrees), the funding step of a two-step transfer is folded into
\* its own second step (StepsPairUp), and a fee shown is the fee paid (Enhancement!FeeIsRight).
HistoryExplains ==
    /\ On("history") => History!HistoryExplainsBalance /\ History!DetailAgrees
    /\ On("steps") => Steps!StepsPairUp
    /\ On("enhance") => Enhance!FeeIsRight

\* A pass relays parents before their children (Resubmission!ParentsFirst), sends no child of a
\* parent that was not accepted (NoOrphanSent), and sends nothing more than twice (AtMostTwice).
RelaysInOrder ==
    On("resubmit") => Resubmit!ParentsFirst /\ Resubmit!NoOrphanSent /\ Resubmit!AtMostTwice


\* Whatever happens between the queries of a status: a run with work left has a next action, due
\* when the work is (MigrationStatus!NeverAsleep), the three readers agree (ReadersAgree), a part
\* that was told to be completed is (CompletedIsTrue), and the run is not complete before the
\* height that was told (EstimateHolds).  The listings are compared with what they promise over
\* every small input (SlotsAreRight, TargetsAreRight, ForecastIsRight, CountIsScanned).
StatusIsTrue ==
    /\ On("told") => /\ Told!TypeOK /\ Told!NeverAsleep /\ Told!ReadersAgree
                     /\ Told!CompletedIsTrue /\ Told!EstimateHolds
    /\ On("retold") => /\ Retold!TypeOK /\ Retold!NeverAsleep /\ Retold!ReadersAgree
                       /\ Retold!CompletedIsTrue /\ Retold!EstimateHolds
    /\ On("retold") /\ Retold!Init =>
        /\ \A list \in UNION {[1 .. n -> [part : 0 .. 3, v : {2, 5}]] : n \in 0 .. 3} :
             Retold!SlotsAreRight(<<5, 2>>, list)
        /\ \A outs \in [1 .. 3 -> [kind : {"migration", "change"}, part : 0 .. 2, v : {2, 5}]] :
             Retold!TargetsAreRight(<<2, 5>>, outs)
        /\ \A spends \in {<<{}, {1}, {2}>>, <<{}, {}, {1}>>, <<{}, {1}, {1}>>},
              sched \in [1 .. 3 -> {0, 2, 5}],
              status \in [1 .. 3 -> {"awaiting_inputs", "pending", "broadcasted", "confirmed"}],
              scanned \in {0, 3}, nb \in {0, 4} :
             Retold!ForecastIsRight(
                 [s \in 1 .. 3 |-> [from |-> spends[s], sched |-> sched[s],
                                   nb |-> IF s = 2 THEN nb ELSE 0, status |-> status[s],
                                   mined |-> IF status[s] = "confirmed" THEN 1 ELSE 0]], scanned)
        /\ \A a, b, c, h \in 0 .. 4, blocks \in SUBSET (0 .. 4) : a <= b /\ b < c =>
             Retold!CountIsScanned({[from |-> 0, to |-> a], [from |-> b, to |-> c]}, blocks, h)

-----------------------------------------------------------------------------
\* The app may also die between the steps of a stop.
Abandon == INSTANCE MigrationOutbox WITH
    Parts <- {1, 2}, MODULUS <- 8, MaxHeight <- 3, MaxGen <- 1, MaxFaults <- 1,
    MaxSessions <- 3, MaxDelay <- 1, AnchorHeight <- 0, Stops <- TRUE, CrashInStop <- TRUE,
    run <- s1, raw <- s2, view <- s3, seen <- s4, tip <- s5, mem <- s6, mined <- s7,
    sent <- s8, item <- s9, armed <- s10, receipts <- s11, worker <- s12, app <- s13,
    faults <- s14, sessions <- s15

AbandonSpec ==
    scene = "abandon" /\ Abandon!Init /\ Unused(15) /\ Quiet /\
    [][Abandon!Next /\ StayUnused(15) /\ UNCHANGED vars]_all

\* "If this reply is lost, leave native quiesced; a later idempotent stop retries only this
\* cleanup and cannot submit the abandoned batch" (the Dart service that stops a run): no
\* transaction of an abandoned run is handed to the server.
AbandonedIsQuiet == [][Abandon!AbandonedIsQuietStep]_all
=============================================================================
