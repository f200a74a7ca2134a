---------------------------- MODULE MCLiveWallet ----------------------------
(***************************************************************************)
(* What must end or come about: sync sessions and catching up, stopped     *)
(* scans and runs, the mempool observer's stop, the sweep of the receive   *)
(* addresses, the resubmission and the enhancement of transactions.        *)
(*                                                                         *)
(* A behaviour is one of a single instance, which scene names; the         *)
(* instance keeps its variables in the first of s1 to s22 and the rest are *)
(* idle.                                                                   *)
(***************************************************************************)
EXTENDS Integers, TLC

VARIABLES scene,
    s1, s2, s3, s4, s5, s6, s7, s8, s9, s10, s11, s12, s13, s14, s15, s16, s17, s18, s19,
    s20, s21, s22

-----------------------------------------------------------------------------
(* The instances *)

\* One reorganisation, one fault and the rewinds and repairs they cause.
Engine == INSTANCE SyncEngine WITH
    Start0 <- 2, MaxHeight <- 3, MaxGen <- 1, BatchSize <- 2, Distance <- 2, Floor <- 0,
    MaxRewinds <- 2, MaxRetries <- 1, MaxPasses <- 1, AnchorDepth <- 1,
    RepairDistances <- <<1, 2>>, MaxFaults <- 1,
    chain <- s1, fork <- s2, blocks <- s3, dbTip <- s4, rescan <- s5, damage <- s6,
    checkDue <- s7, taint <- s8, marker <- s9, pc <- s10, tip <- s11, need <- s12,
    rewinds <- s13, passes <- s14, force <- s15, batch <- s16, prefetch <- s17,
    attempt <- s18, err <- s19, stop <- s20, vouched <- s21, faults <- s22

\* Two operations of the preparation, and a thread of its worker.
Control == INSTANCE SyncControl WITH
    Callers <- {"fg", "bg"}, ModeOf <- [fg |-> 1, bg |-> 2], Workers <- {"w1"},
    MaxOps <- 2,
    running <- s1, mode <- s2, cancel <- s3, active <- s4, ops <- s5, stopped <- s6,
    pc <- s7, held <- s8, asked <- s9

\* Two starts of the mempool observer and one sync of a claim.
Tokens == INSTANCE RunTokens WITH
    Runs <- {"o1", "o2", "c1"},
    KeyOf <- [o1 |-> "mempool", o2 |-> "mempool", c1 |-> "claim1"],
    Keys <- {"mempool", "claim1"},
    entry <- s1, token <- s2, pc <- s3, asked <- s4

\* One transaction, an import of its account, and a stop at any moment.
Mempool == INSTANCE MempoolObserver WITH
    Txs <- {"in"}, Accounts <- {"a1", "a2"}, Outputs <- [in |-> {"a2"}], SeenMax <- 1,
    UnmatchedMax <- 1, Ttl <- 1,
    pc <- s1, cancel <- s2, errors <- s3, delay <- s4, seen <- s5, unmatched <- s6,
    cur <- s7, mempool <- s8, stream <- s9, keys <- s10, rows <- s11, told <- s12,
    quiet <- s13

\* Three addresses, of which one is recent and one is swept in a session.
Sweep == INSTANCE TransparentRefresh WITH
    N <- 3, RecentLimit <- 1, SweepLimit <- 1, Lookback <- 1, MaxTip <- 2, MaxOuts <- 2,
    MaxUi <- 1, MaxFaults <- 1,
    tip <- s1, outs <- s2, stored <- s3, rec <- s4, pc <- s5, batches <- s6, base <- s7,
    got <- s8, ui <- s9, raced <- s10, uis <- s11, faults <- s12

\* Two transactions that name each other as parents, one of them unreadable; one the server
\* refuses, its child, and an ordinary one.
Resubmit == INSTANCE Resubmission WITH
    N <- 5, Parents <- <<{2}, {1}, {}, {3}, {}>>, Unreadable <- {1}, Refused <- {3},
    MaxPasses <- 0, MaxHeight <- 3,
    row <- s1, height <- s2, pool <- s3, tor <- s4, pass <- s5, passes <- s6,
    sends <- s7, orphaned <- s8

\* Each transaction reveals the next, and the server does not know one.
Enhance == INSTANCE Enhancement WITH
    Txs <- 1 .. 4, Spends <- <<{}, {1, 4}, {1}, {}>>, Value <- <<5, 4, 3, 6>>,
    Pays <- <<-2, 8, 3, -1>>, Reveals <- <<{2}, {3}, {1, 4}, {}>>, Known <- {1, 2, 3},
    Touching <- {2}, MaxFailures <- 1,
    asks <- s1, stored <- s2, settled <- s3, fee <- s4, pass <- s5, failures <- s6

\* One part, with a lost answer or a crash.
Outbox == INSTANCE MigrationOutbox WITH
    Parts <- {1}, MODULUS <- 8, MaxHeight <- 3, MaxGen <- 1, MaxFaults <- 1,
    MaxSessions <- 0, MaxDelay <- 1, AnchorHeight <- 0, Stops <- FALSE,
    CrashInStop <- FALSE,
    run <- s1, raw <- s2, view <- s3, seen <- s4, tip <- s5, mem <- s6, mined <- s7,
    sent <- s8, item <- s9, armed <- s10, receipts <- s11, worker <- s12, app <- s13,
    faults <- s14, sessions <- s15

\* Immediate and split requests, with one failure and one crash anywhere.
Requests == INSTANCE KeystoneRequests WITH
    MaxReq <- 2, MaxRuns <- 1, Parts <- 1, BatchMax <- 1,
    Kinds <- {"immediate", "denom"}, Crashes <- 1, Faults <- 1,
    req <- s1, worker <- s2, op <- s3, run <- s4, applied <- s5, lock <- s6, net <- s7,
    made <- s8, left <- s9

-----------------------------------------------------------------------------
On(s) == scene = s

all == <<scene, s1, s2, s3, s4, s5, s6, s7, s8, s9, s10, s11, s12, s13, s14, s15, s16,
         s17, s18, s19, s20, s21, s22>>

\* an instance of k variables leaves the others alone
Unused(k) ==
    /\ (k < 5 => s5 = 0) /\ (k < 6 => s6 = 0) /\ (k < 7 => s7 = 0) /\ (k < 8 => s8 = 0)
    /\ (k < 9 => s9 = 0) /\ (k < 10 => s10 = 0) /\ (k < 11 => s11 = 0)
    /\ (k < 12 => s12 = 0) /\ (k < 13 => s13 = 0) /\ (k < 14 => s14 = 0)
    /\ (k < 15 => s15 = 0) /\ (k < 16 => s16 = 0) /\ (k < 17 => s17 = 0)
    /\ (k < 18 => s18 = 0) /\ (k < 19 => s19 = 0) /\ (k < 20 => s20 = 0)
    /\ (k < 21 => s21 = 0) /\ (k < 22 => s22 = 0)
StayUnused(k) ==
    /\ UNCHANGED scene
    /\ (k < 5 => s5' = 0) /\ (k < 6 => s6' = 0) /\ (k < 7 => s7' = 0)
    /\ (k < 8 => s8' = 0) /\ (k < 9 => s9' = 0) /\ (k < 10 => s10' = 0)
    /\ (k < 11 => s11' = 0) /\ (k < 12 => s12' = 0) /\ (k < 13 => s13' = 0)
    /\ (k < 14 => s14' = 0) /\ (k < 15 => s15' = 0) /\ (k < 16 => s16' = 0)
    /\ (k < 17 => s17' = 0) /\ (k < 18 => s18' = 0) /\ (k < 19 => s19' = 0)
    /\ (k < 20 => s20' = 0) /\ (k < 21 => s21' = 0) /\ (k < 22 => s22' = 0)

Init ==
    \/ scene = "engine" /\ Engine!Init /\ Unused(22)
    \/ scene = "control" /\ Control!Init /\ Unused(9)
    \/ scene = "tokens" /\ Tokens!Init /\ Unused(4)
    \/ scene = "mempool" /\ Mempool!Init /\ Unused(13)
    \/ scene = "sweep" /\ Sweep!Init /\ Unused(12)
    \/ scene = "resubmit" /\ Resubmit!Init /\ Unused(8)
    \/ scene = "enhance" /\ Enhance!Init /\ Unused(6)
    \/ scene = "outbox" /\ Outbox!Init /\ Unused(15)
    \/ scene = "requests" /\ Requests!Init /\ Unused(9)

Next ==
    \/ On("engine") /\ Engine!Next /\ StayUnused(22)
    \/ On("control") /\ Control!Next /\ StayUnused(9)
    \/ On("tokens") /\ Tokens!Next /\ StayUnused(4)
    \/ On("mempool") /\ Mempool!Next /\ StayUnused(13)
    \/ On("sweep") /\ Sweep!Next /\ StayUnused(12)
    \/ On("resubmit") /\ Resubmit!Quiet /\ StayUnused(8)
    \/ On("enhance") /\ Enhance!Next /\ StayUnused(6)
    \/ On("outbox") /\ Outbox!Next /\ StayUnused(15)
    \/ On("requests") /\ Requests!Next /\ StayUnused(9)
    \/ scene \in {"enhance"} /\ UNCHANGED all   \* these may end

Spec == Init /\ [][Next]_all

\* The fairness of each instance, as its module states and justifies it; the mempool observer's
\* stop needs nothing of the network.  The scene never changes, so one formula is the fairness of
\* one action of each of several scenes.
Fairness ==
    /\ SF_all((On("resubmit") /\ Resubmit!Attempt(TRUE) /\ StayUnused(8)))
    /\ WF_all(
           \/ (On("engine") /\ Engine!Engine /\ StayUnused(22))
           \/ (On("control") /\ Control!AnnounceMode("fg") /\ StayUnused(9))
           \/ (On("tokens") /\ Tokens!Work("o1") /\ StayUnused(4))
           \/ (On("mempool") /\ Mempool!Wake /\ StayUnused(13))
           \/ (On("sweep") /\ Sweep!Session /\ StayUnused(12))
           \/ (On("resubmit") /\ Resubmit!BeginPass({}) /\ StayUnused(8))
           \/ (On("enhance") /\ Enhance!Progress /\ StayUnused(6))
           \/ (On("outbox") /\ Outbox!Runner /\ StayUnused(15))
           \/ (On("requests") /\ (Requests!DenominationWorker(1) \/ Requests!SingleWorker(1) \/ Requests!BatchWorker(1) \/ Requests!ImmediateWorker(1)) /\ StayUnused(9)))
    /\ WF_all(
           \/ (On("engine") /\ Engine!Start /\ StayUnused(22))
           \/ (On("control") /\ Control!AnnounceMode("bg") /\ StayUnused(9))
           \/ (On("tokens") /\ Tokens!Work("o2") /\ StayUnused(4))
           \/ (On("mempool") /\ Mempool!Stops /\ StayUnused(13))
           \/ (On("sweep") /\ Sweep!UiWrite /\ StayUnused(12))
           \/ (On("resubmit") /\ Resubmit!StopsHere /\ StayUnused(8))
           \/ (On("outbox") /\ Outbox!AppStep /\ StayUnused(15))
           \/ (On("requests") /\ (Requests!DenominationWorker(2) \/ Requests!SingleWorker(2) \/ Requests!BatchWorker(2) \/ Requests!ImmediateWorker(2)) /\ StayUnused(9)))
    /\ WF_all(
           \/ (On("control") /\ (Control!MigrateFails("fg") \/ Control!Enter("fg")) /\ StayUnused(9))
           \/ (On("tokens") /\ Tokens!Work("c1") /\ StayUnused(4))
           \/ (On("mempool") /\ Mempool!Tick /\ StayUnused(13))
           \/ (On("resubmit") /\ Resubmit!Defer /\ StayUnused(8))
           \/ (On("outbox") /\ Outbox!Mine /\ StayUnused(15))
           \/ (On("requests") /\ Requests!RecoverLocks(1) /\ StayUnused(9)))
    /\ WF_all(
           \/ (On("control") /\ (Control!MigrateFails("bg") \/ Control!Enter("bg")) /\ StayUnused(9))
           \/ (On("tokens") /\ (Tokens!ObserverEnds("o1") \/ Tokens!ClaimEnds("o1")) /\ StayUnused(4))
           \/ (On("mempool") /\ Mempool!Handle /\ StayUnused(13))
           \/ (On("resubmit") /\ Resubmit!EndPass /\ StayUnused(8))
           \/ (On("outbox") /\ Outbox!Scan /\ StayUnused(15))
           \/ (On("requests") /\ Requests!RecoverLocks(2) /\ StayUnused(9)))
    /\ WF_all(
           \/ (On("control") /\ Control!Release("fg") /\ StayUnused(9))
           \/ (On("tokens") /\ (Tokens!ObserverEnds("o2") \/ Tokens!ClaimEnds("o2")) /\ StayUnused(4))
           \/ (On("mempool") /\ Mempool!StreamEof /\ StayUnused(13))
           \/ (On("requests") /\ Requests!LapseLock(1) /\ StayUnused(9)))
    /\ WF_all(
           \/ (On("control") /\ Control!Release("bg") /\ StayUnused(9))
           \/ (On("tokens") /\ (Tokens!ObserverEnds("c1") \/ Tokens!ClaimEnds("c1")) /\ StayUnused(4))
           \/ (On("requests") /\ Requests!LapseLock(2) /\ StayUnused(9)))
    /\ WF_all(
           \/ (On("control") /\ Control!StopsScan("fg") /\ StayUnused(9))
           \/ (On("tokens") /\ Tokens!Obeys("o1") /\ StayUnused(4))
           \/ (On("requests") /\ (Requests!PersistRow \/ Requests!LockInputs \/ Requests!InsertImmediate \/ Requests!SignInWallet \/ Requests!BuildFails) /\ StayUnused(9)))
    /\ WF_all(
           \/ (On("control") /\ Control!StopsScan("bg") /\ StayUnused(9))
           \/ (On("tokens") /\ Tokens!Obeys("o2") /\ StayUnused(4))
           \/ (On("requests") /\ (Requests!Extracted \/ Requests!PutBack \/ Requests!MarkStarted) /\ StayUnused(9)))
    /\ WF_all(
           \/ (On("control") /\ Control!Acquire("w1") /\ StayUnused(9))
           \/ (On("tokens") /\ Tokens!Obeys("c1") /\ StayUnused(4))
           \/ (On("requests") /\ Requests!SendImmediate /\ StayUnused(9)))
    /\ WF_all(
           \/ (On("control") /\ Control!WorkerStops("w1") /\ StayUnused(9))
           \/ (On("requests") /\ (Requests!AfterRefusal \/ Requests!AfterSend) /\ StayUnused(9)))

LiveSpec == Spec /\ Fairness

-----------------------------------------------------------------------------
(* What is checked of each instance *)

\* What the wallet reads: a sync session ends (SyncEngine!SessionEnds) and sessions that follow one
\* another catch up with the chain (CatchesUp); a worker lets go of an operation that has ended
\* (SyncControl!OperationStops); a run that was asked to stop leaves (RunTokens!StoppedRunsLeave);
\* a cancelled mempool observer ends (MempoolObserver!StopEnds); every output of every address is
\* stored (TransparentRefresh!EverySwept); and every transaction the wallet asks for is stored if
\* the server knows it (Enhancement!EveryAskIsAnswered).
ReadingEnds ==
    /\ \/ On("engine") /\ ~Engine!Idle
       \/ On("control") /\ Control!HoldsEnded("w1", 1)
       \/ On("tokens") /\ Tokens!Asked("o1")
       \/ On("mempool") /\ Mempool!Cancelled
       \/ On("enhance") /\ Enhance!Waits(1)
      ~>
       \/ On("engine") /\ Engine!Idle
       \/ On("control") /\ Control!LetsGo("w1", 1)
       \/ On("tokens") /\ Tokens!Left("o1")
       \/ On("mempool") /\ Mempool!Ended
       \/ On("enhance") /\ Enhance!Stored(1)
    /\ \/ On("control") /\ Control!HoldsEnded("w1", 2)
       \/ On("tokens") /\ Tokens!Asked("c1")
       \/ On("enhance") /\ Enhance!Waits(2)
      ~>
       \/ On("control") /\ Control!LetsGo("w1", 2)
       \/ On("tokens") /\ Tokens!Left("c1")
       \/ On("enhance") /\ Enhance!Stored(2)
    /\ (On("enhance") /\ Enhance!Waits(3)) ~> (On("enhance") /\ Enhance!Stored(3))
    /\ []<>(On("engine") => Engine!CaughtUp) \/ <>[](On("engine") => Engine!Damaged)
    /\ <>[](On("sweep") => Sweep!AllStored)

\* What the wallet sends: a transaction that can be relayed is, whatever happens to the others
\* (Resubmission!EveryoneRelayed; of the five, only the last one can); every part is handed to the
\* server (MigrationOutbox!EveryPartIsSent); proving ends (KeystoneRequests!ProvingEnds), the
\* inputs of a live request are locked (LiveInputsLocked), every lock has an end (LocksHaveAnEnd),
\* and the inputs of a request nobody pursues come back (InputsComeBack).
SendingEnds ==
    /\ [](On("requests") => Requests!LiveInputsLocked /\ Requests!LocksHaveAnEnd)
    /\ <>[]/\ On("resubmit") => \A t \in Resubmit!Reachable : Resubmit!Relayed(t)
           /\ On("outbox") => Outbox!AllSent
    /\ \A i \in {1, 2} :
          /\ (On("requests") /\ Requests!Proving(i)) ~> (On("requests") /\ ~Requests!Proving(i))
          /\ (On("requests") /\ Requests!Locked(i) /\ ~Requests!Owned(i))
                ~> (On("requests") /\ ~Requests!Locked(i))
=============================================================================
