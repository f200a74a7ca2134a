-------------------------- MODULE SyncControlProofs --------------------------
(***************************************************************************)
(* Theorems of SyncControl, for any number of callers, worker threads and  *)
(* operations: types, one scan at a time, and a scan nobody told to stop   *)
(* runs on.                                                                *)
(***************************************************************************)
EXTENDS SyncControl, TLAPS

\* The cells keep their types.
THEOREM TypesAreKept == Spec => []TypeOK
<1>1. Init => TypeOK
  <2> SUFFICES ASSUME Init PROVE TypeOK
    OBVIOUS
  <2>1. MaxOps \in Nat /\ 0 \in 0 .. MaxOps
    BY ThreadsAssumption
  <2>2. /\ running \in BOOLEAN /\ cancel \in BOOLEAN
        /\ mode \in 0 .. 2
    <3>1. running = FALSE /\ cancel = FALSE
      BY DEF Init
    <3>2. mode \in 0 .. 2
      BY DEF Init
    <3>3. running \in BOOLEAN /\ cancel \in BOOLEAN
      BY <3>1, Zenon
    <3> QED
      BY <3>2, <3>3
  <2>3. active \in 0 .. MaxOps /\ ops \in 0 .. MaxOps /\ stopped \subseteq 1 .. MaxOps
    BY <2>1 DEF Init
  <2>4. pc \in [Threads -> {"idle", "taken", "migrating", "scan", "ended", "guard", "advance"}]
    BY DEF Init
  <2>5. held \in [Workers -> 0 .. MaxOps] /\ asked \in [Callers -> SUBSET {"cancel", "mode"}]
    BY <2>1 DEF Init
  <2> QED
    BY <2>2, <2>3, <2>4, <2>5 DEF TypeOK
<1>2. TypeOK /\ [Next]_vars => TypeOK'
  <2> SUFFICES ASSUME TypeOK, [Next]_vars PROVE TypeOK'
    OBVIOUS
  <2> USE ThreadsAssumption DEF TypeOK, Threads
  <2>1. ASSUME NEW c \in Callers, Start(c) PROVE TypeOK'
    BY <2>1 DEF Start
  <2>2. ASSUME NEW c \in Callers, AnnounceMode(c) PROVE TypeOK'
    BY <2>2 DEF AnnounceMode
  <2>3. ASSUME NEW c \in Callers, MigrateFails(c) PROVE TypeOK'
    BY <2>3 DEF MigrateFails
  <2>4. ASSUME NEW c \in Callers, Enter(c) PROVE TypeOK'
    BY <2>4 DEF Enter
  <2>5. ASSUME NEW c \in Callers, ScanReturns(c) PROVE TypeOK'
    BY <2>5 DEF ScanReturns
  <2>6. ASSUME NEW c \in Callers, Release(c) PROVE TypeOK'
    BY <2>6 DEF Release
  <2>7. ASSUME CancelFullSync PROVE TypeOK'
    BY <2>7 DEF CancelFullSync
  <2>8. ASSUME NEW m \in 0 .. 2, SetSyncMode(m) PROVE TypeOK'
    BY <2>8 DEF SetSyncMode
  <2>9. ASSUME Begin \/ Cancel \/ End PROVE TypeOK'
    <3>1. CASE Begin
      BY <3>1 DEF Begin
    <3>2. CASE Cancel \/ End
      <4>1. active \in 1 .. MaxOps
        BY <3>2 DEF Cancel, End
      <4>2. active' \in 0 .. MaxOps
        BY <3>2 DEF Cancel, End
      <4>3. stopped' \subseteq 1 .. MaxOps
        BY <3>2, <4>1 DEF Cancel, End
      <4> QED
        BY <3>2, <4>2, <4>3 DEF Cancel, End
    <3> QED
      BY <2>9, <3>1, <3>2
  <2>10. ASSUME NEW w \in Workers, CopyControl(w) PROVE TypeOK'
    BY <2>10 DEF CopyControl
  <2>11. ASSUME NEW w \in Workers, Acquire(w) \/ WorkerReturns(w) \/ Advanced(w) PROVE TypeOK'
    <3>1. running' \in BOOLEAN
      BY <2>11 DEF Acquire, WorkerReturns, Advanced
    <3>2. pc' \in [Threads -> {"idle", "taken", "migrating", "scan", "ended", "guard", "advance"}]
      BY <2>11 DEF Acquire, WorkerReturns, Advanced, WorkerIdle
    <3>3. held' \in [Workers -> 0 .. MaxOps]
      BY <2>11 DEF Acquire, WorkerReturns, Advanced, WorkerIdle
    <3> QED
      BY <2>11, <3>1, <3>2, <3>3 DEF Acquire, WorkerReturns, Advanced
  <2>12. ASSUME UNCHANGED vars PROVE TypeOK'
    BY <2>12 DEF vars
  <2> QED
    BY <2>1, <2>2, <2>3, <2>4, <2>5, <2>6, <2>7, <2>8, <2>9, <2>10, <2>11, <2>12 DEF Next
<1> QED
  BY <1>1, <1>2, PTL DEF Spec

-----------------------------------------------------------------------------
\* The app's sync and the worker's never scan at once, and SYNC_RUNNING is up
\* exactly while a thread is between taking it and giving it back.
THEOREM OneScanAtATime == Spec => []OneScan
<1>1. Init => OneScan
  BY DEF Init, OneScan, Holds
<1>2. TypeOK /\ OneScan /\ [Next]_vars => OneScan'
  <2> SUFFICES ASSUME TypeOK, OneScan, [Next]_vars PROVE OneScan'
    OBVIOUS
  <2> USE DEF OneScan, Holds
  <2>0. pc \in [Threads -> {"idle", "taken", "migrating", "scan", "ended", "guard", "advance"}]
    BY DEF TypeOK
  <2>1. ASSUME NEW c \in Callers, Start(c) PROVE OneScan'
    BY <2>0, <2>1 DEF Start, Threads
  <2>2. ASSUME NEW c \in Callers,
               AnnounceMode(c) \/ MigrateFails(c) \/ Enter(c) \/ ScanReturns(c)
        PROVE  OneScan'
    BY <2>0, <2>2 DEF AnnounceMode, MigrateFails, Enter, ScanReturns, Threads
  <2>3. ASSUME NEW c \in Callers, Release(c) PROVE OneScan'
    BY <2>0, <2>3 DEF Release, Threads
  <2>4. ASSUME NEW w \in Workers, CopyControl(w) PROVE OneScan'
    BY <2>0, <2>4 DEF CopyControl, Threads
  <2>5. ASSUME NEW w \in Workers, Acquire(w) PROVE OneScan'
    BY <2>0, <2>5 DEF Acquire, WorkerIdle, Threads
  <2>6. ASSUME NEW w \in Workers, WorkerReturns(w) PROVE OneScan'
    BY <2>0, <2>6 DEF WorkerReturns, WorkerIdle, Threads
  <2>7. ASSUME NEW w \in Workers, Advanced(w) PROVE OneScan'
    BY <2>0, <2>7 DEF Advanced, WorkerIdle, Threads
  <2>8. ASSUME UNCHANGED <<pc, running>> PROVE OneScan'
    BY <2>8
  <2>9. ASSUME NEW m \in 0 .. 2, SetSyncMode(m) PROVE OneScan'
    BY <2>8, <2>9 DEF SetSyncMode
  <2>10. ASSUME CancelFullSync \/ Begin \/ Cancel \/ End PROVE OneScan'
    BY <2>8, <2>10 DEF CancelFullSync, Begin, Cancel, End
  <2>11. ASSUME UNCHANGED vars PROVE OneScan'
    BY <2>8, <2>11 DEF vars
  <2> QED
    BY <2>1, <2>2, <2>3, <2>4, <2>5, <2>6, <2>7, <2>9, <2>10, <2>11 DEF Next
<1> QED
  BY <1>1, <1>2, TypesAreKept, PTL DEF Spec

-----------------------------------------------------------------------------
\* The mode a caller announced stands, and the cancel flag it cleared stays
\* down, until somebody asks it to stop: no other caller is past the flag.
Undisturbed ==
    \A c \in Callers : asked[c] = {} =>
        /\ pc[c] \in {"migrating", "scan"} => mode = ModeOf[c]
        /\ pc[c] = "scan" => ~cancel

\* The announced mode and the cleared cancel flag are as the caller left them
\* until somebody asks it to stop.
LEMMA UndisturbedHolds == Spec => []Undisturbed
<1>1. Init => Undisturbed
  BY ThreadsAssumption DEF Init, Undisturbed, Threads
<1>2. TypeOK /\ OneScan /\ Undisturbed /\ [Next]_vars => Undisturbed'
  <2> SUFFICES ASSUME TypeOK, OneScan, Undisturbed, [Next]_vars,
                      NEW d \in Callers, asked'[d] = {}
               PROVE  /\ pc'[d] \in {"migrating", "scan"} => mode' = ModeOf[d]
                      /\ pc'[d] = "scan" => ~cancel'
    BY DEF Undisturbed
  <2> DEFINE Goal == /\ pc'[d] \in {"migrating", "scan"} => mode' = ModeOf[d]
                     /\ pc'[d] = "scan" => ~cancel'
  <2>0. /\ pc \in [Threads -> {"idle", "taken", "migrating", "scan", "ended", "guard", "advance"}]
        /\ asked \in [Callers -> SUBSET {"cancel", "mode"}]
        /\ Callers \subseteq Threads
        /\ \A w \in Workers : w # d /\ w \in Threads
    BY ThreadsAssumption DEF TypeOK, Threads
  <2>1. \A t, u \in Threads : Holds(t) /\ Holds(u) => t = u
    BY DEF OneScan
  <2> USE DEF Undisturbed
  <2>2. ASSUME NEW c \in Callers, Start(c) PROVE Goal
    BY <2>0, <2>2 DEF Start
  <2>3. ASSUME NEW c \in Callers, AnnounceMode(c) PROVE Goal
    BY <2>0, <2>1, <2>3 DEF AnnounceMode, Holds
  <2>4. ASSUME NEW c \in Callers, MigrateFails(c) \/ ScanReturns(c) PROVE Goal
    BY <2>0, <2>4 DEF MigrateFails, ScanReturns
  <2>5. ASSUME NEW c \in Callers, Enter(c) PROVE Goal
    BY <2>0, <2>1, <2>5 DEF Enter, Holds
  <2>6. ASSUME NEW c \in Callers, Release(c) PROVE Goal
    BY <2>0, <2>6 DEF Release
  <2>7. ASSUME CancelFullSync PROVE Goal
    BY <2>0, <2>7 DEF CancelFullSync
  <2>8. ASSUME NEW m \in 0 .. 2, SetSyncMode(m) PROVE Goal
    BY <2>0, <2>8 DEF SetSyncMode
  <2>9. ASSUME Begin \/ Cancel \/ End PROVE Goal
    BY <2>9 DEF Begin, Cancel, End
  <2>10. ASSUME NEW w \in Workers,
                CopyControl(w) \/ Acquire(w) \/ WorkerReturns(w) \/ Advanced(w)
         PROVE  Goal
    BY <2>0, <2>10 DEF CopyControl, Acquire, WorkerReturns, Advanced, WorkerIdle
  <2>11. ASSUME UNCHANGED vars PROVE Goal
    BY <2>11 DEF vars
  <2> QED
    BY <2>2, <2>3, <2>4, <2>5, <2>6, <2>7, <2>8, <2>9, <2>10, <2>11 DEF Next
<1> QED
  BY <1>1, <1>2, TypesAreKept, OneScanAtATime, PTL DEF Spec

\* A scan nobody told to stop runs on: a refused start of the other mode, the
\* worker's sync and a cancel meant for an earlier run do not reach it.
THEOREM UnaskedScansRunOn == Spec => []UnaskedRunsOn
<1>1. Undisturbed => UnaskedRunsOn
  BY DEF Undisturbed, UnaskedRunsOn, MustStop
<1> QED
  BY <1>1, UndisturbedHolds, PTL
=============================================================================
