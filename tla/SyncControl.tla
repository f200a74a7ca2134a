----------------------------- MODULE SyncControl -----------------------------
(***************************************************************************)
(* Who may scan the wallet database, and how a scan is told to stop        *)
(* (api/sync.rs, migration_preparation.rs).                                *)
(*                                                                         *)
(* The app's sync and the background migration worker share one running    *)
(* flag.  The app's sync is stopped through two process-wide cells, the    *)
(* cancel flag and the desired mode; the worker through the control of its *)
(* operation, which it copies when it starts.  Every store to a cell is a  *)
(* step of its own; another thread may run between any two.                *)
(***************************************************************************)
EXTENDS Integers, FiniteSets

CONSTANTS
    Callers,     \* threads that call start_full_sync
    ModeOf,      \* the mode each of them asks for: 1 foreground, 2 background
    Workers,     \* threads of the migration worker
    MaxOps       \* bound: operations the worker may begin

\* A call of start_full_sync names one of the two modes; the worker's threads
\* are its own.
ASSUME ThreadsAssumption ==
    /\ Callers \intersect Workers = {}
    /\ ModeOf \in [Callers -> {1, 2}]
    /\ MaxOps \in Nat

VARIABLES
    running,   \* SYNC_RUNNING
    mode,      \* DESIRED_SYNC_MODE
    cancel,    \* SYNC_CANCEL
    active,    \* MIGRATION_PREPARATION_OPERATION: the number of the operation, 0 none
    ops,       \* operations begun so far
    stopped,   \* operations whose control was cancelled
    pc,        \* where each thread is
    held,      \* the operation a worker copied
    asked      \* how a caller was told to stop since it took the flag

vars == <<running, mode, cancel, active, ops, stopped, pc, held, asked>>

Threads == Callers \union Workers

Init ==
    /\ running = FALSE /\ mode = 0 /\ cancel = FALSE
    /\ active = 0 /\ ops = 0 /\ stopped = {}
    /\ pc = [t \in Threads |-> "idle"]
    /\ held = [w \in Workers |-> 0]
    /\ asked = [c \in Callers |-> {}]

-----------------------------------------------------------------------------
(* The app's sync: run_full_sync_internal. *)

\* The flag is taken with one compare-and-exchange, or the call is refused.
Start(c) ==
    /\ pc[c] = "idle"
    /\ IF running THEN UNCHANGED <<running, pc, asked>>
       ELSE running' = TRUE /\ pc' = [pc EXCEPT ![c] = "taken"]
            /\ asked' = [asked EXCEPT ![c] = {}]
    /\ UNCHANGED <<mode, cancel, active, ops, stopped, held>>

AnnounceMode(c) ==
    /\ pc[c] = "taken"
    /\ mode' = ModeOf[c]
    /\ pc' = [pc EXCEPT ![c] = "migrating"]
    /\ UNCHANGED <<running, cancel, active, ops, stopped, held, asked>>

\* parse_network_and_migrate fails: the call ends.
MigrateFails(c) ==
    /\ pc[c] = "migrating"
    /\ pc' = [pc EXCEPT ![c] = "ended"]
    /\ UNCHANGED <<running, mode, cancel, active, ops, stopped, held, asked>>

\* faulty variant: a cancel left by an earlier run is not cleared
FaultyEnter(c) ==
    /\ pc[c] = "migrating"
    /\ cancel' = cancel
    /\ pc' = [pc EXCEPT ![c] = "scan"]
    /\ UNCHANGED <<running, mode, active, ops, stopped, held, asked>>
\* parse_network_and_migrate succeeds, the cancel flag is cleared, the scan starts.
Enter(c) ==
    /\ pc[c] = "migrating"
    /\ cancel' = FALSE
    /\ pc' = [pc EXCEPT ![c] = "scan"]
    /\ UNCHANGED <<running, mode, active, ops, stopped, held, asked>>

\* run_sync_inner returns: told to, or of its own accord.
MustStop(c) == cancel \/ mode # ModeOf[c]

ScanReturns(c) ==
    /\ pc[c] = "scan"
    /\ pc' = [pc EXCEPT ![c] = "ended"]
    /\ UNCHANGED <<running, mode, cancel, active, ops, stopped, held, asked>>

Release(c) ==
    /\ pc[c] = "ended"
    /\ running' = FALSE
    /\ pc' = [pc EXCEPT ![c] = "idle"]
    /\ asked' = [asked EXCEPT ![c] = {}]
    /\ UNCHANGED <<mode, cancel, active, ops, stopped, held>>

\* cancel_full_sync.
CancelFullSync ==
    /\ cancel' = TRUE
    /\ asked' = [c \in Callers |-> IF pc[c] = "idle" THEN {} ELSE asked[c] \union {"cancel"}]
    /\ UNCHANGED <<running, mode, active, ops, stopped, pc, held>>

\* set_sync_mode.
SetSyncMode(m) ==
    /\ mode' = m
    /\ asked' = [c \in Callers |->
                  IF pc[c] = "idle" \/ ModeOf[c] = m THEN asked[c] ELSE asked[c] \union {"mode"}]
    /\ UNCHANGED <<running, cancel, active, ops, stopped, pc, held>>

-----------------------------------------------------------------------------
(* The migration worker: MigrationPreparationOperation, run_sync and advance. *)

Begin ==
    /\ active = 0 /\ ops < MaxOps
    /\ active' = ops + 1 /\ ops' = ops + 1
    /\ UNCHANGED <<running, mode, cancel, stopped, pc, held, asked>>

Cancel ==
    /\ active # 0
    /\ stopped' = stopped \union {active}
    /\ UNCHANGED <<running, mode, cancel, active, ops, pc, held, asked>>

\* faulty variant: ending the operation leaves what runs under it alone
FaultyEnd ==
    /\ active # 0
    /\ active' = 0
    /\ stopped' = stopped
    /\ UNCHANGED <<running, mode, cancel, ops, pc, held, asked>>
\* end takes the control out and cancels what still runs under it.
End ==
    /\ active # 0
    /\ active' = 0
    /\ stopped' = stopped \union {active}
    /\ UNCHANGED <<running, mode, cancel, ops, pc, held, asked>>

\* control(): the worker copies the control of the active operation.
CopyControl(w) ==
    /\ pc[w] = "idle" /\ active # 0
    /\ held' = [held EXCEPT ![w] = active]
    /\ \E next \in {"guard", "advance"} : pc' = [pc EXCEPT ![w] = next]
    /\ UNCHANGED <<running, mode, cancel, active, ops, stopped, asked>>

WorkerIdle(w) ==
    /\ pc' = [pc EXCEPT ![w] = "idle"]
    /\ held' = [held EXCEPT ![w] = 0]

\* SyncRunningGuard::acquire: the flag, or SyncAlreadyRunning.
Acquire(w) ==
    /\ pc[w] = "guard"
    /\ IF running THEN WorkerIdle(w) /\ UNCHANGED running
       ELSE /\ running' = TRUE
            /\ pc' = [pc EXCEPT ![w] = "scan"]
            /\ held' = held
    /\ UNCHANGED <<mode, cancel, active, ops, stopped, asked>>

\* run_sync_inner returns, and the guard is dropped.
\* faulty variant: the guard is not dropped when the operation was cancelled
FaultyWorkerReturns(w) ==
    /\ pc[w] = "scan"
    /\ running' = (held[w] \in stopped)
    /\ WorkerIdle(w)
    /\ UNCHANGED <<mode, cancel, active, ops, stopped, asked>>
WorkerReturns(w) ==
    /\ pc[w] = "scan"
    /\ running' = FALSE
    /\ WorkerIdle(w)
    /\ UNCHANGED <<mode, cancel, active, ops, stopped, asked>>

\* advance: takes no running flag; its control is checked while it runs.
Advanced(w) ==
    /\ pc[w] = "advance"
    /\ WorkerIdle(w)
    /\ UNCHANGED <<running, mode, cancel, active, ops, stopped, asked>>

Next ==
    \/ \E c \in Callers :
         Start(c) \/ AnnounceMode(c) \/ MigrateFails(c) \/ Enter(c)
         \/ ScanReturns(c) \/ Release(c)
    \/ CancelFullSync
    \/ \E m \in 0 .. 2 : SetSyncMode(m)
    \/ Begin \/ Cancel \/ End
    \/ \E w \in Workers : CopyControl(w) \/ Acquire(w) \/ WorkerReturns(w) \/ Advanced(w)

\* A thread inside a call keeps running, and the engine looks at the flags once
\* per batch, so a scan that is told to stop returns.
StopsScan(c) == MustStop(c) /\ ScanReturns(c)
WorkerStops(w) == held[w] \in stopped /\ (WorkerReturns(w) \/ Advanced(w))
Fairness ==
    /\ \A c \in Callers :
         /\ WF_vars(AnnounceMode(c)) /\ WF_vars(MigrateFails(c) \/ Enter(c))
         /\ WF_vars(Release(c))
         /\ WF_vars(StopsScan(c))
    /\ \A w \in Workers :
         /\ WF_vars(Acquire(w))
         /\ WF_vars(WorkerStops(w))

Spec == Init /\ [][Next]_vars /\ Fairness

-----------------------------------------------------------------------------
Scanning(t) == pc[t] = "scan"
Holds(t) == pc[t] \in {"taken", "migrating", "scan", "ended"}

TypeOK ==
    /\ running \in BOOLEAN /\ mode \in 0 .. 2 /\ cancel \in BOOLEAN
    /\ active \in 0 .. MaxOps /\ ops \in 0 .. MaxOps /\ stopped \subseteq 1 .. MaxOps
    /\ pc \in [Threads -> {"idle", "taken", "migrating", "scan", "ended", "guard", "advance"}]
    /\ held \in [Workers -> 0 .. MaxOps] /\ asked \in [Callers -> SUBSET {"cancel", "mode"}]

(* The app's sync and the worker's sync never scan the wallet at the same time,
   and the flag is up exactly while one of them is between taking it and giving
   it back: a refused or failed call neither drops nor keeps it. *)
OneScan ==
    /\ \A t, u \in Threads : Holds(t) /\ Holds(u) => t = u
    /\ running <=> \E t \in Threads : Holds(t)

(* A scan nobody told to stop runs on: neither a refused start of the other mode
   nor a cancel meant for an earlier run reaches it. *)
UnaskedRunsOn ==
    \A c \in Callers : pc[c] = "scan" /\ asked[c] = {} => ~MustStop(c)

(* An operation that was cancelled or ended stops the work that copied its
   control, even when another operation has begun since. *)
HoldsEnded(w, n) == held[w] = n /\ (active # n \/ n \in stopped)
LetsGo(w, n) == held[w] # n
OperationStops == \A w \in Workers, n \in 1 .. MaxOps : HoldsEnded(w, n) ~> LetsGo(w, n)

(* "Cancel a running full sync.": a sync that is running when cancel_full_sync
   is called sees the request when it scans. *)
CancelHeard ==
    \A c \in Callers : pc[c] = "scan" /\ "cancel" \in asked[c] => cancel
=============================================================================
