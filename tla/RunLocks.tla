------------------------------- MODULE RunLocks -------------------------------
(***************************************************************************)
(* The lifecycle of an account's migration runs and the wallet locks that  *)
(* follow it (wallet/sync/migration.rs, migration_wallet_ops.rs).  A run's *)
(* row and the locks of its notes live behind different APIs, so they      *)
(* never change in one transaction: whoever changes a phase then calls     *)
(* reconcile_wallet_locks_for_run, which reads the row, locks or unlocks,  *)
(* and reads the row again.  The driver (the foreground operation, one at  *)
(* a time) and the pass after a sync do this concurrently; ordinary sends  *)
(* lock notes too.                                                         *)
(***************************************************************************)
EXTENDS Naturals, FiniteSets

CONSTANTS RunIds,     \* runs in the order they are created: 1..n
          Notes,      \* Orchard notes of the account
          StageNotes, \* those that would be split by a preparation stage first
          MaxPasses,  \* passes of the reconciliation loop (8 in the code)
          Crashes,    \* bound: crashes
          Faults,     \* bound: failing database calls
          MayDelete   \* whether the account may be deleted

ASSUME RunLocksAssumption ==
  /\ IsFiniteSet(RunIds) /\ RunIds = 1..Cardinality(RunIds)
  /\ MaxPasses \in Nat \ {0}

VARIABLES run,     \* per run: [phase, cands: its candidate outpoints, dup: see DupFailure]
          lock,    \* owner of each note's lock: 0, a run, or Other
          seen,    \* notes the wallet can see as spendable
          ready,   \* the wallet has a target height
          proc,    \* what each of the two callers is doing
          todo,    \* runs the pass after a sync has still to reconcile
          unsure,  \* runs whose last reconciliation did not finish
          left     \* remaining crashes and faults

vars == <<run, lock, seen, ready, proc, todo, unsure, left>>

Procs == {"driver", "sync"}
Other == Cardinality(RunIds) + 1   \* an ordinary send
Terminal == {"complete", "failed_terminal", "abandoned"}
Draft == {"awaiting_preparation", "awaiting_denomination_signature"}
Phases == Terminal \union Draft \union {"none", "deleted", "ready_to_migrate", "waiting_denom_confirmations"}

NoRun == [phase |-> "none", cands |-> {}, dup |-> FALSE]
Gone == [NoRun EXCEPT !.phase = "deleted"]
Idle == [st |-> "idle", run |-> 0, release |-> FALSE, cands |-> {}, n |-> 0, made |-> {}, then |-> ""]

Exists(r) == run[r].phase \notin {"none", "deleted"}

\* active_run: at most one run is neither over nor absent
Active == {r \in RunIds : Exists(r) /\ run[r].phase \notin Terminal}

\* latest_idempotent_broadcast_failure: the newest run failed because the server said it had the
\* transaction already, and still has scheduled parts
DupFailure == {r \in RunIds : /\ run[r].phase = "failed_terminal" /\ run[r].dup
                              /\ \A q \in RunIds : q > r => ~Exists(q)}

\* faulty variant: a false failure that waits for its recovery reserves nothing
FaultyReserved == Active # {}

\* migration_reserves_orchard_inputs
Reserved == Active \union DupFailure # {}

\* migration_phase_releases_wallet_locks
Releases(phase) == phase \in Terminal

Init ==
  /\ \E C \in SUBSET Notes : run \in [RunIds -> {NoRun} \union
       {[phase |-> "failed_terminal", cands |-> C, dup |-> TRUE]}]
  /\ \A r \in RunIds : r > 1 => run[r] = NoRun
  /\ lock = [x \in Notes |-> 0] /\ seen = Notes /\ ready \in BOOLEAN
  /\ proc = [p \in Procs |-> Idle] /\ todo = {} /\ unsure = {}
  /\ left = [crash |-> Crashes, fault |-> Faults]

\* new_run_id: no id is used twice
Fresh == {r \in RunIds : \A q \in RunIds : run[q].phase = "none" <=> q >= r}

\* Notes to build on are spendable and were not locked when they were chosen.  A draft keeps
\* sends away from then on; without one a send may have locked some before the row exists.
Choices == {C \in SUBSET {x \in seen : lock[x] = 0} : C # {}}

FirstPhase(C) == IF C \intersect StageNotes = {} THEN "ready_to_migrate" ELSE "waiting_denom_confirmations"

StartPass(r, made, then) == [Idle EXCEPT !.st = "snapshot", !.run = r, !.made = made, !.then = then]

SetRun(r, phase, C, dup) == run' = [run EXCEPT ![r] = [phase |-> phase, cands |-> C, dup |-> dup]]

-----------------------------------------------------------------------------
\* create_run_with_staged_denominations_and_signed_children up to its reconciliation: the check
\* for an active run and the insertion are two transactions
CheckNoRun ==
  /\ proc["driver"] = Idle /\ Active = {} /\ Fresh # {}
  /\ proc' = [proc EXCEPT !["driver"].st = "insert"]
  /\ UNCHANGED <<run, lock, seen, ready, todo, unsure, left>>

CreateRun(r) ==
  /\ proc["driver"].st = "insert" /\ r \in Fresh
  /\ \E C \in SUBSET {x \in seen : lock[x] \in {0, Other}} \ {{}} :
       /\ SetRun(r, FirstPhase(C), C, FALSE)
       /\ proc' = [proc EXCEPT !["driver"] = StartPass(r, C, "")]
  /\ UNCHANGED <<lock, seen, ready, todo, unsure, left>>

\* faulty variant: the phase is written under a name its readers do not know
FaultyCreateDraft(r) ==
  /\ proc["driver"] = Idle /\ ~Reserved /\ r \in Fresh
  /\ SetRun(r, "awaiting_denomination", {}, FALSE)
  /\ UNCHANGED <<lock, seen, ready, proc, todo, unsure, left>>

\* create_or_resume_private_migration_draft; to resume one changes nothing
CreateDraft(r) ==
  /\ proc["driver"] = Idle /\ ~Reserved /\ r \in Fresh
  /\ SetRun(r, "awaiting_preparation", {}, FALSE)
  /\ UNCHANGED <<lock, seen, ready, proc, todo, unsure, left>>

\* finalize_private_migration_draft
FinalizeDraft(r) ==
  /\ proc["driver"] = Idle /\ r \in Active /\ run[r].phase \in Draft
  /\ \E C \in Choices : SetRun(r, FirstPhase(C), C, FALSE)
  /\ proc' = [proc EXCEPT !["driver"] = StartPass(r, {}, "")]
  /\ UNCHANGED <<lock, seen, ready, todo, unsure, left>>

\* retire_run_for_rebuild
Retire(r) ==
  /\ proc["driver"] = Idle /\ r \in Active
  /\ SetRun(r, "failed_terminal", run[r].cands, FALSE)
  /\ proc' = [proc EXCEPT !["driver"] = StartPass(r, {}, "")]
  /\ UNCHANGED <<lock, seen, ready, todo, unsure, left>>

\* abandon_run, also when it is called again for an abandoned run
Abandon(r) ==
  /\ proc["driver"] = Idle
  /\ r \in Active \/ (run[r].phase = "abandoned" /\ r \in unsure)
  /\ SetRun(r, "abandoned", run[r].cands, FALSE)
  /\ proc' = [proc EXCEPT !["driver"] = StartPass(r, {}, "discard")]
  /\ UNCHANGED <<lock, seen, ready, todo, unsure, left>>

\* delete_account_migration_rows_with_tx, together with the account's notes
DeleteAccount ==
  /\ MayDelete /\ proc["driver"] = Idle /\ \E r \in RunIds : Exists(r)
  /\ run' = [r \in RunIds |-> IF Exists(r) THEN Gone ELSE run[r]]
  /\ lock' = [x \in Notes |-> 0] /\ seen' = {} /\ unsure' = {}
  /\ UNCHANGED <<ready, proc, todo, left>>

\* recover_latest_idempotent_broadcast_failure
Recover(rs) ==
  [r \in RunIds |-> IF r \in DupFailure THEN [rs[r] EXCEPT !.phase = "ready_to_migrate", !.dup = FALSE]
                    ELSE rs[r]]

\* reconcile_wallet_locks_after_sync: the scan may have found notes, or the confirmations that
\* complete the active run; then every run is reconciled in turn
SyncPass ==
  /\ proc["sync"] = Idle /\ todo = {}
  /\ \E done \in SUBSET {r \in Active : run[r].phase = "ready_to_migrate"}, S \in SUBSET Notes :
       /\ run' = [r \in RunIds |-> IF r \in done THEN [run[r] EXCEPT !.phase = "complete"]
                                   ELSE Recover(run)[r]]
       /\ S \in {seen, Notes, Notes \ StageNotes} /\ (seen = {} => S = {}) /\ seen' = S
  /\ todo' = {r \in RunIds : Exists(r)} /\ ready' = TRUE
  /\ UNCHANGED <<lock, proc, unsure, left>>

SyncTake(r) ==
  /\ proc["sync"] = Idle /\ r \in todo /\ \A q \in todo : r <= q
  /\ proc' = [proc EXCEPT !["sync"] = StartPass(r, {}, "")] /\ todo' = todo \ {r}
  /\ UNCHANGED <<run, lock, seen, ready, unsure, left>>

-----------------------------------------------------------------------------
\* what follows a reconciliation that succeeded, and one that failed
Succeed(p) ==
  proc' = [proc EXCEPT ![p] = IF proc[p].then = "" THEN Idle ELSE [proc[p] EXCEPT !.st = proc[p].then]]

Fail(p) ==
  /\ unsure' = unsure \union {proc[p].run} \union (IF p = "sync" THEN todo ELSE {})
  /\ proc' = [proc EXCEPT ![p] = IF proc[p].made = {} THEN Idle ELSE [proc[p] EXCEPT !.st = "undo"]]
  /\ todo' = IF p = "sync" THEN {} ELSE todo

\* wallet_lock_reconciliation_snapshot: the phase and the candidates of the row
Snapshot(p) ==
  LET r == proc[p].run IN
  /\ proc[p].st = "snapshot"
  /\ IF Exists(r) THEN proc' = [proc EXCEPT ![p] = [@ EXCEPT !.st = "apply", !.cands = run[r].cands,
                                              !.release = Releases(run[r].phase), !.n = proc[p].n + 1]]
                  ELSE Succeed(p)
  /\ UNCHANGED <<run, lock, seen, ready, todo, unsure, left>>

\* unlock_orchard_migration_outputs
Unlock(r, C) == [x \in Notes |-> IF x \in C /\ lock[x] = r THEN 0 ELSE lock[x]]

\* an old snapshot does not settle a run that has got its candidates since
Settled(p) == {r \in {proc[p].run} : proc[p].cands = run[r].cands}

ApplyRelease(p) ==
  /\ proc[p].st = "apply" /\ proc[p].release
  /\ lock' = Unlock(proc[p].run, proc[p].cands)
  /\ proc' = [proc EXCEPT ![p].st = "recheck"] /\ unsure' = unsure \ Settled(p)
  /\ UNCHANGED <<run, seen, ready, todo, left>>

\* ensure_orchard_migration_locks: what the wallet can see of the candidates, all or nothing;
\* without a target height it is left to the next sync
ApplyEnsure(p) ==
  LET r == proc[p].run
      O == proc[p].cands \intersect seen
  IN /\ proc[p].st = "apply" /\ ~proc[p].release
     /\ IF ~ready /\ proc[p].cands # {}
        THEN /\ proc' = [proc EXCEPT ![p].st = "recheck"] /\ unsure' = unsure \union {r}
             /\ UNCHANGED <<lock, todo>>
        ELSE IF \E x \in O : lock[x] \notin {0, r} THEN Fail(p) /\ UNCHANGED lock
        ELSE /\ lock' = [x \in Notes |-> IF x \in O THEN r ELSE lock[x]]
             /\ proc' = [proc EXCEPT ![p].st = "recheck"] /\ unsure' = unsure \ Settled(p)
             /\ UNCHANGED todo
     /\ UNCHANGED <<run, seen, ready, left>>

\* faulty variant: the row is not read again
FaultyRecheck(p) ==
  /\ proc[p].st = "recheck" /\ Succeed(p)
  /\ UNCHANGED <<run, lock, seen, ready, todo, unsure, left>>

\* the second snapshot: done when the phase still says what was applied, undone when the row is
\* gone, otherwise once more
Recheck(p) ==
  LET r == proc[p].run IN
  /\ proc[p].st = "recheck"
  /\ IF ~Exists(r) THEN lock' = Unlock(r, proc[p].cands) /\ Succeed(p) /\ UNCHANGED <<todo, unsure>>
     ELSE IF Releases(run[r].phase) = proc[p].release THEN Succeed(p) /\ UNCHANGED <<lock, todo, unsure>>
     ELSE IF proc[p].n < MaxPasses
     THEN proc' = [proc EXCEPT ![p].st = "snapshot"] /\ UNCHANGED <<lock, todo, unsure>>
     ELSE Fail(p) /\ UNCHANGED lock
  /\ UNCHANGED <<run, seen, ready, left>>

\* a database call of the loop fails
Fault(p) ==
  /\ proc[p].st \in {"snapshot", "apply", "recheck"} /\ left.fault > 0 /\ Fail(p)
  /\ left' = [left EXCEPT !.fault = @ - 1]
  /\ UNCHANGED <<run, lock, seen, ready>>

\* cleanup_failed_created_run: first the locks, then the row; if the unlock fails the row stays
Undo ==
  /\ proc["driver"].st = "undo"
  /\ \/ /\ lock' = Unlock(proc["driver"].run, proc["driver"].made)
        /\ proc' = [proc EXCEPT !["driver"].st = "delete"] /\ UNCHANGED left
        /\ unsure' = unsure \union {proc["driver"].run}
     \/ /\ left.fault > 0 /\ left' = [left EXCEPT !.fault = @ - 1]
        /\ proc' = [proc EXCEPT !["driver"] = Idle] /\ UNCHANGED <<lock, unsure>>
  /\ UNCHANGED <<run, seen, ready, todo>>

DeleteRun ==
  /\ proc["driver"].st = "delete" /\ proc' = [proc EXCEPT !["driver"] = Idle]
  /\ \/ /\ run' = [run EXCEPT ![proc["driver"].run] = Gone]
        /\ unsure' = unsure \ {proc["driver"].run} /\ UNCHANGED left
     \/ left.fault > 0 /\ left' = [left EXCEPT !.fault = @ - 1] /\ UNCHANGED <<run, unsure>>
  /\ UNCHANGED <<lock, seen, ready, todo>>

\* discard_unsubmitted_preparation_stages: the stage inputs leave the candidates
DiscardStages ==
  LET r == proc["driver"].run IN
  /\ proc["driver"].st = "discard" /\ proc' = [proc EXCEPT !["driver"] = Idle]
  /\ run' = [run EXCEPT ![r].cands = @ \ StageNotes]
  /\ UNCHANGED <<lock, seen, ready, todo, unsure, left>>

\* an ordinary send, which checks Reserved and locks under the same write lock
SendLock(x) ==
  /\ x \in seen /\ lock[x] = 0 /\ ~Reserved /\ lock' = [lock EXCEPT ![x] = Other]
  /\ UNCHANGED <<run, seen, ready, proc, todo, unsure, left>>

SendUnlock(x) ==
  /\ lock[x] = Other /\ lock' = [lock EXCEPT ![x] = 0]
  /\ UNCHANGED <<run, seen, ready, proc, todo, unsure, left>>

Crash ==
  /\ left.crash > 0 /\ \E p \in Procs : proc[p] # Idle
  /\ left' = [left EXCEPT !.crash = @ - 1]
  /\ unsure' = unsure \union {proc[p].run : p \in {q \in Procs : proc[q] # Idle}} \union todo
  /\ proc' = [p \in Procs |-> Idle] /\ todo' = {} /\ ready' \in BOOLEAN
  /\ UNCHANGED <<run, lock, seen>>

Next ==
  \/ \E r \in RunIds : CreateRun(r) \/ CreateDraft(r) \/ FinalizeDraft(r) \/ Retire(r) \/ Abandon(r) \/ SyncTake(r)
  \/ \E p \in Procs : Snapshot(p) \/ ApplyRelease(p) \/ ApplyEnsure(p) \/ Recheck(p) \/ Fault(p)
  \/ CheckNoRun \/ Undo \/ DeleteRun \/ DiscardStages \/ DeleteAccount \/ SyncPass \/ Crash
  \/ \E x \in Notes : SendLock(x) \/ SendUnlock(x)

Spec == Init /\ [][Next]_vars

-----------------------------------------------------------------------------
TypeOK ==
  /\ \A r \in RunIds : run[r].phase \in Phases /\ run[r].cands \subseteq Notes
  /\ lock \in [Notes -> {0, Other} \union RunIds] /\ seen \subseteq Notes
  /\ \A p \in Procs : proc[p].run \in RunIds \union {0} /\ proc[p].n \in 0..MaxPasses
  /\ todo \subseteq RunIds /\ unsure \subseteq RunIds \union {0}

Busy(r) == r \in todo \union unsure \/ \E p \in Procs : proc[p].run = r

\* Once nobody is reconciling a run any more, and unless the last attempt failed, its locks say
\* what its row says: nothing is locked for a run that is over, and every visible note of a
\* live one is locked for it, however the driver and the pass after a sync crossed each other.
LocksFollowRow ==
  \A r \in RunIds : Exists(r) /\ ~Busy(r) =>
    IF Releases(run[r].phase) THEN \A x \in Notes : lock[x] # r
    ELSE \A x \in run[r].cands \intersect seen : lock[x] = r

\* No lock outlives the row that names its owner: such a lock never expires and nothing in the
\* wallet can find or release it any more.
NoOrphanLocks == \A x \in Notes : lock[x] \in RunIds => Exists(lock[x]) \/ Busy(lock[x])

\* A live run, and a failed one that the next sync will bring back, never lose a note to an
\* ordinary send, except in the moment in which the run is being created.  (A run created on
\* top of the failed one and undone hides it for that moment.)
SendsKeepOff ==
  \A r \in Active \union {d \in DupFailure : \A q \in RunIds : q > d => run[q].phase = "none"} :
    ~Busy(r) => \A x \in run[r].cands : lock[x] # Other

\* The locks and the rows agree, and sends stay off what is reserved, whoever crosses whom.
LocksAreRight == LocksFollowRow /\ SendsKeepOff
=============================================================================
