--------------------------- MODULE KeystoneRequests ---------------------------
(***************************************************************************)
(* The requests a hardware wallet is asked to sign for a migration         *)
(* (send/ironwood_migration.rs and keystone_requests.rs).  A request lives *)
(* in one of four process-wide maps: denomination splits, splits and       *)
(* children in one QR session, a batch of children, or one immediate       *)
(* transaction.  Proofs are made by a worker thread while the user carries *)
(* QR codes about; answers, rejections, the pass after a sync and the      *)
(* removal of the account arrive in any order.  Operations of one account  *)
(* exclude each other (ActiveIronwoodMigration); rejections, proof workers *)
(* and syncs are not bound by that.  An immediate request also owns wallet *)
(* locks with a durable row (proposal_locks) for a restart.                *)
(***************************************************************************)
EXTENDS Naturals, FiniteSets

CONSTANTS MaxReq,    \* bound: requests in one behaviour
          MaxRuns,   \* bound: migration runs
          Parts,     \* children of a run
          BatchMax,  \* children signed in one session (MIGRATION_KEYSTONE_BATCH_MAX_PARTS)
          Kinds,     \* the kinds of request considered
          Crashes,   \* bound: crashes
          Faults     \* bound: failing database calls

VARIABLES req,     \* the four maps: a record per request id, or Absent
          worker,  \* per id: proofs its worker has still to write, or Off
          op,      \* the operation that holds the account's guard
          run,     \* the account's newest run: [id, phase, signed, stale]
          applied, \* what completed requests did: one record each
          lock,    \* per id, wallet locks of an immediate request: [held, row, retain]
          net,     \* per id, the immediate transaction: what the network may have
          made,    \* requests made so far
          left     \* remaining crashes and faults

vars == <<req, worker, op, run, applied, lock, net, made, left>>

Ids == 1..MaxReq
Off == Parts + 1
Absent == [kind |-> "none", run |-> 0, parts |-> {}, resign |-> FALSE, need |-> 0, done |-> 0, state |-> "Absent"]
Idle == [st |-> "idle", id |-> 0, kind |-> "", run |-> 0, parts |-> {}, resign |-> FALSE, copy |-> Absent]
Free == [held |-> FALSE, row |-> FALSE, retain |-> FALSE]
NoRun == [id |-> 0, phase |-> "none", signed |-> 0, stale |-> {}]

Present(i) == req[i] # Absent
Live(kind) == {i \in Ids : req[i].kind = kind}

\* active_migration_run
ActiveRun == run.phase \notin {"none", "over"}

Init ==
  /\ req = [i \in Ids |-> Absent] /\ worker = [i \in Ids |-> Off] /\ op = Idle /\ run = NoRun
  /\ applied = {} /\ lock = [i \in Ids |-> Free] /\ net = [i \in Ids |-> "none"] /\ made = 0
  /\ left = [crash |-> Crashes, fault |-> Faults]

\* prune_failed_denomination_requests
PruneDenominations(r) == [i \in Ids |-> IF r[i].kind = "denom" /\ r[i].state = "ProofFailed" THEN Absent ELSE r[i]]
\* prune_failed_single_qr_migration_requests
PruneSingle(r) == [i \in Ids |-> IF r[i].kind = "single" /\ r[i].state = "ProofFailed" THEN Absent ELSE r[i]]
\* prune_failed_immediate_migration_requests
PruneImmediate(r) == [i \in Ids |-> IF r[i].kind = "immediate" /\ r[i].state = "ProofFailed" THEN Absent ELSE r[i]]
\* prune_failed_migration_requests
PruneBatch(r, g) ==
  [i \in Ids |-> IF r[i].kind = "batch" /\ r[i].run = g /\ r[i].state = "ProofFailed" THEN Absent ELSE r[i]]

\* ensure_no_live_denomination_request, after the pruning
NoLiveDenomination(r) == \A i \in Ids : r[i].kind # "denom"
\* ensure_no_live_single_qr_migration_request
NoLiveSingle(r) == \A i \in Ids : r[i].kind # "single"
\* ensure_no_live_immediate_migration_request
NoLiveImmediate(r) == \A i \in Ids : r[i].kind # "immediate"
\* ensure_no_live_migration_request
NoLiveBatch(r, g) == \A i \in Ids : ~(r[i].kind = "batch" /\ r[i].run = g)

\* Locks of requests that leave the map go with them (Drop of ImmediateMigrationInputLock): both
\* the locks and their row, unless a broadcast was started
Dropped(gone) == [i \in Ids |-> IF i \in gone /\ ~lock[i].retain THEN Free ELSE lock[i]]
Removed(r) == {i \in Ids : Present(i) /\ r[i] = Absent}

\* faulty variant: the first part of a session is the last one of the session before
FaultySigningParts ==
  IF run.stale # {} THEN {p \in run.stale : Cardinality({q \in run.stale : q < p}) < BatchMax}
  ELSE {p \in 1..Parts : p >= run.signed /\ p < run.signed + BatchMax}

\* select_migration_batch_signing_part_indices
SigningParts ==
  IF run.stale # {} THEN {p \in run.stale : Cardinality({q \in run.stale : q < p}) < BatchMax}
  ELSE {p \in 1..Parts : p > run.signed /\ p <= run.signed + BatchMax}

\* signed_migration_messages_by_id and the checks of the answer's size and of the state
Answerable(i) == req[i].state = "ProofReady" /\ req[i].done = req[i].need

\* keystone_migration_proof_status, which the signing screen polls
ProofStatus(i) == [ready |-> req[i].done, total |-> req[i].need,
                   isReady |-> req[i].state = "ProofReady", isFailed |-> req[i].state = "ProofFailed"]

-----------------------------------------------------------------------------
\* faulty variant: a request for one QR session does not block one for the splits alone
FaultyStartDenominations ==
  /\ "denom" \in Kinds /\ op = Idle /\ made < MaxReq /\ run.phase \in {"none", "over", "draft"}
  /\ LET r == PruneDenominations(req)
     IN  /\ NoLiveDenomination(r)
         /\ req' = r
  /\ op' = [Idle EXCEPT !.st = "build", !.kind = "denom", !.run = IF ActiveRun THEN run.id ELSE 0]
  /\ UNCHANGED <<worker, run, applied, lock, net, made, left>>

\* prepare_orchard_migration_denominations_pczt up to the building of the transactions
StartDenominations ==
  /\ "denom" \in Kinds /\ op = Idle /\ made < MaxReq /\ run.phase \in {"none", "over", "draft"}
  /\ LET r == PruneDenominations(PruneSingle(req))
     IN  /\ NoLiveSingle(r) /\ NoLiveDenomination(r)
         /\ req' = r
  /\ op' = [Idle EXCEPT !.st = "build", !.kind = "denom", !.run = IF ActiveRun THEN run.id ELSE 0]
  /\ UNCHANGED <<worker, run, applied, lock, net, made, left>>

\* prepare_orchard_migration_single_qr_pczt up to the building of the transactions
StartSingle ==
  /\ "single" \in Kinds /\ op = Idle /\ made < MaxReq /\ ~ActiveRun
  /\ LET r == PruneSingle(PruneDenominations(req))
     IN  /\ NoLiveDenomination(r) /\ NoLiveSingle(r)
         /\ req' = r
  /\ op' = [Idle EXCEPT !.st = "build", !.kind = "single"]
  /\ UNCHANGED <<worker, run, applied, lock, net, made, left>>

\* prepare_orchard_migration_batch_pczt: expired parts are signed again before new ones
StartBatch ==
  /\ "batch" \in Kinds /\ op = Idle /\ made < MaxReq /\ run.phase = "ready" /\ SigningParts # {}
  /\ LET r == PruneBatch(req, run.id)
     IN  /\ NoLiveBatch(r, run.id)
         /\ req' = r
  /\ op' = [Idle EXCEPT !.st = "build", !.kind = "batch", !.run = run.id,
                        !.parts = SigningParts, !.resign = run.stale # {}]
  /\ UNCHANGED <<worker, run, applied, lock, net, made, left>>

\* the same operation when the parts no longer follow the timing policy: the run is retired
RetireForRebuild ==
  /\ "batch" \in Kinds /\ op = Idle /\ run.phase = "ready"
  /\ run' = [run EXCEPT !.phase = "over"]
  /\ UNCHANGED <<req, worker, op, applied, lock, net, made, left>>

\* prepare_orchard_migration_immediate_pczt up to the building of the transaction
StartImmediate ==
  /\ "immediate" \in Kinds /\ op = Idle /\ made < MaxReq /\ ~ActiveRun
  /\ LET r == PruneImmediate(req)
     IN  /\ NoLiveImmediate(r)
         /\ req' = r /\ lock' = Dropped(Removed(r))
  /\ op' = [Idle EXCEPT !.st = "row", !.kind = "immediate", !.id = made + 1]
  /\ made' = made + 1
  /\ UNCHANGED <<worker, run, applied, net, left>>

\* migrate_orchard_to_ironwood_immediately: the same transaction signed with the wallet's own key
StartSoftware ==
  /\ "immediate" \in Kinds /\ op = Idle /\ made < MaxReq /\ ~ActiveRun
  /\ op' = [Idle EXCEPT !.st = "row", !.kind = "software", !.id = made + 1]
  /\ made' = made + 1
  /\ UNCHANGED <<req, worker, run, applied, lock, net, left>>

\* ... it is signed and proved at once; a failure drops the lock
SignInWallet ==
  /\ op.st = "insert" /\ op.kind = "software"
  /\ \/ op' = [op EXCEPT !.st = "connect"] /\ UNCHANGED lock
     \/ op' = Idle /\ lock' = Dropped({op.id})
  /\ UNCHANGED <<req, worker, run, applied, net, made, left>>

\* build_orchard_migration_immediate_pczt: first the durable row, then the wallet locks
PersistRow ==
  /\ op.st = "row"
  /\ lock' = [lock EXCEPT ![op.id].row = TRUE] /\ op' = [op EXCEPT !.st = "lock"]
  /\ UNCHANGED <<req, worker, run, applied, net, made, left>>

\* faulty variant: the locks are taken and no row says whose they are
FaultyLockInputs ==
  /\ op.st = "lock"
  /\ lock' = [lock EXCEPT ![op.id] = [Free EXCEPT !.held = TRUE]] /\ op' = [op EXCEPT !.st = "insert"]
  /\ UNCHANGED <<req, worker, run, applied, net, made, left>>

LockInputs ==
  /\ op.st = "lock"
  /\ lock' = [lock EXCEPT ![op.id].held = TRUE] /\ op' = [op EXCEPT !.st = "insert"]
  /\ UNCHANGED <<req, worker, run, applied, net, made, left>>

\* a build that fails: not enough funds, a plan that changed, a witness that is missing; the
\* row of locks that could not be taken is removed again
BuildFails ==
  /\ op.st \in {"build", "row", "lock"}
  /\ lock' = IF op.id = 0 THEN lock ELSE [lock EXCEPT ![op.id] = Free]
  /\ op' = Idle
  /\ UNCHANGED <<req, worker, run, applied, net, made, left>>

NewRequest(kind, g, parts, resign, need) ==
  [kind |-> kind, run |-> g, parts |-> parts, resign |-> resign, need |-> need, done |-> 0,
   state |-> IF need = 0 THEN "ProofReady" ELSE "Proofing"]

\* the insertion that ends the preparation of splits; without splits nothing has to be proved
InsertSplits ==
  /\ op.st = "build" /\ op.kind \in {"denom", "single"}
  /\ \E need \in 0..1 :
       /\ req' = [req EXCEPT ![made + 1] = NewRequest(op.kind, op.run, {}, FALSE, need)]
       /\ worker' = [worker EXCEPT ![made + 1] = IF need = 0 THEN Off ELSE need]
  /\ made' = made + 1 /\ op' = Idle
  /\ UNCHANGED <<run, applied, lock, net, left>>

\* faulty variant: the worker is given one message too many
FaultyInsertBatch ==
  /\ op.st = "build" /\ op.kind = "batch"
  /\ LET need == IF op.resign THEN Cardinality(op.parts) ELSE 0
     IN  /\ req' = [req EXCEPT ![made + 1] = NewRequest("batch", op.run, op.parts, op.resign, need)]
         /\ worker' = [worker EXCEPT ![made + 1] = IF need = 0 THEN Off ELSE need + 1]
  /\ made' = made + 1 /\ op' = Idle
  /\ UNCHANGED <<run, applied, lock, net, left>>

\* the insertion of a batch: children that are signed for the first time are proved later
InsertBatch ==
  /\ op.st = "build" /\ op.kind = "batch"
  /\ LET need == IF op.resign THEN Cardinality(op.parts) ELSE 0
     IN  /\ req' = [req EXCEPT ![made + 1] = NewRequest("batch", op.run, op.parts, op.resign, need)]
         /\ worker' = [worker EXCEPT ![made + 1] = IF need = 0 THEN Off ELSE need]
  /\ made' = made + 1 /\ op' = Idle
  /\ UNCHANGED <<run, applied, lock, net, left>>

\* the insertion of an immediate request; its lock moves into the map
InsertImmediate ==
  /\ op.st = "insert" /\ op.kind = "immediate"
  /\ LET r == PruneImmediate(req)
     IN  IF NoLiveImmediate(r)
         THEN /\ req' = [r EXCEPT ![op.id] = NewRequest("immediate", 0, {}, FALSE, 1)]
              /\ worker' = [worker EXCEPT ![op.id] = 1] /\ lock' = Dropped(Removed(r))
         ELSE /\ req' = r /\ lock' = Dropped(Removed(r) \union {op.id}) /\ UNCHANGED worker
  /\ op' = Idle
  /\ UNCHANGED <<run, applied, net, made, left>>

-----------------------------------------------------------------------------
\* faulty variant: the first proof makes the request ready
FaultyProved(i) ==
  LET n == worker[i] - 1
  IN  IF ~Present(i) \/ req[i].state = "Completing"
      THEN worker' = [worker EXCEPT ![i] = Off] /\ UNCHANGED req
      ELSE /\ worker' = [worker EXCEPT ![i] = IF n = 0 THEN Off ELSE n]
           /\ req' = [req EXCEPT ![i].done = @ + 1, ![i].state = "ProofReady"]

\* the proof workers: each proof is written only to a request that still exists and is not
\* being completed; the last one makes the request ready
Proved(i) ==
  LET n == worker[i] - 1
  IN  IF ~Present(i) \/ req[i].state = "Completing"
      THEN worker' = [worker EXCEPT ![i] = Off] /\ UNCHANGED req
      ELSE /\ worker' = [worker EXCEPT ![i] = IF n = 0 THEN Off ELSE n]
           /\ req' = [req EXCEPT ![i].done = @ + 1,
                                 ![i].state = IF n = 0 THEN "ProofReady" ELSE @]

\* faulty variant: a proof that fails is only logged
FaultyNotProved(i) == worker' = [worker EXCEPT ![i] = Off] /\ UNCHANGED req

\* a proof fails, or the worker could not be started
NotProved(i) ==
  /\ worker' = [worker EXCEPT ![i] = Off]
  /\ req' = IF Present(i) /\ req[i].state # "Completing" THEN [req EXCEPT ![i].state = "ProofFailed"] ELSE req

WorkerStep(i, kind) ==
  /\ worker[i] # Off /\ (Present(i) => req[i].kind = kind)
  /\ Proved(i) \/ NotProved(i)
  /\ UNCHANGED <<op, run, applied, lock, net, made, left>>

\* spawn_denomination_proof_worker
DenominationWorker(i) == WorkerStep(i, "denom")
\* spawn_single_qr_split_proof_worker
SingleWorker(i) == WorkerStep(i, "single")
\* spawn_migration_proof_worker
BatchWorker(i) == WorkerStep(i, "batch")
\* spawn_immediate_migration_proof_worker
ImmediateWorker(i) == WorkerStep(i, "immediate")

-----------------------------------------------------------------------------
SetState(i, s) == req' = [req EXCEPT ![i].state = s]

\* a completion goes on with a copy of the request, whatever happens to the map
Completing(i, st) == [Idle EXCEPT !.st = st, !.id = i, !.kind = req[i].kind, !.copy = req[i]]

\* complete_orchard_migration_denominations_pczt takes the request
AcceptDenominations(i) ==
  /\ op = Idle /\ req[i].kind = "denom" /\ Answerable(i)
  /\ SetState(i, "Completing") /\ op' = Completing(i, "finalize")
  /\ UNCHANGED <<worker, run, applied, lock, net, made, left>>

\* complete_orchard_migration_single_qr_pczt takes the request
AcceptSingle(i) ==
  /\ op = Idle /\ ~ActiveRun /\ req[i].kind = "single" /\ Answerable(i)
  /\ SetState(i, "Completing") /\ op' = Completing(i, "finalize")
  /\ UNCHANGED <<worker, run, applied, lock, net, made, left>>

\* complete_orchard_migration_batch_pczt takes the request
AcceptBatch(i) ==
  /\ op = Idle /\ req[i].kind = "batch" /\ Answerable(i)
  /\ SetState(i, "Completing") /\ op' = Completing(i, "read run")
  /\ UNCHANGED <<worker, run, applied, lock, net, made, left>>

\* reset_migration_request_after_failed_completion and its siblings
Reset(r, i) == IF r[i].state = "Completing" THEN [r EXCEPT ![i].state = "ProofReady"] ELSE r

\* ... then compares the run and its notes with those the request was built for; where there is
\* no active run, or it cannot be read, it returns without a reset
ReadRun ==
  /\ op.st = "read run"
  /\ \/ /\ ActiveRun /\ run.id = op.copy.run
        /\ op' = [op EXCEPT !.st = "finalize"] /\ UNCHANGED <<req, left>>
     \/ /\ ActiveRun /\ run.id # op.copy.run
        /\ req' = Reset(req, op.id) /\ op' = Idle /\ UNCHANGED left
     \/ /\ ~ActiveRun /\ op' = Idle /\ UNCHANGED <<req, left>>
     \/ /\ left.fault > 0 /\ left' = [left EXCEPT !.fault = @ - 1] /\ op' = Idle /\ UNCHANGED req
  /\ UNCHANGED <<worker, run, applied, lock, net, made>>

\* a completion that fails: a message is missing from the answer, a signature does not verify,
\* the database refuses; the request can be tried again
FinalizeFails ==
  /\ op.st = "finalize"
  /\ req' = Reset(req, op.id) /\ op' = Idle
  /\ UNCHANGED <<worker, run, applied, lock, net, made, left>>

Apply(r2) ==
  /\ run' = r2
  /\ applied' = applied \union {[id |-> op.id, n |-> Cardinality({a \in applied : a.id = op.id}), kind |-> op.kind,
                                 built |-> op.copy.run, into |-> r2.id, before |-> run,
                                 parts |-> op.copy.parts, resign |-> op.copy.resign,
                                 proved |-> op.copy.done = op.copy.need]}
  /\ op' = [op EXCEPT !.st = "remove"]
  /\ UNCHANGED <<req, worker, lock, net, made, left>>

SplitPhase == IF op.copy.need = 0 THEN "ready" ELSE "waiting"

\* finalize_private_migration_draft, or create_run_with_staged_denominations_and_signed_children:
\* a draft becomes the run, and without one there must be no active run
ApplyDenominations ==
  /\ op.st = "finalize" /\ op.kind = "denom"
  /\ LET g == op.copy.run
     IN  IF g # 0
         THEN run.id = g /\ run.phase = "draft" /\ Apply([run EXCEPT !.phase = SplitPhase])
         ELSE ~ActiveRun /\ run.id < MaxRuns
              /\ Apply([id |-> run.id + 1, phase |-> SplitPhase, signed |-> 0, stale |-> {}])

ApplySingle ==
  /\ op.st = "finalize" /\ op.kind = "single" /\ ~ActiveRun /\ run.id < MaxRuns
  /\ Apply([id |-> run.id + 1, phase |-> SplitPhase, signed |-> Parts, stale |-> {}])

\* persist_signed_child_pczts_for_run for first signatures, whose run must be ready;
\* replace_resigned_pending_parts for expired parts, which must all be waiting for it
ApplyBatch ==
  /\ op.st = "finalize" /\ op.kind = "batch"
  /\ IF op.copy.resign
     THEN /\ op.copy.parts \subseteq run.stale
          /\ Apply([run EXCEPT !.stale = @ \ op.copy.parts])
     ELSE /\ run.phase = "ready"
          /\ Apply([run EXCEPT !.signed = @ + Cardinality(op.copy.parts)])

RemoveCompleted ==
  /\ op.st = "remove"
  /\ req' = [req EXCEPT ![op.id] = Absent] /\ op' = Idle
  /\ UNCHANGED <<worker, run, applied, lock, net, made, left>>

-----------------------------------------------------------------------------
\* complete_orchard_migration_immediate_pczt takes the request out of the map
AcceptImmediate(i) ==
  /\ op = Idle /\ req[i].kind = "immediate" /\ Answerable(i)
  /\ req' = [req EXCEPT ![i] = Absent] /\ op' = [Idle EXCEPT !.st = "extract", !.id = i, !.kind = "immediate"]
  /\ UNCHANGED <<worker, run, applied, lock, net, made, left>>

Taken == [NewRequest("immediate", 0, {}, FALSE, 1) EXCEPT !.done = 1, !.state = "ProofReady"]

\* signatures that do not fit or a server that does not answer put it back
PutBack ==
  /\ op.st \in {"extract", "connect"} /\ op.kind = "immediate"
  /\ req' = [req EXCEPT ![op.id] = Taken] /\ op' = Idle
  /\ UNCHANGED <<worker, run, applied, lock, net, made, left>>

Extracted ==
  /\ op.st = "extract" /\ op' = [op EXCEPT !.st = "connect"]
  /\ UNCHANGED <<req, worker, run, applied, lock, net, made, left>>

\* faulty variant: the transaction is sent before the row says so
FaultyMarkStarted ==
  /\ op.st = "connect" /\ op' = [op EXCEPT !.st = "send"]
  /\ UNCHANGED <<req, worker, run, applied, lock, net, made, left>>

\* mark_broadcast_started; when it cannot be written the locks are released and nothing is sent
MarkStarted ==
  /\ op.st = "connect"
  /\ \/ /\ lock' = [lock EXCEPT ![op.id].retain = TRUE] /\ op' = [op EXCEPT !.st = "send"] /\ UNCHANGED left
     \/ /\ left.fault > 0 /\ left' = [left EXCEPT !.fault = @ - 1]
        /\ lock' = Dropped({op.id}) /\ op' = Idle
  /\ UNCHANGED <<req, worker, run, applied, net, made>>

\* SendTransaction leaves; the answer is accepted, refused or lost
SendImmediate ==
  /\ op.st = "send"
  /\ \E o \in {"accepted", "refused", "lost"} :
       /\ op' = [op EXCEPT !.st = o]
       /\ net' = [net EXCEPT ![op.id] = IF o = "refused" THEN "refused" ELSE "maybe"]
  /\ UNCHANGED <<req, worker, run, applied, lock, made, left>>

\* release: locks, then the row; a failure is tried again when the lock is dropped
Release ==
  \/ lock' = [lock EXCEPT ![op.id] = Free] /\ UNCHANGED left
  \/ left.fault > 0 /\ left' = [left EXCEPT !.fault = @ - 1] /\ lock' \in {[lock EXCEPT ![op.id] = Free], lock}

AfterRefusal ==
  /\ op.st = "refused" /\ Release /\ op' = Idle
  /\ UNCHANGED <<req, worker, run, applied, net, made>>

\* decrypt_and_store_migration_tx after an accepted or a lost answer: once the wallet has the
\* transaction its inputs need no lock; otherwise the lock stays until the expiry
AfterSend ==
  /\ op.st \in {"accepted", "lost"}
  /\ \/ net' = [net EXCEPT ![op.id] = "stored"] /\ Release
     \/ left.fault > 0 /\ left' = [left EXCEPT !.fault = @ - 1] /\ UNCHANGED <<net, lock>>
  /\ op' = Idle
  /\ UNCHANGED <<req, worker, run, applied, made>>

\* the signing task is cancelled while it waits for the server
CancelTask ==
  /\ op.st \in {"connect", "send"}
  /\ lock' = Dropped({op.id})
  /\ net' \in IF op.st = "send" THEN {net, [net EXCEPT ![op.id] = "maybe"]} ELSE {net}
  /\ op' = Idle
  /\ UNCHANGED <<req, worker, run, applied, made, left>>

-----------------------------------------------------------------------------
\* discard_keystone_migration_request: not while the request is being completed
Discard(i) ==
  /\ Present(i) /\ req[i].state # "Completing"
  /\ req' = [req EXCEPT ![i] = Absent] /\ lock' = Dropped({i})
  /\ UNCHANGED <<worker, op, run, applied, net, made, left>>

\* discard_keystone_migration_requests_for_account, discard_all_keystone_migration_requests
DiscardAll ==
  /\ \E i \in Ids : Present(i)
  /\ req' = [i \in Ids |-> Absent] /\ lock' = Dropped({i \in Ids : Present(i)})
  /\ UNCHANGED <<worker, op, run, applied, net, made, left>>

\* create_or_resume_private_migration_draft
CreateDraft ==
  /\ "denom" \in Kinds /\ op = Idle /\ ~ActiveRun /\ run.id < MaxRuns
  /\ run' = [id |-> run.id + 1, phase |-> "draft", signed |-> 0, stale |-> {}]
  /\ UNCHANGED <<req, worker, op, applied, lock, net, made, left>>

\* abandon_orchard_migration: the run is over, then the requests that name it go, also when one
\* of them is being completed (discard_keystone_migration_requests_for_run)
AbandonRun ==
  /\ op = Idle /\ ActiveRun
  /\ run' = [run EXCEPT !.phase = "over"] /\ op' = [Idle EXCEPT !.st = "discard", !.run = run.id]
  /\ UNCHANGED <<req, worker, applied, lock, net, made, left>>

DiscardForRun ==
  /\ op.st = "discard"
  /\ req' = [i \in Ids |-> IF req[i].kind \in {"denom", "batch"} /\ req[i].run = op.run THEN Absent ELSE req[i]]
  /\ op' = Idle
  /\ UNCHANGED <<worker, run, applied, lock, net, made, left>>

\* the pass after a sync, which takes no guard: splits confirm, signed parts expire, a run ends
SyncPass ==
  /\ \/ run.phase = "waiting" /\ run' = [run EXCEPT !.phase = "ready"]
     \/ /\ run.phase = "ready"
        /\ \E p \in 1..run.signed : p \notin run.stale /\ run' = [run EXCEPT !.stale = @ \union {p}]
     \/ run.phase = "ready" /\ run.signed = Parts /\ run.stale = {} /\ run' = [run EXCEPT !.phase = "over"]
  /\ UNCHANGED <<req, worker, op, applied, lock, net, made, left>>

\* the process dies: the maps, the workers and the guard are gone
Crash ==
  /\ left.crash > 0 /\ left' = [left EXCEPT !.crash = @ - 1]
  /\ req' = [i \in Ids |-> Absent] /\ worker' = [i \in Ids |-> Off] /\ op' = Idle
  /\ net' \in IF op.st = "send" THEN {net, [net EXCEPT ![op.id] = "maybe"]} ELSE {net}
  /\ UNCHANGED <<run, applied, lock, made>>

\* recovery at the next start: rows of a dead process without the retain flag are undone
Owned(i) == Present(i) \/ op.id = i
RecoverLocks(i) ==
  /\ lock[i].row /\ ~lock[i].retain /\ ~Owned(i)
  /\ lock' = [lock EXCEPT ![i] = Free]
  /\ UNCHANGED <<req, worker, op, run, applied, net, made, left>>

\* faulty variant: only the lock of a transaction that may be out there lapses
FaultyLapseLock(i) ==
  /\ lock[i].held /\ lock[i].retain /\ op.id # i /\ net[i] = "maybe"
  /\ lock' = [lock EXCEPT ![i] = Free] /\ net' = [net EXCEPT ![i] = "expired"]
  /\ UNCHANGED <<req, worker, op, run, applied, made, left>>

\* the lock lapses at the height at which the transaction expires too
LapseLock(i) ==
  /\ lock[i].held /\ lock[i].retain /\ op.id # i
  /\ lock' = [lock EXCEPT ![i] = Free]
  /\ net' = [net EXCEPT ![i] = IF @ = "maybe" THEN "expired" ELSE @]
  /\ UNCHANGED <<req, worker, op, run, applied, made, left>>

Next ==
  \/ StartDenominations \/ StartSingle \/ StartBatch \/ RetireForRebuild \/ StartImmediate \/ StartSoftware \/ SignInWallet
  \/ PersistRow \/ LockInputs \/ BuildFails \/ InsertSplits \/ InsertBatch \/ InsertImmediate
  \/ ReadRun \/ FinalizeFails \/ ApplyDenominations \/ ApplySingle \/ ApplyBatch \/ RemoveCompleted
  \/ PutBack \/ Extracted \/ MarkStarted \/ SendImmediate \/ AfterRefusal \/ AfterSend \/ CancelTask
  \/ DiscardAll \/ CreateDraft \/ AbandonRun \/ DiscardForRun \/ SyncPass \/ Crash
  \/ \E i \in Ids :
       \/ DenominationWorker(i) \/ SingleWorker(i) \/ BatchWorker(i) \/ ImmediateWorker(i)
       \/ AcceptDenominations(i) \/ AcceptSingle(i) \/ AcceptBatch(i) \/ AcceptImmediate(i)
       \/ Discard(i) \/ RecoverLocks(i) \/ LapseLock(i)

Spec == Init /\ [][Next]_vars

\* Proof workers run on threads of their own; a lapse comes with the chain, recovery with a start
Fairness ==
  /\ \A i \in Ids : WF_vars(DenominationWorker(i) \/ SingleWorker(i) \/ BatchWorker(i) \/ ImmediateWorker(i))
  /\ \A i \in Ids : WF_vars(RecoverLocks(i)) /\ WF_vars(LapseLock(i))
  /\ WF_vars(PersistRow \/ LockInputs \/ InsertImmediate \/ SignInWallet \/ BuildFails)
  /\ WF_vars(Extracted \/ PutBack \/ MarkStarted) /\ WF_vars(SendImmediate)
  /\ WF_vars(AfterRefusal \/ AfterSend)

FairSpec == Spec /\ Fairness

-----------------------------------------------------------------------------
TypeOK ==
  /\ \A i \in Ids : /\ req[i].state \in {"Absent", "Proofing", "ProofReady", "ProofFailed", "Completing"}
                    /\ req[i].done \in 0..req[i].need /\ worker[i] \in 1..Off
                    /\ net[i] \in {"none", "refused", "maybe", "stored", "expired"}
  /\ run.phase \in {"none", "draft", "waiting", "ready", "over"} /\ run.signed \in Nat
  /\ run.stale \subseteq 1..Parts /\ made \in 0..MaxReq

\* Two requests that would each start a migration of the same balance are never open together: a
\* request for the splits and one for splits and children block each other, and one run has one
\* open batch (ensure_no_live_* with the guard, across pruning, rejection and put-backs).
OneOpenRequest ==
  /\ Cardinality(Live("denom") \union Live("single")) <= 1
  /\ Cardinality(Live("immediate")) <= 1
  /\ \A i, j \in Live("batch") : req[i].run = req[j].run => i = j

\* The screen shows a request as ready exactly when its answer would be taken, with every proof
\* counted (keystone_migration_proof_status against the workers and the completions).
StatusIsHonest ==
  \A i \in Ids : Present(i) =>
    LET st == ProofStatus(i) IN (st.isReady <=> Answerable(i)) /\ (st.isReady => st.ready = st.total)

\* An answer takes effect once, on the run its request was built for, with every proof made, and
\* no part is signed by two answers unless it expired in between (complete_orchard_migration_*).
AnswersApplyOnce ==
  /\ \A a \in applied :
       /\ a.n = 0 /\ a.proved
       /\ a.built # 0 => a.into = a.built
       /\ a.kind = "batch" => IF a.resign THEN a.parts \subseteq a.before.stale
                              ELSE \A p \in a.parts : p > a.before.signed
       /\ a.kind \in {"denom", "single"} /\ a.built = 0 => a.before.phase \in {"none", "over"}
  /\ \A a, b \in applied : a # b /\ ~a.resign /\ ~b.resign /\ a.into = b.into => a.parts \intersect b.parts = {}

\* While the network may have an immediate transaction that the wallet has not stored, its inputs
\* stay locked, whatever is rejected, cancelled, removed or restarted (mark_broadcast_started).
LiveInputsLocked == \A i \in Ids : net[i] = "maybe" => lock[i].held \/ op.id = i

\* No lock is left that nobody will release: it belongs to an open request or a running operation,
\* or a durable row lets the next start or the expiry end it (proposal_locks::persist comes first).
LocksHaveAnEnd == \A i \in Ids : lock[i].held => Owned(i) \/ lock[i].row

\* A request that is being completed is some operation's business, so a rejection that leaves
\* it alone is not the user's last word: an abandoned one could never be rejected nor replaced.
CompletingIsBusy == \A i \in Ids : req[i].state = "Completing" => op.id = i

\* Every proof that is started ends: a request does not stay in Proofing.
Proving(i) == req[i].state = "Proofing"
ProvingEnds == \A i \in Ids : Proving(i) ~> ~Proving(i)

\* Once nobody owns an immediate request any more, its inputs become spendable again.
Locked(i) == lock[i].held
InputsComeBack == \A i \in Ids : (Locked(i) /\ ~Owned(i)) ~> ~Locked(i)
=============================================================================
