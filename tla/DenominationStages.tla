------------------------- MODULE DenominationStages -------------------------
(***************************************************************************)
(* The preparation of a run: a graph of signed denomination stages that is *)
(* broadcast, confirmed, and after a reorganisation proved again.          *)
(* advance_staged_denomination_run (status_advance.rs) runs under the      *)
(* ActiveIronwoodMigration guard (drv.pc # idle) and calls                 *)
(* broadcast_pending_denomination_stages and                               *)
(* finalize_ready_denomination_stages of send.rs; the sync engine scans    *)
(* and then reconciles the same rows without the guard                     *)
(* (reconcile_wallet_locks_after_sync).  reconcile_denomination_stage_-    *)
(* chain_state is one read and three transactions, for either of them; the *)
(* process may die between any two.  A stage's transaction id does not     *)
(* depend on its proof, so a stage proved again is the same transaction.   *)
(***************************************************************************)
EXTENDS Integers, FiniteSets, FiniteSetsExt

CONSTANTS N,          \* stages are 1..N in stage_index order
          Parents,    \* the stages whose outputs a stage spends
          Terminals,  \* the stages with migration outputs
          Sched,      \* scheduled_height of each stage
          Expiry,     \* expiry_height of each stage, 0 for none
          Spaced,     \* PreparationTimingPolicy: Zip318Spaced or Immediate
          MaxTip,     \* bound: highest chain tip
          MaxId,      \* bound: blocks that mine a stage, all forks together
          Delays,     \* preparation delays that may be drawn, in blocks
          Reorgs,     \* whether mined stages may leave the chain
          Stops,      \* whether the user may stop the run
          Crashes,    \* whether the process may die
          Overlap     \* whether a scan may land inside a guarded operation

Stages == 1..N

ASSUME StagesAssumption ==
  /\ N \in Nat /\ MaxTip \in Nat /\ MaxId \in Nat /\ Delays \subseteq Nat
  /\ Parents \in [Stages -> SUBSET Stages] /\ Terminals \subseteq Stages
  /\ Sched \in [Stages -> Nat] /\ Expiry \in [Stages -> Nat]

-----------------------------------------------------------------------------
(* The rows of the stages, as the functions of stages.rs,                  *)
(* preparation_policy.rs and migration.rs change them.  d is the run in    *)
(* the database:                                                           *)
(*   stage[s]  [status, raw, proof, att, nb, conf]                         *)
(*   phase     the phase of the run                                        *)
(*   nf        terminal stages whose prepared note has its nullifier       *)
(*   child[s]  0, or the inclusion of s the pending child was proved on    *)
(* and v is the wallet's scanned view: v[s].id is 0, or the identity (the  *)
(* height and block hash) under which the stage's transaction is mined,    *)
(* v[s].deep says whether it has the trusted number of confirmations.      *)

Status == {"awaiting_inputs", "pending", "broadcasted", "confirmed", "deleted"}
Released == {"complete", "failed_terminal", "abandoned"}
NoProof == [s \in Stages |-> 0]

\* insert_stage: a stage that spends another one is signed now and proved later
InsertStage(s) ==
  [status |-> IF Parents[s] = {} THEN "pending" ELSE "awaiting_inputs", raw |-> Parents[s] = {},
   proof |-> NoProof, att |-> 0, nb |-> 0, conf |-> 0]

With(d, st) == {s \in Stages : d.stage[s].status = st}
Unsubmitted(d) == With(d, "awaiting_inputs") \union With(d, "pending")

\* effective_broadcast_height
EffectiveHeight(d, s) == Max({Sched[s], d.stage[s].nb})

\* expired_unbroadcast_denomination_stage_count, expired_broadcasted_...: zero never expires
PastExpiry(s, h) == Expiry[s] > 0 /\ Expiry[s] <= h
ExpiredUnbroadcast(d, h) == {s \in Unsubmitted(d) : PastExpiry(s, h)}
ExpiredBroadcasted(d, h) == {s \in With(d, "broadcasted") : PastExpiry(s, h)}
Expired(d, h) == ExpiredUnbroadcast(d, h) \union ExpiredBroadcasted(d, h)

\* denomination_stage_broadcast_readiness
Ready(d, s, h) == ~PastExpiry(s, h) /\ (~Spaced \/ EffectiveHeight(d, s) <= h)

\* faulty variant: the bytes of the old proof survive the reset
FaultyResetStage(d, s) ==
  [d EXCEPT !.stage[s] = [d.stage[s] EXCEPT !.status = "awaiting_inputs", !.conf = 0]]

\* promote_awaiting_denomination_stage: guarded by the status, an error otherwise
Promotable(d, s) == d.stage[s].status = "awaiting_inputs" /\ ~d.stage[s].raw
PromoteStage(d, s, proof) ==
  [d EXCEPT !.stage[s].status = "pending", !.stage[s].raw = TRUE, !.stage[s].proof = proof]

\* mark_denomination_broadcast_attempted, clear_denomination_broadcast_attempted
MarkAttempted(d, s) == [d EXCEPT !.stage[s].att = 1]
ClearAttempted(d, s) ==
  IF d.stage[s].status = "pending" THEN [d EXCEPT !.stage[s].att = 0] ELSE d

\* transition_stage to broadcasted: idempotent, never backwards, an error when not yet pending
MayBroadcast(d, s) == d.stage[s].status \in {"pending", "broadcasted", "confirmed"}
MarkBroadcasted(d, s) ==
  IF d.stage[s].status = "pending" THEN [d EXCEPT !.stage[s].status = "broadcasted"] ELSE d

\* faulty variant: the status is set without the inclusion
FaultyRecordIdentity(d, s, id) == [d EXCEPT !.stage[s].status = "confirmed"]

\* replace_denomination_stage_confirmation_identity
RecordIdentity(d, s, id) ==
  [d EXCEPT !.stage[s].status = "confirmed", !.stage[s].conf = id]

\* reset_denomination_stage_exact: the base PCZT and its signatures stay, and so does the
\* attempt marker
ResetStage(d, s) ==
  [d EXCEPT !.stage[s] = [d.stage[s] EXCEPT !.status = "awaiting_inputs", !.raw = FALSE,
                                            !.proof = NoProof, !.conf = 0]]

-----------------------------------------------------------------------------
(* reconcile_denomination_stage_chain_state                                *)

Moved(d, v) == {s \in With(d, "confirmed") : d.stage[s].conf # v[s].id}

\* the loop over parent_txids: everything that descends from a moved stage
Affected(d, v) ==
  LET reach[k \in 0..N] ==
        IF k = 0 THEN Moved(d, v)
        ELSE reach[k-1] \union {s \in Stages : Parents[s] \intersect reach[k-1] # {}}
  IN reach[N]

\* faulty variant: a stage mined in another block is not taken for moved
FaultyReadPlan(d, v) ==
  [affected |-> {s \in Affected(d, v) : v[s].id = 0},
   invalid |-> {s \in Affected(d, v) : v[s].id = 0},
   ids |-> [s \in Stages |-> IF d.stage[s].status \notin {"deleted", "confirmed"} THEN v[s].id ELSE 0],
   recovered |-> {s \in With(d, "pending") : v[s].id # 0}]

\* faulty variant: the children of a moved stage are kept
FaultyAffectedPlan(d, v) ==
  [affected |-> {s \in Affected(d, v) : v[s].id = 0},
   invalid |-> {s \in Affected(d, v) : v[s].id = 0},
   ids |-> [s \in Stages |->
              IF d.stage[s].status # "deleted" /\ (d.stage[s].status # "confirmed" \/ s \in Moved(d, v))
              THEN v[s].id ELSE 0],
   recovered |-> {s \in With(d, "pending") : v[s].id # 0}]

\* denomination_stage_chain_records and what the wallet knows of each of them
ReadPlan(d, v) ==
  [affected |-> Affected(d, v),
   invalid |-> {s \in Affected(d, v) : v[s].id = 0},
   ids |-> [s \in Stages |->
              IF d.stage[s].status # "deleted" /\ (d.stage[s].status # "confirmed" \/ s \in Moved(d, v))
              THEN v[s].id ELSE 0],
   recovered |-> {s \in With(d, "pending") : v[s].id # 0}]

NoPlan == [affected |-> {}, invalid |-> {}, ids |-> NoProof, recovered |-> {}]

\* reset_migration_children_for_reorged_denominations: a child that is itself mined stays
ResetChildren(d, mined, A) ==
  LET lost == {s \in A \intersect Terminals : s \notin mined} IN
  IF d.phase \in Released \/ lost = {} THEN d
  ELSE [d EXCEPT !.child = [s \in Terminals |-> IF s \in lost THEN 0 ELSE d.child[s]],
                 !.nf = d.nf \ lost, !.phase = "waiting_denom_confirmations"]

\* faulty variant: the draw replaces the height the stage waits for
FaultyRedraw(d, h, draw) ==
  [d EXCEPT !.stage = [s \in Stages |->
     IF s \in Unsubmitted(d) THEN [d.stage[s] EXCEPT !.nb = h + draw[s]] ELSE d.stage[s]]]

\* rerandomize_remaining_preparation_broadcast_heights: each remaining stage waits for a
\* fresh delay after the one before it, and never for less than it already did; draw[s]
\* is the sum of the delays up to s
Redraw(d, h, draw) ==
  IF ~Spaced THEN d
  ELSE [d EXCEPT !.stage = [s \in Stages |->
     IF s \in Unsubmitted(d)
     THEN [d.stage[s] EXCEPT !.nb = Max({h + draw[s], Sched[s], d.stage[s].nb})]
     ELSE d.stage[s]]]

\* the second transaction: resets, identities, and a redraw when a stage that was still
\* pending turns out to be mined
UpdateStages(d, plan, h, draw) ==
  LET resets == {s \in plan.invalid : d.stage[s].status # "deleted"}
      idents == {s \in Stages \ plan.invalid : plan.ids[s] # 0 /\ d.stage[s].status # "deleted"}
      d1 == [d EXCEPT !.stage = [s \in Stages |->
               CASE s \in resets -> ResetStage(d, s).stage[s]
                 [] s \in idents -> RecordIdentity(d, s, plan.ids[s]).stage[s]
                 [] OTHER -> d.stage[s]]]
  IN IF \E s \in plan.recovered : d.stage[s].status = "pending"
     THEN Redraw(d1, h, draw) ELSE d1

\* the third one
MarkWaiting(d) ==
  IF d.phase \in Released THEN d ELSE [d EXCEPT !.phase = "waiting_denom_confirmations"]

-----------------------------------------------------------------------------
(* reconcile_denomination_confirmations                                    *)

\* faulty variant: a change-only stage need only be mined
FaultyAllTrusted(d, v) ==
  /\ d.phase = "waiting_denom_confirmations" /\ Terminals # {}
  /\ \A s \in Terminals : v[s].deep
  /\ \A s \in Stages : d.stage[s].status # "deleted" => v[s].id # 0

\* confirmed_prepared_denomination_notes and the expected txids of every stage
AllTrusted(d, v) ==
  /\ d.phase = "waiting_denom_confirmations" /\ Terminals # {}
  /\ \A s \in Terminals : v[s].deep
  /\ \A s \in Stages : d.stage[s].status # "deleted" => v[s].deep

\* mark_denomination_stage_confirmed_at refuses an awaiting stage and another inclusion
Blocked(d, v) ==
  {s \in Stages : \/ d.stage[s].status = "awaiting_inputs"
                  \/ d.stage[s].status = "confirmed" /\ d.stage[s].conf # v[s].id}

\* stages are marked in order, each on its own; the first refusal ends the pass
ConfirmStages(d, v) ==
  LET first == IF Blocked(d, v) = {} THEN N + 1 ELSE Min(Blocked(d, v))
      d1 == [d EXCEPT !.nf = Terminals,
               !.stage = [s \in Stages |->
                  IF s < first /\ d.stage[s].status \in {"pending", "broadcasted"}
                  THEN RecordIdentity(d, s, v[s].id).stage[s] ELSE d.stage[s]]]
  IN IF first = N + 1 THEN [d1 EXCEPT !.phase = "ready_to_migrate"] ELSE d1

Confirm(d, v) == IF AllTrusted(d, v) THEN ConfirmStages(d, v) ELSE d

\* denomination_split_progress_for_run, what reconcile_denomination_run asks of a later phase
SplitComplete(d, v) == \A s \in Stages : d.stage[s].status # "deleted" => v[s].deep
RunReady(d, v) ==
  \/ d.phase = "ready_to_migrate"
  \/ d.phase = "broadcast_scheduled" /\ SplitComplete(d, v)

\* discard_unsubmitted_preparation_stages
Discard(d) ==
  [d EXCEPT !.stage = [s \in Stages |->
     IF s \in Unsubmitted(d)
     THEN [InsertStage(s) EXCEPT !.status = "deleted", !.raw = FALSE] ELSE d.stage[s]]]

\* retire_run_for_rebuild
Retire(d) == IF d.phase \in Released THEN d ELSE [d EXCEPT !.phase = "failed_terminal"]

-----------------------------------------------------------------------------
(* The run, the wallet and the network                                     *)

VARIABLES d,       \* the run in the database, see above
          raw,     \* stages whose transaction the wallet has stored
          drv,     \* the guarded operation: [pc, lap, todo, cur, proof, tip, late]
          plan,    \* what each reconciler read: plan.drv and plan.sync
          spc,     \* the step of the sync engine's reconciliation
          known, seen,   \* the chain tip and the scanned height of the wallet
          view,    \* the scanned inclusions
          cmined,  \* stages whose child the wallet has seen mined
          tip, chain, pool, wire, ids   \* the network

app == <<drv, plan, spc>>
wallet == <<known, seen, view, cmined>>
net == <<tip, chain, pool, wire, ids>>
vars == <<d, raw, app, wallet, net>>

Out == [id |-> 0, deep |-> FALSE]
Idle == [pc |-> "idle", lap |-> 1, todo |-> {}, cur |-> 0, proof |-> NoProof, tip |-> 0, late |-> FALSE]
\* delays add up along the stages
Rising(f) == \A s, t \in Stages : s < t => f[s] <= f[t]

Init ==
  /\ d = [stage |-> [s \in Stages |-> InsertStage(s)], phase |-> "waiting_denom_confirmations",
          nf |-> {}, child |-> [s \in Terminals |-> 0]]
  /\ raw = {} /\ drv = Idle /\ plan = [drv |-> NoPlan, sync |-> NoPlan] /\ spc = "idle"
  /\ known = 0 /\ seen = 0 /\ view = [s \in Stages |-> Out] /\ cmined = {}
  /\ tip = 0 /\ chain = [s \in Stages |-> Out] /\ pool = {} /\ wire = {} /\ ids = 0

Goto(l) == drv' = [drv EXCEPT !.pc = l]
Return == drv' = Idle
Keep == UNCHANGED <<plan, spc, wallet>>

-----------------------------------------------------------------------------
(* One reconciliation: the read, the children, the stages, the phase       *)

Read(a) == plan' = [plan EXCEPT ![a] = ReadPlan(d, view)]

Children(a) == d' = ResetChildren(d, cmined, plan[a].affected)

\* a terminal run is left alone
StagesStep(a) ==
  \E f \in [Stages -> Delays] :
    Rising(f) /\ d' = IF d.phase \in Released THEN d ELSE UpdateStages(d, plan[a], known, f)

PhaseStep(a) == d' = IF plan[a].affected = {} THEN d ELSE MarkWaiting(d)

\* reconcile_wallet_locks_after_sync, after a scan
SyncStep ==
  /\ spc # "idle"
  /\ \/ /\ spc = "read" /\ Read("sync") /\ d' = d /\ spc' = "children"
     \/ /\ spc = "children" /\ Children("sync") /\ UNCHANGED plan /\ spc' = "stages"
     \/ /\ spc = "stages" /\ StagesStep("sync") /\ UNCHANGED plan /\ spc' = "phase"
     \/ /\ spc = "phase" /\ PhaseStep("sync") /\ UNCHANGED plan /\ spc' = "confirm"
     \/ /\ spc = "confirm" /\ d' = Confirm(d, view)
        /\ plan' = [plan EXCEPT !.sync = NoPlan] /\ spc' = "idle"
  /\ UNCHANGED <<raw, drv, wallet, net>>

-----------------------------------------------------------------------------
(* advance_staged_denomination_run                                         *)

\* the guard is taken for an active run and reconcile_mined_denomination_stages reads
Begin ==
  /\ drv.pc = "idle" /\ d.phase \notin Released
  /\ Read("drv") /\ Goto("children")
  /\ UNCHANGED <<d, raw, spc, wallet, net>>

DrvReconcile ==
  /\ \/ drv.pc = "children" /\ Children("drv") /\ Goto("stages")
     \/ drv.pc = "stages" /\ StagesStep("drv") /\ Goto("phase")
     \/ drv.pc = "phase" /\ PhaseStep("drv") /\ Goto(IF drv.lap = 1 THEN "recover" ELSE "confirm")
  /\ UNCHANGED <<raw, net>> /\ Keep

\* a mined stage without its bytes takes them from the wallet, or ends the operation
Recover ==
  /\ drv.pc = "recover"
  /\ LET found == {s \in With(d, "awaiting_inputs") : view[s].id # 0} IN
     IF found \subseteq raw
     THEN /\ d' = [d EXCEPT !.stage = [s \in Stages |->
                     IF s \in found
                     THEN RecordIdentity(PromoteStage(d, s, NoProof), s, view[s].id).stage[s]
                     ELSE d.stage[s]]]
          /\ Goto("expiry")
     ELSE d' = d /\ Return
  /\ UNCHANGED <<raw, net>> /\ Keep

\* retire_expired_denomination_run: by the scanned height, retirement unlocks the inputs
RetireExpired ==
  /\ drv.pc = "expiry"
  /\ IF Expired(d, seen) # {} THEN d' = Retire(d) /\ Return ELSE d' = d /\ Goto("select")
  /\ UNCHANGED <<raw, net>> /\ Keep

\* without a pending stage that is due the first pass goes on to the awaiting ones
NothingDue ==
  IF drv.lap = 1 /\ With(d, "awaiting_inputs") # {} THEN Goto("finalize")
  ELSE IF drv.lap = 1 THEN drv' = [drv EXCEPT !.pc = "ready"] ELSE Return

\* the endpoint is asked for its tip; the due stages are chosen by the higher of the two
SelectDue ==
  /\ drv.pc = "select"
  /\ IF Expired(d, known) # {} THEN Return
     ELSE IF ~\E s \in With(d, "pending") : Ready(d, s, known) THEN NothingDue
     ELSE \/ Return
          \/ LET h == Max({known, tip})
                 due == {s \in With(d, "pending") : Ready(d, s, h)} IN
             IF Expired(d, h) # {} THEN Return
             ELSE \E T \in (IF Spaced THEN {{s} : s \in due} ELSE {due}) :
                    drv' = [drv EXCEPT !.pc = "attempt", !.todo = T, !.tip = h]
  /\ UNCHANGED <<d, raw, net>> /\ Keep

\* faulty variant: the attempt is not recorded
FaultyAttempt(s) ==
  /\ drv.pc = "attempt" /\ s \in drv.todo
  /\ IF d.stage[s].status = "pending"
     THEN drv' = [drv EXCEPT !.pc = "send", !.cur = s, !.todo = @ \ {s},
                             !.late = EffectiveHeight(d, s) < drv.tip]
     ELSE Return
  /\ UNCHANGED <<d, raw, net>> /\ Keep

Attempt(s) ==
  /\ drv.pc = "attempt" /\ s \in drv.todo
  /\ IF d.stage[s].status = "pending"
     THEN /\ d' = MarkAttempted(d, s)
          /\ drv' = [drv EXCEPT !.pc = "send", !.cur = s, !.todo = @ \ {s},
                                !.proof = d.stage[s].proof,
                                !.late = EffectiveHeight(d, s) < drv.tip]
     ELSE d' = d /\ Return
  /\ UNCHANGED <<raw, net>> /\ Keep

Send ==
  /\ drv.pc = "send"
  /\ wire' = wire \union {[tx |-> drv.cur, proof |-> drv.proof]}
  /\ Goto("answer")
  /\ UNCHANGED <<d, raw, tip, chain, pool, ids>> /\ Keep

OnNetwork(s) == chain[s].id # 0 \/ \E x \in pool : x.tx = s

\* a proof holds on the fork it was made on
Provable(x) == \A p \in Parents[x.tx] : chain[p].id # 0 /\ chain[p].id = x.proof[p]
Valid(x) == Provable(x) /\ ~PastExpiry(x.tx, tip)

\* accepted (or already known): stored; rejected: the marker is cleared; no answer: it stays
Answer ==
  /\ drv.pc = "answer"
  /\ \/ /\ OnNetwork(drv.cur) /\ d' = d /\ Goto("store")
     \/ /\ ~OnNetwork(drv.cur) /\ ~Valid([tx |-> drv.cur, proof |-> drv.proof])
        /\ d' = ClearAttempted(d, drv.cur) /\ Return
     \/ d' = d /\ Return
  /\ UNCHANGED <<raw, net>> /\ Keep

\* decrypt_and_store_migration_tx may fail; the stage stays pending with its marker
StoreSent ==
  /\ drv.pc = "store"
  /\ \/ raw' = raw \union {drv.cur} /\ Goto("mark")
     \/ raw' = raw /\ Return
  /\ UNCHANGED <<d, net>> /\ Keep

\* one transaction: broadcasted, and the redraw of the rest after a late stage
MarkSent ==
  /\ drv.pc = "mark"
  /\ IF MayBroadcast(d, drv.cur)
     THEN /\ \E f \in [Stages -> Delays] :
               /\ Rising(f)
               /\ d' = IF Spaced /\ drv.late THEN Redraw(MarkBroadcasted(d, drv.cur), drv.tip, f)
                       ELSE MarkBroadcasted(d, drv.cur)
          /\ IF drv.todo = {} THEN Return ELSE Goto("attempt")
     ELSE d' = d /\ Return
  /\ UNCHANGED <<raw, net>> /\ Keep

\* orchard_anchor_and_witnesses_for_denomination_inputs: the inputs of s are trusted notes
Witness(s) == \A p \in Parents[s] : view[p].deep
ProofOf(s) == [p \in Stages |-> IF p \in Parents[s] THEN view[p].id ELSE 0]

\* finalize_ready_denomination_stages: the witness is read, the proof made
Prove(s) ==
  /\ drv.pc = "finalize" /\ d.stage[s].status = "awaiting_inputs" /\ Witness(s)
  /\ drv' = [drv EXCEPT !.pc = "promote", !.cur = s, !.proof = ProofOf(s)]
  /\ UNCHANGED <<d, raw, net>> /\ Keep

Promote ==
  /\ drv.pc = "promote"
  /\ IF Promotable(d, drv.cur)
     THEN d' = PromoteStage(d, drv.cur, drv.proof) /\ drv' = [drv EXCEPT !.pc = "finalize", !.lap = 2]
     ELSE d' = d /\ Return
  /\ UNCHANGED <<raw, net>> /\ Keep

\* the rest waits; with something promoted it is broadcast now or on a later advance
FinalizeDone ==
  /\ drv.pc = "finalize"
  /\ IF drv.lap = 2 THEN Goto("expiry") \/ Return ELSE Return
  /\ UNCHANGED <<d, raw, net>> /\ Keep

\* reconcile_denomination_run: one more reconciliation, then the confirmations
ReadyCheck ==
  /\ drv.pc = "ready"
  /\ Read("drv") /\ drv' = [drv EXCEPT !.pc = "children", !.lap = 2]
  /\ UNCHANGED <<d, raw, spc, wallet, net>>

DrvConfirm ==
  /\ drv.pc = "confirm"
  /\ d' = Confirm(d, view)
  /\ IF RunReady(Confirm(d, view), view) THEN Goto("prove") ELSE Return
  /\ UNCHANGED <<raw, net>> /\ Keep

\* finalize_presigned_migration_children: the witness of the prepared note of s is read
\* under its trusted inclusion, and the child inserted
ProveChild(s) ==
  /\ drv.pc = "prove" /\ s \in Terminals /\ d.child[s] = 0 /\ view[s].deep
  /\ drv' = [drv EXCEPT !.pc = "insert", !.cur = s, !.proof = [NoProof EXCEPT ![s] = view[s].id]]
  /\ UNCHANGED <<d, raw, net>> /\ Keep

InsertChild ==
  /\ drv.pc = "insert"
  /\ d' = IF d.phase \in Released THEN d
          ELSE [d EXCEPT !.child[drv.cur] = drv.proof[drv.cur], !.phase = "broadcast_scheduled"]
  /\ Goto("prove")
  /\ UNCHANGED <<raw, net>> /\ Keep

ChildrenDone == drv.pc = "prove" /\ Return /\ UNCHANGED <<d, raw, net>> /\ Keep

-----------------------------------------------------------------------------
(* abandon_orchard_migration                                               *)

\* scheduled_migration_stop_candidates: pending stages; the network is asked about the
\* attempted ones only
StopBegin ==
  /\ Stops /\ drv.pc = "idle" /\ d.phase \notin Released \ {"abandoned"}
  /\ drv' = [Idle EXCEPT !.pc = "stop",
               !.todo = {s \in With(d, "pending") : d.stage[s].att = 1 /\ d.phase # "abandoned"}]
  /\ UNCHANGED <<d, raw, net>> /\ Keep

\* faulty variant: a transaction the endpoint does not know is taken for dead
FaultyStopReconcile(s) ==
  /\ drv.pc = "stop" /\ s \in drv.todo
  /\ IF OnNetwork(s)
     THEN /\ raw' = raw \union {s} /\ d' = MarkBroadcasted(d, s)
          /\ drv' = [drv EXCEPT !.todo = @ \ {s}]
     ELSE UNCHANGED <<d, raw>> /\ drv' = [drv EXCEPT !.todo = @ \ {s}]
  /\ UNCHANGED net /\ Keep

\* found: stored and marked; absent: only an expiry the endpoint has reached settles it
StopReconcile(s) ==
  /\ drv.pc = "stop" /\ s \in drv.todo
  /\ \/ /\ OnNetwork(s) /\ raw' = raw \union {s} /\ d' = MarkBroadcasted(d, s)
        /\ IF MayBroadcast(d, s) THEN drv' = [drv EXCEPT !.todo = @ \ {s}] ELSE Return
     \/ /\ ~OnNetwork(s) /\ UNCHANGED <<d, raw>>
        /\ IF PastExpiry(s, tip) THEN drv' = [drv EXCEPT !.todo = @ \ {s}] ELSE Return
     \/ UNCHANGED <<d, raw>> /\ Return
  /\ UNCHANGED net /\ Keep

\* abandon_run: the phase and the unsubmitted children, then the stage rows
StopAbandon ==
  /\ drv.pc = "stop" /\ drv.todo = {}
  /\ d' = [d EXCEPT !.phase = "abandoned", !.child = [s \in Terminals |-> 0]]
  /\ Goto("discard")
  /\ UNCHANGED <<raw, net>> /\ Keep

StopDiscard ==
  /\ drv.pc = "discard"
  /\ d' = Discard(d) /\ Return
  /\ UNCHANGED <<raw, net>> /\ Keep

-----------------------------------------------------------------------------
(* Crashes, the sync engine's scans and the network                        *)

Crash ==
  /\ Crashes /\ (drv.pc # "idle" \/ spc # "idle")
  /\ drv' = Idle /\ spc' = "idle" /\ plan' = [drv |-> NoPlan, sync |-> NoPlan]
  /\ UNCHANGED <<d, raw, wallet, net>>

LearnTip ==
  /\ known # tip /\ known' = tip
  /\ UNCHANGED <<d, raw, app, seen, view, cmined, net>>

\* scanning decrypts and stores what it finds of the wallet
Scan ==
  /\ spc = "idle" /\ (seen # tip \/ view # chain)
  /\ Overlap \/ drv.pc = "idle"
  /\ known' = tip /\ seen' = tip /\ view' = chain /\ spc' = "read"
  /\ raw' = raw \union {s \in Stages : chain[s].id # 0}
  /\ cmined' = {s \in cmined : chain[s].id = view[s].id}
  /\ UNCHANGED <<d, drv, plan, net>>

\* a child whose funding stage is mined where it was proved is mined
MineChild(s) ==
  /\ s \in Terminals /\ d.child[s] # 0 /\ d.child[s] = chain[s].id /\ view[s] = chain[s]
  /\ s \notin cmined /\ cmined' = cmined \union {s}
  /\ UNCHANGED <<d, raw, app, known, seen, view, net>>

Deliver(x) ==
  /\ x \in wire
  /\ wire' = wire \ {x} /\ pool' = IF Valid(x) /\ ~OnNetwork(x.tx) THEN pool \union {x} ELSE pool
  /\ UNCHANGED <<d, raw, app, wallet, tip, chain, ids>>

Lose(x) ==
  /\ x \in wire /\ wire' = wire \ {x}
  /\ UNCHANGED <<d, raw, app, wallet, tip, chain, pool, ids>>

\* blocks mine any of the pool; what they bury becomes trusted
Block ==
  /\ tip < MaxTip /\ tip' = tip + 1
  /\ pool' = {x \in pool : ~PastExpiry(x.tx, tip + 1)}
  /\ UNCHANGED <<d, raw, app, wallet, chain, wire, ids>>

Mine(x) ==
  /\ x \in pool /\ Valid(x) /\ ids < MaxId
  /\ ids' = ids + 1 /\ chain' = [chain EXCEPT ![x.tx] = [id |-> ids + 1, deep |-> FALSE]]
  /\ pool' = pool \ {x}
  /\ UNCHANGED <<d, raw, app, wallet, tip, wire>>

Deepen(s) ==
  /\ chain[s].id # 0 /\ ~chain[s].deep /\ \A p \in Parents[s] : chain[p].deep
  /\ chain' = [chain EXCEPT ![s].deep = TRUE]
  /\ UNCHANGED <<d, raw, app, wallet, tip, pool, wire, ids>>

\* a reorganisation takes a stage and what spends it out of the chain; the transactions may
\* return to the pool, where only proofs of the new fork are mined
Reorg(s) ==
  /\ Reorgs /\ chain[s].id # 0
  /\ LET gone == {t \in Stages : chain[t].id # 0 /\ (t = s \/ s \in Parents[t])} IN
     /\ chain' = [t \in Stages |-> IF t \in gone THEN Out ELSE chain[t]]
     /\ \E R \in SUBSET {t \in gone : Parents[t] = {}} :
          pool' = pool \union {[tx |-> t, proof |-> NoProof] : t \in R}
  /\ UNCHANGED <<d, raw, app, wallet, tip, wire, ids>>

-----------------------------------------------------------------------------
Driver ==
  \/ Begin \/ DrvReconcile \/ Recover \/ RetireExpired \/ SelectDue
  \/ (\E s \in Stages : Attempt(s) \/ Prove(s)) \/ Send \/ Answer \/ StoreSent \/ MarkSent
  \/ Promote \/ FinalizeDone \/ ReadyCheck \/ DrvConfirm
  \/ (\E s \in Terminals : ProveChild(s)) \/ InsertChild \/ ChildrenDone

Stop == StopBegin \/ (\E s \in Stages : StopReconcile(s)) \/ StopAbandon \/ StopDiscard

Network ==
  \/ (\E x \in wire : Deliver(x) \/ Lose(x)) \/ Block \/ (\E x \in pool : Mine(x))
  \/ \E s \in Stages : Deepen(s) \/ Reorg(s)

Next ==
  \/ Driver \/ Stop \/ SyncStep \/ Crash \/ LearnTip \/ Scan
  \/ (\E s \in Terminals : MineChild(s)) \/ Network

Spec == Init /\ [][Next]_vars

\* the app keeps advancing and syncing, a reconciliation that began goes on, and what was
\* mined is buried; nothing else is promised
FairSpec ==
  /\ Spec /\ WF_vars(Driver) /\ WF_vars(SyncStep) /\ WF_vars(LearnTip) /\ SF_vars(Scan)
  /\ \A s \in Stages : WF_vars(Deepen(s))

-----------------------------------------------------------------------------
(* Properties                                                              *)

Rows == [status : Status, raw : BOOLEAN, proof : [Stages -> 0..MaxId], att : {0, 1},
         nb : Nat, conf : 0..MaxId]

\* The rows are well formed, and no update of any reconciler or of the driver would fail the
\* CHECK constraints of stages.rs: raw bytes for what is pending or sent, none for what
\* waits, an inclusion exactly for what is confirmed.
TypeOK ==
  /\ d.stage \in [Stages -> Rows] /\ d.nf \subseteq Terminals
  /\ d.child \in [Terminals -> 0..MaxId]
  /\ d.phase \in Released \union {"waiting_denom_confirmations", "ready_to_migrate", "broadcast_scheduled"}
  /\ \A s \in Stages :
       /\ d.stage[s].status = "awaiting_inputs" => ~d.stage[s].raw
       /\ d.stage[s].status \in {"pending", "broadcasted"} => d.stage[s].raw
       /\ d.stage[s].status = "confirmed" <=> d.stage[s].conf # 0

Live(s) == chain[s].id # 0 \/ \E x \in pool \union wire : x.tx = s /\ Valid(x)

\* A stage whose transaction may be on the network carries its attempt marker, or is known to
\* be sent: the marker is written before the submission and cleared only by a rejection.
AttemptRecorded ==
  \A s \in Stages : Live(s) =>
    \/ d.stage[s].att = 1
    \/ d.stage[s].status \in {"broadcasted", "confirmed", "deleted"}

\* A pending child whose proof belongs to another inclusion of its funding stage is noticed by
\* the next reconciliation: the stage still carries the old identity.  This is why the children
\* are cleared before the stages are updated, with a crash possible in between.
StaleChildNoticed ==
  \A s \in Terminals :
    (d.child[s] # 0 /\ s \notin cmined /\ d.child[s] # view[s].id) => d.stage[s].conf # view[s].id

\* A run leaves the preparation only with every stage of the graph, change-only ones too,
\* confirmed in the inclusion the wallet trusts.
ReadyIsTrustedStep ==
  (d.phase = "waiting_denom_confirmations" /\ d'.phase = "ready_to_migrate") =>
    \A s \in Stages : d'.stage[s].conf = view[s].id /\ view[s].deep
ReadyIsTrusted == [][ReadyIsTrustedStep]_vars

\* A stop deletes no row of a transaction the network may still mine unless the wallet has
\* stored that transaction.
StopStoresLiveStep ==
  \A s \in Stages :
    (d.stage[s].status # "deleted" /\ d'.stage[s].status = "deleted" /\ Live(s)) => s \in raw
StopStoresLive == [][StopStoresLiveStep]_vars

\* No redraw moves a stage that waits to an earlier height.
NeverEarlierStep ==
  \A s \in Unsubmitted(d') : EffectiveHeight(d', s) >= EffectiveHeight(d, s)
NeverEarlier == [][NeverEarlierStep]_vars

\* A run is given up for an expired stage only when the chain the wallet has scanned lacks
\* one: expired_broadcasted_denomination_stage_count counts stages "that were not mined".
RetireMeansUnminedStep ==
  (d.phase # "failed_terminal" /\ d'.phase = "failed_terminal") =>
    \E s \in Stages : PastExpiry(s, seen) /\ view[s].id = 0
RetireMeansUnmined == [][RetireMeansUnminedStep]_vars

\* Once the whole graph stays buried, the run does not wait for confirmations for ever.
AllDeep == \A s \in Stages : chain[s].deep
Prepared == d.phase # "waiting_denom_confirmations"
PreparationEnds ==
  <>[]AllDeep => <>Prepared
=============================================================================
