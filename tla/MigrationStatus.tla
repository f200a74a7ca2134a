--------------------------- MODULE MigrationStatus ---------------------------
(***************************************************************************)
(* What the app is told of a migration run.  migration_status reads the    *)
(* run with one query after the other, in no transaction, while the driver *)
(* proves, sends and rebuilds parts and the sync engine reconciles them;   *)
(* from what it read it tells the state of every part, the height of the   *)
(* next action, at which the coordinator wakes the driver, and the height  *)
(* at which the run will be complete.  The mobile worker and the iOS       *)
(* confirmation tracker read the same rows in their own ways               *)
(* (migration_preparation.rs).  The rows and what changes them are those   *)
(* of MigrationRows; the steps of the driver between two rows are          *)
(* MigrationRun's and are taken together here.                             *)
(***************************************************************************)
EXTENDS MigrationRows, Sequences, SequencesExt

CONSTANTS Offset,   \* block offset of each part in the approved schedule
          Target,   \* denomination_confirmations_required
          Ready,    \* prepared_notes_proof_ready_height of the run
          Spacing,  \* blocks between two anchors
          Delays,   \* the delays a redraw or a rebuild may draw
          MaxTip,   \* bound: highest scanned height
          MaxGen,   \* bound: builds of one part
          Reorgs,   \* whether shallow blocks may leave the chain
          Early     \* whether the user resumes before the retry height

None == 0   \* no height, no part
Minus(x, y) == IF x > y THEN x - y ELSE 0

VARIABLES run,    \* the run's rows, see MigrationRows
          retry,  \* proof_retry_height of the run, or None
          mined,  \* the height at which the wallet saw the part's transaction mined, 0 for none
          tip,    \* the height the wallet has scanned
          drv,    \* the driver: pc, the height it read, the parts it passed over or sent
          ask,    \* the status that is being read: pc and what was read so far
          told    \* the last status that was told
vars == <<run, retry, mined, tip, drv, ask, told>>

-----------------------------------------------------------------------------
(* The projection: calculate_migration_timing_projection.  p maps the      *)
(* parts with a row to what was read of it, k the signed children without  *)
(* one to their heights; r is the retry height and b whether the schedule  *)
(* was rebased.                                                            *)

\* Once a child has a row, or the one-time rebase was decided, the persisted heights count.
Settled(p, b) == DOMAIN p # {} \/ b

ScheduleOrigin(k, r, scanned) == Max({Minus(run.signed, 1), r, scanned})

\* The height at which each child is expected to be sent.
Projected(p, k, r, b, scanned) ==
  [c \in DOMAIN k |-> IF Settled(p, b) THEN Max({k[c], r})
                      ELSE ScheduleOrigin(k, r, scanned) + Offset[c]]

\* A persisted height below the offset of its part is an error, and nothing is projected.
Underflows(p, k, b) == Settled(p, b) /\ \E c \in DOMAIN k : k[c] < Offset[c]

\* The earliest of the scheduled parts, the next proof, and a schedule rebased but not begun.
NextActions(p, k, r, b, scanned) ==
  LET proj == Projected(p, k, r, b, scanned) IN
  {p[q].sched : q \in {q \in DOMAIN p : p[q].status = "scheduled"}}
    \union (IF r # None /\ DOMAIN k # {} THEN {r} ELSE {})
    \union (IF b /\ DOMAIN p = {} THEN {proj[c] : c \in DOMAIN k} ELSE {})

NextAction(p, k, r, b, scanned) ==
  LET all == NextActions(p, k, r, b, scanned)
  IN IF all = {} \/ Underflows(p, k, b) THEN None ELSE Min(all)

\* Two or more overdue parts are about to be given fresh heights.
CatchUpPending(p, k, r, b, scanned) ==
  LET proj == Projected(p, k, r, b, scanned)
      due == {q \in DOMAIN p : p[q].status = "scheduled" /\ p[q].sched <= r}
      late == {c \in DOMAIN k : proj[c] <= r}
  IN r # None /\ Cardinality(due) + Cardinality(late) > 1

\* faulty variant: a mined part needs its full confirmations once more
FaultyCompletionHeights(p) ==
  {(IF p[q].mined > 0 THEN p[q].mined ELSE p[q].sched) + Target : q \in DOMAIN p}

CompletionHeights(p) ==
  {IF p[q].mined > 0 THEN p[q].mined + Target - 1 ELSE p[q].sched + Target : q \in DOMAIN p}

\* The height of the run's completion: told only when every part is accounted for and none is
\* to be signed or drawn again.
Estimate(p, k, r, b, scanned) ==
  LET proj == Projected(p, k, r, b, scanned)
      heights == CompletionHeights(p) \union {proj[c] + Target : c \in DOMAIN k}
  IN IF /\ Cardinality(DOMAIN p) + Cardinality(DOMAIN k) = Cardinality(Parts)
        /\ \A q \in DOMAIN p : p[q].status # "needs_resign"
        /\ ~CatchUpPending(p, k, r, b, scanned) /\ ~Underflows(p, k, b)
     THEN Max(heights) ELSE None

-----------------------------------------------------------------------------
(* The parts and the preparation, as they are listed                       *)

\* synced_orchard_confirmation_count: the depth in the scanned range that holds the height, if
\* the block that ends the range is stored
ConfirmationCount(ranges, blocks, h) ==
  LET holding == {r \in ranges : r.from <= h /\ h < r.to}
      end == Max({r.to : r \in holding}) - 1
  IN IF holding = {} \/ end \notin blocks THEN 0
     ELSE IF end - h + 1 > Target THEN Target ELSE end - h + 1

\* The depth of a block when everything up to tip is scanned.
Depth(h) == ConfirmationCount({[from |-> 0, to |-> tip + 1]}, {tip}, h)

\* migration_parts_for_run: the state of one part
PartState(ph, row, h) ==
  CASE row.status = "confirmed" -> IF ph = "complete" \/ (h > 0 /\ Depth(h) >= Target)
                                   THEN "completed" ELSE "confirming"
    [] row.status = "scheduled" -> "scheduled"
    [] row.status = "broadcasted" -> "migrating"
    [] row.status = "needs_resign" -> "needs_input"
    [] OTHER -> IF ph = "complete" THEN "completed" ELSE "preparing"

\* The slot in which a row is shown: its own part's, or else one of the same value, or else a
\* free one, or else a new one behind them.  slots are those of the rows before it.
Slot(values, slots, row) ==
  LET taken == ToSet(slots)
      length == Max({Len(values)} \union taken)
      free == (1 .. Len(values)) \ taken
      alike == {s \in free : values[s] = row.v}
  IN IF row.part # None /\ row.part <= length /\ row.part \notin taken THEN row.part
     ELSE IF alike # {} THEN Min(alike)
     ELSE IF free # {} THEN Min(free) ELSE length + 1

Slots(values, rows) == FoldLeft(LAMBDA slots, row : Append(slots, Slot(values, slots, row)), <<>>, rows)

\* Which target an output of a stage is shown for, if any: its own part's, or the largest that
\* it covers; outs are the targets of the outputs before it.
TargetOf(values, outs, out) ==
  LET open == (1 .. Len(values)) \ ToSet(outs)
      fit == {t \in open : values[t] <= out.v}
  IN IF out.kind # "migration" THEN None
     ELSE IF out.part \in open THEN out.part
     ELSE IF fit = {} THEN None
     ELSE CHOOSE t \in fit : \A u \in fit : values[u] < values[t] \/ (values[u] = values[t] /\ u <= t)

Targets(values, outputs) == FoldLeft(LAMBDA outs, out : Append(outs, TargetOf(values, outs, out)), <<>>, outputs)

\* The forecast of the stages st of a preparation, in the order of their indexes: a stage in a
\* later round keeps its planned distance to the round before it, counted from the completion of
\* the stages it spends.
Round(st) == [s \in DOMAIN st |-> LET rnd[t \in DOMAIN st] ==
                IF st[t].from = {} THEN 1 ELSE 1 + Max({rnd[u] : u \in st[t].from}) IN rnd[s]]

PlannedOffset(st, s) ==
  LET rnd == Round(st)
      before == {st[u].sched : u \in {u \in DOMAIN st : rnd[u] = rnd[s] - 1}}
  IN IF rnd[s] = 1 THEN st[s].sched ELSE Minus(st[s].sched, Max(before) + Target)

\* denomination_stage_part_state: how the parts of a stage are shown while the notes are split
StagePart(row, depth) ==
  CASE row.status \in {"awaiting_inputs", "pending"} -> "preparing"
    [] row.status = "broadcasted" /\ depth = 0 -> "migrating"
    [] OTHER -> IF depth >= Target THEN "completed" ELSE "confirming"

\* denomination_migration_parts_for_run: an output for a part is shown in a slot like a row
StageSlots(values, outputs) ==
  Slots(values, SelectSeq(outputs, LAMBDA out : out.kind = "migration"))

StageState(row, depth) ==
  CASE row.status = "awaiting_inputs" -> "awaiting_inputs"
    [] row.status = "pending" -> "scheduled"
    [] row.status = "broadcasted" /\ depth = 0 -> "broadcasted"
    [] OTHER -> IF StagePart(row, depth) = "completed" THEN "completed" ELSE "confirming"

\* migration_preparation_transactions_for_run: when each stage is sent, and complete
Forecast(st, scanned) ==
  LET cast[s \in DOMAIN st] ==
        LET spent == {cast[u].done : u \in st[s].from}
            follows == IF spent = {} THEN st[s].sched ELSE Max(spent) + PlannedOffset(st, s)
            waits == StageState(st[s], IF st[s].mined = 0 THEN 0 ELSE Minus(scanned + 1, st[s].mined))
            at == Max({st[s].sched, st[s].nb, follows, IF waits = "scheduled" THEN scanned ELSE 0})
            done == IF st[s].mined > 0 THEN st[s].mined + Target - 1
                    ELSE IF waits = "broadcasted" THEN Max({at, scanned}) + Target
                    ELSE at + Target
        IN [at |-> at, done |-> done]
  IN cast

-----------------------------------------------------------------------------
(* The three readers                                                       *)

\* migration_status without an active run: what the balances say
BalancePhase(b) ==
  IF b.orchardPending THEN "waiting_for_spendable_orchard"
  ELSE IF b.migratable THEN "ready_to_prepare"
  ELSE IF b.completedRun \/ b.ironwood THEN "complete"
  ELSE IF b.ironwoodPending THEN "waiting_for_ironwood_spendability" ELSE "no_orchard_funds"

Proving == {"ready_to_migrate", "broadcast_scheduled"}

\* orchard_migration_proof_readiness: "none" when no proof is waited for; w says whether one of
\* the children finds its witness
ProofReadiness(ph, kids, r, scanned, w) ==
  IF ph \notin Proving \/ kids = {} THEN "none"
  ELSE IF r # None /\ r <= scanned /\ w THEN "ready" ELSE "waiting"

\* migration_proof_snapshot_read_only: the retry height of a run in one of the two phases
ProofSnapshot(ph, r) == IF ph \in Proving THEN r ELSE None

\* orchard_migration_proof_readiness_read_only: the same rows without migration_status
ProofReadinessReadOnly(ph, kids, r, scanned, w) ==
  LET next == ProofSnapshot(ph, r) IN next # None /\ kids # {} /\ next <= scanned /\ w

\* classify_state, after the preflight for which it asks
Classify(ph, kids, r, scanned, w) ==
  CASE ph = "waiting_denom_confirmations" -> "waiting_for_denominations"
    [] ph = "ready_to_migrate" /\ kids # {} ->
         IF r = None THEN "needs_user"
         ELSE IF ProofReadiness(ph, kids, r, scanned, w) = "ready" THEN "proof_ready" ELSE "waiting_for_anchor"
    [] ph \in {"broadcast_scheduled", "broadcasting", "waiting_migration_confirmations", "complete"} -> "inactive"
    [] OTHER -> "needs_user"

\* inspect: nothing is told of a run that is not active any more
Inspect(r, kids, rt, scanned, w) ==
  IF r.phase \in Terminal THEN "inactive" ELSE Classify(r.phase, kids, rt, scanned, w)

\* migration_preparation_snapshot_read_only: the phase of a run that is active
PreparationSnapshot(r) == IF r.phase \in Terminal THEN "none" ELSE r.phase

\* inspect_read_only, for the confirmation tracker of iOS
InspectReadOnly(r) ==
  CASE PreparationSnapshot(r) = "waiting_denom_confirmations" -> "waiting_for_denominations"
    [] PreparationSnapshot(r) \in {"none", "broadcast_scheduled", "broadcasting", "waiting_migration_confirmations"} -> "inactive"
    [] OTHER -> "needs_user"

-----------------------------------------------------------------------------
(* The run changes                                                         *)

View == [p \in Parts |-> [gen |-> IF mined[p] > 0 THEN run.row[p].gen ELSE 0,
                          deep |-> mined[p] > 0 /\ Depth(mined[p]) >= Target]]

\* every transaction that was sent is stored
Raw == {<<p, run.row[p].gen>> : p \in Parts}

NextAnchor(h) == (h \div Spacing + 1) * Spacing
RetryAfter(h) == Max({NextAnchor(h), Ready})

NoDriver == [pc |-> "idle", at |-> 0, over |-> {}]
NotAsked == [pc |-> "idle"]
NothingTold == <<>>

Init ==
  /\ \E b \in BOOLEAN :
       run = [phase |-> "ready_to_migrate", row |-> [p \in Parts |-> NoRow], kid |-> Offset,
              kidExp |-> [p \in Parts |-> Canonical(Offset[p])], kids |-> TRUE,
              origin |-> 0, signed |-> 1, rebased |-> b, locked |-> TRUE]
  /\ retry = None \/ retry = Ready
  /\ mined = [p \in Parts |-> 0] /\ tip = 1
  /\ drv = NoDriver /\ ask = NotAsked /\ told = NothingTold

Rest == UNCHANGED <<tip, ask, told>>

\* finalize_presigned_migration_children keeps a retry height that is set, unless the notes
\* cannot be spent yet
FinalizeBegin ==
  /\ drv.pc = "idle" /\ run.phase \notin Terminal /\ Unpromoted(run) # {}
  /\ Early \/ (retry # None /\ retry <= tip)
  /\ \/ retry' = Ready /\ UNCHANGED drv
     \/ /\ retry' = IF retry = None THEN Ready ELSE retry
        /\ drv' = [pc |-> "prove", at |-> tip, over |-> {}]
  /\ Rest /\ UNCHANGED <<run, mined>>

NextChild == Min(Unpromoted(run) \ drv.over)

\* one proof, which is committed with the retry height of the children that remain
Prove ==
  /\ drv.pc = "prove" /\ Unpromoted(run) \ drv.over # {}
  /\ Promotable(RebaseInitialSchedule(run, drv.at), NextChild)
  /\ run' = Promote(run, NextChild, drv.at)
  /\ \/ retry' = (IF Unpromoted(run') # {} THEN drv.at ELSE None) /\ UNCHANGED drv
     \/ /\ Unpromoted(run') # {}   \* and no more proofs are allowed to this pass
        /\ retry' = RetryAfter(drv.at) /\ drv' = [drv EXCEPT !.pc = "limit"]
  /\ Rest /\ UNCHANGED mined

\* what is left waits for the next anchor, the run goes on
StopAtLimit ==
  /\ drv.pc = "limit"
  /\ retry' = RetryAfter(tip) /\ drv' = NoDriver
  /\ Rest /\ UNCHANGED <<run, mined>>

\* the witness of the child is not ready
PassOver ==
  /\ drv.pc = "prove" /\ Unpromoted(run) \ drv.over # {}
  /\ drv' = [drv EXCEPT !.over = drv.over \union {NextChild}]
  /\ Rest /\ UNCHANGED <<run, retry, mined>>

\* what is left waits for the next anchor, and so does the run
FinalizeEnd ==
  /\ drv.pc = "prove" /\ Unpromoted(run) \subseteq drv.over
  /\ IF Unpromoted(run) # {}
     THEN run' = SetPhase(run, "ready_to_migrate") /\ retry' = RetryAfter(tip)
     ELSE UNCHANGED <<run, retry>>
  /\ drv' = NoDriver
  /\ Rest /\ UNCHANGED mined

\* mark_expired_pending_parts_for_resign and mark_due_parts_with_noncanonical_broadcast_height
Resign ==
  /\ drv.pc = "idle" /\ run.phase \notin Terminal
  /\ run' = MarkNoncanonical(MarkExpired(run, View, Raw, tip), View, tip) /\ run' # Reconcile(run, View)
  /\ Rest /\ UNCHANGED <<retry, mined, drv>>

\* rebuild_expired_software_migration_parts
Rebuild ==
  /\ drv.pc = "idle" /\ run.phase \notin Terminal
  /\ LET P == With(run, "needs_resign") IN
     /\ P # {} /\ \A p \in P : run.row[p].gen < MaxGen /\ mined[p] = 0
     /\ \E d \in [P -> Delays] :
          LET build == [p \in P |-> [sched |-> tip + d[p], exp |-> Canonical(tip + d[p]), target |-> tip]]
          IN run' = ReplaceResigned(run, P, build)
  /\ Rest /\ UNCHANGED <<retry, mined, drv>>

\* broadcast_due_scheduled_migration_txs up to the acceptance of the node, of a part whose
\* attempt is recorded
Send ==
  /\ drv.pc = "idle" /\ run.phase \notin Terminal
  /\ ExpiredParts(run, Raw, tip) = {} /\ NoncanonicalDue(run, tip) = {}
  /\ \E p \in DueParts(run, View, tip) :
       /\ run' = MarkAttempted(SetPhase(Reconcile(run, View), "broadcasting"), p)
       /\ drv' = [pc |-> "mark", at |-> tip, over |-> {p}]
  /\ Rest /\ UNCHANGED <<retry, mined>>

\* mark_pending_broadcasted
Mark ==
  /\ drv.pc = "mark"
  /\ \E p \in drv.over : run' = MarkBroadcasted(run, p, run.row[p].gen)
  /\ drv' = [drv EXCEPT !.pc = "redraw"]
  /\ Rest /\ UNCHANGED <<retry, mined>>

\* the other overdue parts are given fresh heights
Redraw ==
  /\ drv.pc = "redraw"
  /\ \E draw \in [Overdue(run, drv.at) -> {drv.at + d : d \in Delays}] : run' = Reschedule(run, drv.at, draw)
  /\ drv' = NoDriver
  /\ Rest /\ UNCHANGED <<retry, mined>>

\* the operation is cancelled or the process dies
Break ==
  /\ drv.pc # "idle" /\ drv' = NoDriver
  /\ Rest /\ UNCHANGED <<run, retry, mined>>

\* what the network may have of the run
Sent == {p \in With(run, "scheduled") \union With(run, "broadcasted") : run.row[p].tried}

\* a block, scanned at once, with some of what was sent
Block(M) ==
  /\ tip < MaxTip /\ M \subseteq {p \in Sent : mined[p] = 0 /\ run.row[p].exp > tip}
  /\ tip' = tip + 1
  /\ mined' = [p \in Parts |-> IF p \in M THEN tip + 1 ELSE mined[p]]
  /\ UNCHANGED <<run, retry, drv, ask, told>>

Reorg(p) ==
  /\ Reorgs /\ mined[p] > 0 /\ Depth(mined[p]) < Target
  /\ mined' = [mined EXCEPT ![p] = 0]
  /\ Rest /\ UNCHANGED <<run, retry, drv>>

\* reconcile_wallet_locks_after_sync, with backfill_ready_migration_proof_retry_height
AfterSync ==
  /\ run.phase \notin Terminal
  /\ run' = Reconcile(run, View)
  /\ retry' = IF run'.phase = "ready_to_migrate" /\ retry = None /\ Unpromoted(run') # {} THEN Ready ELSE retry
  /\ <<run', retry'>> # <<run, retry>>
  /\ Rest /\ UNCHANGED <<mined, drv>>


-----------------------------------------------------------------------------
(* The status is read: every step is one query, or some whose results do  *)
(* not meet.  The parts and the projection of an answer have only the run  *)
(* and the scanned height in common, so a behaviour follows one of the two.*)

Reading == UNCHANGED <<run, retry, mined, tip, drv>>

\* the balances that go with the run; latest_completed_run finds it when it is complete
Balances == [orchardPending : BOOLEAN, migratable : BOOLEAN, completedRun : {run.phase = "complete"},
             ironwood : BOOLEAN, ironwoodPending : BOOLEAN]

\* active_run, or the receipt of a completed one while no funds are left to migrate; the scanned
\* height and the counts
Open ==
  /\ ask.pc = "idle"
  /\ \/ /\ run.phase \notin Terminal \/ \E b \in Balances : b.completedRun /\ BalancePhase(b) = "complete"
        /\ \E half \in {"phase", "timing"} : ask' = [pc |-> half, at |-> IF half = "timing" THEN tip ELSE 0]
        /\ told' = NothingTold
     \/ /\ run.phase \in Terminal
        /\ \E b \in Balances : BalancePhase(b) # "complete" /\ told' = [balance |-> BalancePhase(b)]
        /\ ask' = ask
  /\ Reading

\* the durable phase is read after the counts, and the parts after it
ReadPhase ==
  /\ ask.pc = "phase"
  /\ ask' = [pc |-> "parts", phase |-> run.phase]
  /\ UNCHANGED told /\ Reading

TellParts ==
  /\ ask.pc = "parts"
  /\ told' = [parts |-> [p \in Parts |-> PartState(ask.phase, run.row[p], mined[p])]]
  /\ ask' = NotAsked
  /\ Reading

ReadTiming ==
  /\ ask.pc = "timing"
  /\ ask' = [pc |-> "rows", at |-> ask.at, retry |-> retry, rebased |-> run.rebased]
  /\ UNCHANGED told /\ Reading

\* what is read of every part that has a row (and, for EstimateHolds, whether it was tried before
\* without an answer), and of the children without one
RowsRead ==
  [p \in HasRow(run) |-> [status |-> run.row[p].status, sched |-> run.row[p].sched, mined |-> mined[p],
                          lost |-> run.row[p].status = "scheduled" /\ run.row[p].tried]]
KidsRead == [p \in Unpromoted(run) |-> run.kid[p]]

ReadRows ==
  /\ ask.pc = "rows"
  /\ ask' = [pc |-> "kids", at |-> ask.at, retry |-> ask.retry, rebased |-> ask.rebased, rows |-> RowsRead]
  /\ UNCHANGED told /\ Reading

TellProjection ==
  /\ ask.pc = "kids"
  /\ told' = [settled |-> Settled(ask.rows, ask.rebased), kids |-> DOMAIN KidsRead,
              lost |-> {p \in DOMAIN ask.rows : ask.rows[p].lost},
              estimate |-> Estimate(ask.rows, KidsRead, ask.retry, ask.rebased, ask.at)]
  /\ ask' = NotAsked
  /\ Reading

Read == Open \/ ReadPhase \/ TellParts \/ ReadTiming \/ ReadRows \/ TellProjection

Drive == FinalizeBegin \/ Prove \/ StopAtLimit \/ PassOver \/ FinalizeEnd \/ Resign \/ Rebuild
         \/ Send \/ Mark \/ Redraw \/ Break

Next ==
  \/ Drive \/ AfterSync \/ Read
  \/ \E M \in SUBSET Parts : Block(M)
  \/ \E p \in Parts : Reorg(p)

Spec == Init /\ [][Next]_vars

-----------------------------------------------------------------------------
(* Properties *)

TypeOK ==
  /\ run.phase \in Phase /\ \A p \in Parts : run.row[p].status \in Status
  /\ retry \in Nat /\ tip \in 1 .. MaxTip /\ mined \in [Parts -> 0 .. MaxTip]
  /\ drv.pc \in {"idle", "prove", "limit", "mark", "redraw"} /\ drv.over \subseteq Parts

NextOfRun == NextAction(RowsRead, KidsRead, retry, run.rebased, tip)

\* the children whose witnesses the readers look for
Candidates == Unpromoted(run)

\* A run that has parts to prove or to send, and none to be signed again, has a next action, or
\* will have one after the next sync; and it lies behind when a part is due or a proof is ready.
\* The coordinator prepares a proof only then (_canPrepareNextProof).
NeverAsleep ==
  drv.pc = "idle" /\ run.phase \notin Terminal /\ With(run, "needs_resign") = {} =>
    /\ Unpromoted(run) \union With(run, "scheduled") # {} =>
         \/ NextOfRun # None
         \/ retry = None /\ Reconcile(run, View).phase = "ready_to_migrate"
    /\ \/ DueParts(run, View, tip) # {}
       \/ ProofReadiness(run.phase, Candidates, retry, tip, TRUE) = "ready"
       => NextOfRun # None /\ NextOfRun <= tip

\* The reader of the app, the worker and the tracker agree on what is ready, and on the state of
\* the run but for one that waits for the user to let its children be proved.
ReadersAgree ==
  \A w \in BOOLEAN :
    /\ ProofReadiness(run.phase, Candidates, retry, tip, w) = "ready"
         <=> ProofReadinessReadOnly(run.phase, Candidates, retry, tip, w)
    /\ \/ Inspect(run, Candidates, retry, tip, w) = InspectReadOnly(run)
       \/ run.phase = "ready_to_migrate" /\ Candidates # {}

\* A part that was told to be completed is mined at the depth that completes a run, whatever
\* happened between the queries and since.
CompletedIsTrue ==
  "parts" \in DOMAIN told =>
    \A p \in Parts : told.parts[p] = "completed" => mined[p] > 0 /\ Depth(mined[p]) >= Target

\* The run is complete at the height that was told or later, once its schedule counts (before, the
\* height is a guess), unless the user has children proved before their anchor or a part was sent
\* before and its answer lost.
EstimateHolds ==
  run.phase = "complete" /\ "estimate" \in DOMAIN told =>
    (told.settled /\ told.lost = {} /\ (told.kids = {} \/ ~Early) => told.estimate <= tip)

\* No two transactions are shown in one slot, none is shown behind the parts of the plan while
\* there are no more of them than parts, and each is shown for its own part when all have one.
SlotsAreRight(values, rows) ==
  LET slots == Slots(values, rows) IN
  /\ IsInjective(slots)
  /\ Len(rows) <= Len(values) => ToSet(slots) \subseteq 1 .. Len(values)
  /\ LET own == [i \in DOMAIN rows |-> rows[i].part] IN
     IsInjective(own) /\ ToSet(own) \subseteq 1 .. Len(values) => slots = own

\* No two outputs are shown for one target, and none for a target that it does not cover unless
\* the target is its own.
TargetsAreRight(values, outputs) ==
  LET targets == Targets(values, outputs) IN
  \A i \in DOMAIN targets : targets[i] # None =>
    /\ \A j \in DOMAIN targets : targets[j] = targets[i] => j = i
    /\ values[targets[i]] <= outputs[i].v \/ targets[i] = outputs[i].part

\* No stage is forecast before those it spends are complete, none that is to be sent or was sent
\* is forecast to be complete in the past, and a preparation that keeps to its plan is forecast as
\* it was planned.
ForecastIsRight(st, scanned) ==
  LET cast == Forecast(st, scanned)
      rnd == Round(st)
      OnPlan(s) == /\ st[s].mined = 0 /\ st[s].nb <= st[s].sched /\ scanned <= st[s].sched
                   /\ \A u \in DOMAIN st : rnd[u] < rnd[s] => st[u].sched + Target <= st[s].sched
  IN /\ \A s \in DOMAIN st : \A u \in st[s].from : cast[u].done <= cast[s].at
     /\ \A s \in DOMAIN st : st[s].mined = 0 /\ st[s].status \in {"pending", "broadcasted"} => scanned < cast[s].done
     /\ (\A s \in DOMAIN st : OnPlan(s)) => \A s \in DOMAIN st : cast[s].at = st[s].sched

\* A transaction has its confirmations only when that many blocks from its own are scanned.
CountIsScanned(ranges, blocks, h) ==
  ConfirmationCount(ranges, blocks, h) = Target =>
    \A b \in h .. h + Target - 1 : \E r \in ranges : r.from <= b /\ b < r.to
=============================================================================
