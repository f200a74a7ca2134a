---------------------------- MODULE MigrationRows ----------------------------
(***************************************************************************)
(* The durable state of one scheduled Orchard to Ironwood migration run,   *)
(* as wallet/sync/migration.rs keeps it in the wallet database, and the    *)
(* functions of that file which change it, each one an operator from a run *)
(* to a run, atomic for whoever composes them (MigrationRun,               *)
(* MigrationOutbox).  Each is one SQLite transaction, but for Reconcile    *)
(* outside of the recovery passes, whose statements (confirmations, phase, *)
(* completion) commit one by one; a crash between them leaves what the     *)
(* next reconciliation, which reads the same view, sets right.             *)
(*                                                                         *)
(* A run r is a record:                                                    *)
(*   phase    the phase column of the run;                                 *)
(*   row      for each part, its row in the pending table, whose status is *)
(*            "none" while no row exists; the transaction of a row is the  *)
(*            pair of the part and gen, the number of times the part was   *)
(*            built;                                                       *)
(*   kid      for each part, the scheduled height of its signed child;     *)
(*   kidExp   for each part, the expiry its child was signed with;         *)
(*   kids     whether the signed children are still stored;                *)
(*   origin   the height the signed schedule counts from;                  *)
(*   signed   the target height the children were built for;               *)
(*   rebased  whether the one-time rebase of that schedule was used up;    *)
(*   locked   whether the prepared notes are still locked for the run.     *)
(* A view v says, for each part, which build of it (gen, 0 if none) the    *)
(* scanned chain mines, and whether at trusted depth.                      *)
(***************************************************************************)
EXTENDS Naturals, FiniteSets

CONSTANTS Parts,     \* the denominations of the run, one transaction each
          MODULUS    \* ZIP 318 expiry bucket (34560 blocks in the code)

\* zip318_canonical_migration_expiry_height
Canonical(h) == (h - (h % MODULUS)) + 2 * MODULUS

Terminal == {"complete", "failed_terminal", "abandoned"}

Phase == Terminal \union {"ready_to_migrate", "broadcast_scheduled", "broadcasting",
                          "waiting_migration_confirmations", "failed_recoverable"}

Status == {"none", "scheduled", "broadcasted", "confirmed", "needs_resign"}

NoRow == [gen |-> 0, status |-> "none", sched |-> 0, exp |-> 0, target |-> 0, tried |-> FALSE]

With(r, s) == {p \in Parts : r.row[p].status = s}

HasRow(r) == Parts \ With(r, "none")

Unpromoted(r) == IF r.kids THEN With(r, "none") ELSE {}

SetPhase(r, ph) == [r EXCEPT !.phase = ph]

SetStatus(r, P, s) ==
  [r EXCEPT !.row = [p \in Parts |-> IF p \in P THEN [r.row[p] EXCEPT !.status = s] ELSE r.row[p]]]

\* local_denomination_chain_identity of the transaction of p's row
Mined(r, v, p) == r.row[p].gen > 0 /\ v[p].gen = r.row[p].gen

(***************************************************************************)
(* reconcile_run_confirmations: a scheduled or broadcasted part the wallet *)
(* has seen mined is confirmed, a confirmed part that left the chain goes  *)
(* back to scheduled at the target height it was built for, and the run is *)
(* complete when every planned part is confirmed at trusted depth.         *)
(***************************************************************************)
ConfirmRows(r, v) ==
  LET up == {p \in With(r, "scheduled") \union With(r, "broadcasted") : Mined(r, v, p)}
      gone == {p \in With(r, "confirmed") : ~Mined(r, v, p)}
  IN IF r.phase \in Terminal THEN r
     ELSE [r EXCEPT !.phase = IF gone = {} THEN @ ELSE "broadcast_scheduled",
                    !.row = [p \in Parts |->
                       IF p \in up THEN [r.row[p] EXCEPT !.status = "confirmed"]
                       ELSE IF p \in gone THEN [r.row[p] EXCEPT !.status = "scheduled", !.sched = r.row[p].target]
                       ELSE r.row[p]]]

\* faulty variant: one confirmation completes the run
FaultyCompleteRun(r, v) ==
  IF /\ With(r, "confirmed") = Parts /\ Unpromoted(r) = {} /\ r.phase \notin Terminal
  THEN [r EXCEPT !.phase = "complete", !.locked = FALSE, !.kids = FALSE]
  ELSE r

CompleteRun(r, v) ==
  IF /\ HasRow(r) = Parts
     /\ With(r, "confirmed") = Parts
     /\ Unpromoted(r) = {}
     /\ r.phase \notin Terminal
     /\ \A p \in Parts : Mined(r, v, p) /\ v[p].deep
  THEN [r EXCEPT !.phase = "complete", !.locked = FALSE, !.kids = FALSE]
  ELSE r

\* A run that waits for confirmations although parts are still to be sent goes back.
ResumeRun(r) ==
  LET settled == HasRow(r) # {} /\ With(r, "confirmed") = HasRow(r)
      unfinished == Unpromoted(r) # {} \/ (settled /\ HasRow(r) # Parts)
  IN IF r.phase = "waiting_migration_confirmations" /\ unfinished
     THEN SetPhase(r, "broadcast_scheduled") ELSE r

Reconcile(r, v) == CompleteRun(ResumeRun(ConfirmRows(r, v)), v)

\* pending_row_is_expired_for_resign; raw is the set of locally stored transactions
ExpiredParts(r, raw, h) ==
  {p \in HasRow(r) : /\ r.row[p].exp > 0 /\ r.row[p].exp <= h
                     /\ \/ r.row[p].status = "scheduled"
                        \/ r.row[p].status = "broadcasted" /\ <<p, r.row[p].gen>> \in raw}

NeedResign(r, P) == IF P = {} THEN r ELSE SetPhase(SetStatus(r, P, "needs_resign"), "ready_to_migrate")

\* mark_expired_pending_parts_for_resign, of a run that was reconciled first
ExpireRows(r, raw, h) == NeedResign(r, ExpiredParts(r, raw, h))
MarkExpired(r, v, raw, h) == ExpireRows(Reconcile(r, v), raw, h)

NoncanonicalDue(r, h) ==
  {p \in With(r, "scheduled") : r.row[p].sched <= h /\ r.row[p].exp # Canonical(h)}

\* mark_due_parts_with_noncanonical_broadcast_height_for_resign, likewise
NoncanonicalRows(r, h) == NeedResign(r, NoncanonicalDue(r, h))
MarkNoncanonical(r, v, h) == NoncanonicalRows(Reconcile(r, v), h)

\* faulty variant: a part is due only after its height
FaultyDueParts(r, v, h) ==
  LET due == {p \in With(r, "scheduled") : r.row[p].sched < h /\ ~Mined(r, v, p)}
  IN {p \in due : \A q \in due : r.row[p].sched <= r.row[q].sched}

\* due_pending_txs: the earliest scheduled parts that are due and not mined
DueParts(r, v, h) ==
  LET due == {p \in With(r, "scheduled") : r.row[p].sched <= h /\ ~Mined(r, v, p)}
  IN {p \in due : \A q \in due : r.row[p].sched <= r.row[q].sched}

\* due_pending_txs returns an error for a selected part whose expiry fits no schedule
DueFails(r, p) == r.row[p].exp # Canonical(r.row[p].sched)

\* mark_pending_broadcast_attempted
MarkAttempted(r, p) == [r EXCEPT !.row[p].tried = TRUE]

\* update_run_after_pending_broadcast
UpdateRunAfterBroadcast(r) ==
  SetPhase(r, IF With(r, "needs_resign") # {} THEN "ready_to_migrate"
              ELSE IF With(r, "scheduled") # {} \/ HasRow(r) # Parts \/ Unpromoted(r) # {}
              THEN "broadcast_scheduled"
              ELSE "waiting_migration_confirmations")

\* mark_pending_broadcasted: the row of the transaction, whatever its status
MarkBroadcasted(r, p, g) ==
  UpdateRunAfterBroadcast(IF r.row[p].gen = g /\ p \in HasRow(r)
                          THEN SetStatus(r, {p}, "broadcasted") ELSE r)

Overdue(r, h) == {p \in With(r, "scheduled") : r.row[p].sched <= h}

\* faulty variant: the redraw ignores the expiry bucket the part was signed for
FaultyReschedule(r, h, draw) ==
  [r EXCEPT !.row = [p \in Parts |->
     IF p \in Overdue(r, h) THEN [r.row[p] EXCEPT !.sched = draw[p]] ELSE r.row[p]]]

\* reschedule_overdue_pending_txs_with_options: a drawn height for every overdue part
Reschedule(r, h, draw) ==
  LET O == Overdue(r, h)
      off == {p \in O : Canonical(draw[p]) # r.row[p].exp}
  IN NeedResign([r EXCEPT !.row = [p \in Parts |->
                   IF p \in O \ off THEN [r.row[p] EXCEPT !.sched = draw[p]] ELSE r.row[p]]], off)

\* scheduled_inputs_spent_by_mined_transactions: another transaction spent the note
ExternallySpent(r, v) ==
  {p \in With(r, "scheduled") \union With(r, "broadcasted") \union With(r, "needs_resign") :
     v[p].gen # 0 /\ v[p].gen # r.row[p].gen}

\* retire_run_for_rebuild
Retire(r) == [r EXCEPT !.phase = "failed_terminal", !.locked = FALSE]

\* replace_resigned_pending_parts for one part, built again at target for height s;
\* the whole batch is checked and committed together
Replaceable(r, P, build) ==
  \A p \in P : r.row[p].status = "needs_resign" /\ build[p].exp = Canonical(build[p].sched)

ReplaceResigned(r, P, build) ==
  SetPhase([r EXCEPT !.row = [p \in Parts |->
              IF p \in P
              THEN [gen |-> r.row[p].gen + 1, status |-> "scheduled", sched |-> build[p].sched,
                    exp |-> build[p].exp, target |-> build[p].target, tried |-> FALSE]
              ELSE r.row[p]],
             !.kid = [p \in Parts |-> IF p \in P THEN build[p].sched ELSE r.kid[p]],
             !.kidExp = [p \in Parts |-> IF p \in P THEN build[p].exp ELSE r.kidExp[p]]],
           "broadcast_scheduled")

(***************************************************************************)
(* rebase_initial_signed_schedule_for_anchor_readiness_with_tx: before the *)
(* first promotion the whole signed schedule moves to the scanned height,  *)
(* once, unless a child would leave the expiry bucket it was signed for.   *)
(***************************************************************************)
RebaseInitialSchedule(r, scanned) ==
  LET new == IF scanned > r.origin THEN scanned ELSE r.origin
      moved == [p \in Parts |-> new + (r.kid[p] - r.origin)]
  IN IF r.rebased \/ HasRow(r) # {} THEN r
     ELSE IF new = r.origin THEN [r EXCEPT !.rebased = TRUE]
     ELSE IF \E p \in Parts : Canonical(moved[p]) # r.kidExp[p] THEN r
     ELSE [r EXCEPT !.kid = moved, !.origin = new, !.rebased = TRUE]

\* promote_signed_child_pczts_to_pending_txs and insert_pending_txs_with_tx for one part
Promotable(r, p) == r.kids /\ r.row[p].status = "none" /\ r.kidExp[p] = Canonical(r.kid[p])

PromoteRow(r, p) ==
  SetPhase([r EXCEPT !.row[p] = [gen |-> 1, status |-> "scheduled", sched |-> r.kid[p], exp |-> r.kidExp[p],
                                 target |-> r.signed, tried |-> FALSE]],
           "broadcast_scheduled")

Promote(r, p, scanned) == PromoteRow(RebaseInitialSchedule(r, scanned), p)

\* scheduled_migration_stop_candidates that migration_stop_candidate_requires_reconciliation keeps
StopCandidates(r, raw) ==
  {p \in HasRow(r) : \/ r.row[p].status = "scheduled" /\ r.row[p].tried
                     \/ r.row[p].status = "broadcasted" /\ <<p, r.row[p].gen>> \notin raw}

\* abandon_run: unsubmitted rows and children are deleted and the notes released
AbandonRun(r) ==
  [r EXCEPT !.phase = "abandoned", !.kids = FALSE, !.locked = FALSE,
            !.row = [p \in Parts |-> IF r.row[p].status \in {"scheduled", "needs_resign"}
                                     THEN NoRow ELSE r.row[p]]]
=============================================================================
