--------------------------- MODULE MigrationOutbox ---------------------------
(***************************************************************************)
(* Delivery of a scheduled migration by the native outbox of the phone.    *)
(* The wallet database holds the run (MigrationRows); its signed parts are *)
(* exported and staged into an outbox the app keeps in a file of its own,  *)
(* from which a runner, started in the background or by the app, sends     *)
(* them without opening the database.  Each result is left as a receipt    *)
(* that the app applies to the database later and then acknowledges.       *)
(*                                                                         *)
(* The outbox is one batch: for each part an item with the build it holds, *)
(* and the receipts in the order they were written.  Every change of it is *)
(* one write of the file.  The app and the runner are one process, so a    *)
(* crash takes both and the gate between them.  A watch for the next proof *)
(* and notifications do not touch delivery and are left out.               *)
(***************************************************************************)
EXTENDS MigrationRows, Sequences, SequencesExt

CONSTANTS
    MaxHeight,     \* bound: height of the chain
    MaxGen,        \* bound: builds of a part
    MaxFaults,     \* bound: crashes and lost answers, 0 for none
    MaxSessions,   \* bound: sessions of the app, 0 for no bound
    MaxDelay,      \* timingMaxBlocks
    AnchorHeight,  \* the height from which every child can be proved
    Stops,         \* whether the user may stop the run
    CrashInStop    \* whether the app may die between the two halves of a stop

VARIABLES
    run, raw,        \* the database: the run, and the transactions it has stored
    view, seen,      \* what the wallet has scanned, and up to which height
    tip, mem, mined, \* the chain: its height, the mempool, the build mined for each part
    sent,            \* transactions that ever reached the server
    item, armed, receipts,   \* the outbox
    worker,          \* the runner, with the item it chose: [pc, h, p, gen, exp, answer]
    app,             \* the app's session: [pc, todo, done, failed, batch, then]
    faults, sessions

db == <<run, raw, view, seen>>
net == <<tip, mem, mined, sent>>
box == <<item, armed, receipts>>
bounds == <<faults, sessions>>
vars == <<run, raw, view, seen, tip, mem, mined, sent, item, armed, receipts, worker, app, faults, sessions>>

NoItem == [gen |-> 0, st |-> "none", sched |-> 0, exp |-> 0, tries |-> 0]
NoWork == [pc |-> "idle", h |-> 0, p |-> 0, gen |-> 0, exp |-> 0, answer |-> "none"]
NoSession == [pc |-> "idle", todo |-> <<>>, done |-> {}, failed |-> FALSE, batch |-> {}, then |-> "none"]

Tx(p, g) == <<p, g>>

\* Parts are promoted by the first session that finds their anchor ready.
Init ==
    /\ \E s \in {f \in [Parts -> 1 .. 2] : \A p, q \in Parts : p < q => f[p] <= f[q]} :
         run = [phase |-> "ready_to_migrate", row |-> [p \in Parts |-> NoRow],
                kid |-> s, kidExp |-> [p \in Parts |-> Canonical(s[p])], kids |-> TRUE,
                origin |-> 0, signed |-> 0, rebased |-> TRUE, locked |-> TRUE]
    /\ raw = {} /\ view = [p \in Parts |-> [gen |-> 0, deep |-> FALSE]] /\ seen = 0
    /\ tip = 0 /\ mem = {} /\ mined = [p \in Parts |-> 0] /\ sent = {}
    /\ item = [p \in Parts |-> NoItem] /\ armed = FALSE /\ receipts = <<>>
    /\ worker = NoWork /\ app = NoSession /\ faults = 0 /\ sessions = 0

TypeOK ==
    /\ run.phase \in Phase /\ run.row \in [Parts -> [gen : 0 .. MaxGen, status : Status, sched : Nat,
                                                      exp : Nat, target : Nat, tried : BOOLEAN]]
    /\ seen \in 0 .. tip /\ tip \in 0 .. MaxHeight
    /\ raw \subseteq sent
    /\ \A p \in Parts : item[p].gen \in 0 .. run.row[p].gen \/ run.phase = "abandoned"
    /\ armed \in BOOLEAN /\ worker.pc \in {"idle", "select", "submit", "answer"}

-----------------------------------------------------------------------------
(* The chain and the scan *)

Mine ==
    /\ tip < MaxHeight
    /\ \E B \in SUBSET {t \in mem : tip + 1 <= t.exp} :
         /\ tip' = tip + 1
         /\ mined' = [p \in Parts |-> IF \E t \in B : t.p = p THEN (CHOOSE t \in B : t.p = p).gen ELSE mined[p]]
         /\ mem' = {t \in mem \ B : t.exp > tip + 1}
    /\ UNCHANGED <<db, sent, box, worker, app, bounds>>

\* The sync reads the chain and reconciles the run with it.
Scan ==
    /\ seen # tip \/ \E p \in Parts : view[p].gen # mined[p]
    /\ seen' = tip /\ view' = [p \in Parts |-> [gen |-> mined[p], deep |-> TRUE]]
    /\ run' = Reconcile(run, view')
    /\ UNCHANGED <<raw, net, box, worker, app, bounds>>

-----------------------------------------------------------------------------
(* The runner *)

\* The gate admits one run at a time and none during a stop.
Paused == app.pc # "idle" /\ app.then \in {"stop", "revoke"}

\* faulty variant: an interrupted submission stays as it is
FaultyBeginRun ==
    /\ worker.pc = "idle" /\ ~Paused /\ \E p \in Parts : item[p].st \in {"armed", "submitting"}
    /\ item' = item
    /\ worker' = [NoWork EXCEPT !.pc = "select", !.h = tip]
    /\ UNCHANGED <<db, net, armed, receipts, app, bounds>>

\* recoverInterruptedSubmissions, then the height of the chain is asked for.
BeginRun ==
    /\ worker.pc = "idle" /\ ~Paused /\ \E p \in Parts : item[p].st \in {"armed", "submitting"}
    /\ item' = [p \in Parts |-> IF item[p].st = "submitting"
                                THEN [item[p] EXCEPT !.st = "armed", !.tries = 1] ELSE item[p]]
    /\ worker' = [NoWork EXCEPT !.pc = "select", !.h = tip]
    /\ UNCHANGED <<db, net, armed, receipts, app, bounds>>

Receipt(p, kind, h, upd) == [p |-> p, gen |-> item[p].gen, kind |-> kind, h |-> h, upd |-> upd]

\* expireItems and markDueItemsNeedingResign: what an item that is armed becomes.
Aged(p, h) ==
    IF item[p].st = "armed" /\ h >= item[p].exp THEN "expired"
    ELSE IF item[p].st = "armed" /\ item[p].sched <= h /\ item[p].exp # Canonical(h) THEN "needsResign"
    ELSE item[p].st

AgedReceipts(h) ==
    LET old(k) == SetToSeq({p \in Parts : item[p].st = "armed" /\ Aged(p, h) = k})
        r(k) == [i \in DOMAIN old(k) |-> Receipt(old(k)[i], k, h, <<>>)]
    IN r("expired") \o r("needsResign")

\* selectDue: the item that is due first.
Due(h) ==
    LET due == {p \in Parts : Aged(p, h) = "armed" /\ item[p].sched <= h}
    IN {p \in due : \A q \in due : item[p].sched <= item[q].sched}

Peers(p, h) == {q \in Parts \ {p} : Aged(q, h) = "armed" /\ item[q].sched <= h}

\* validateReschedulingAfterAcceptance: every overdue peer must still find a
\* height of its own before its expiry.
Reschedulable(p, h) == \A q \in Peers(p, h) :
    h + Cardinality({o \in Peers(p, h) : item[o].exp <= item[q].exp}) < item[q].exp

\* One write of the file: items age, one that is due is chosen and marked.
\* A schedule that cannot be kept undoes the write and asks for the user.
Select ==
    /\ worker.pc = "select"
    /\ LET h == worker.h
           ages == \E p \in Parts : Aged(p, h) # item[p].st
           live == armed /\ ~ages
       IN \/ /\ live /\ Due(h) # {}
             /\ \E p \in Due(h) :
                  IF Reschedulable(p, h)
                  THEN /\ item' = [item EXCEPT ![p].st = "submitting"]
                       /\ worker' = [worker EXCEPT !.pc = "submit", !.p = p, !.gen = item[p].gen, !.exp = item[p].exp]
                  ELSE item' = item /\ worker' = NoWork
             /\ UNCHANGED <<armed, receipts>>
          \/ /\ ~live \/ Due(h) = {}
             /\ item' = [p \in Parts |-> [item[p] EXCEPT !.st = Aged(p, h)]]
             /\ receipts' = receipts \o AgedReceipts(h)
             /\ armed' = (armed /\ ~ages) /\ worker' = NoWork
    /\ UNCHANGED <<db, net, app, bounds>>

Fault == faults < MaxFaults /\ faults' = faults + 1

\* The item is still there: an app session may have emptied the outbox since.
InHand == item[worker.p].st = "submitting" /\ item[worker.p].gen = worker.gen

\* The task runs out of time before the transaction is handed over: not an attempt.
CancelBeforeSubmission ==
    /\ worker.pc = "submit" /\ Fault
    /\ item' = IF InHand THEN [item EXCEPT ![worker.p].st = "armed"] ELSE item
    /\ worker' = NoWork
    /\ UNCHANGED <<db, net, armed, receipts, app, sessions>>

\* zcash_lightwalletd_send_transaction, as the server takes it.
Submit ==
    /\ worker.pc = "submit"
    /\ LET p == worker.p
           t == [p |-> p, gen |-> worker.gen, exp |-> worker.exp]
           known == t \in mem \/ mined[p] = t.gen
           takes == ~known /\ tip + 1 <= t.exp /\ mined[p] = 0 /\ \A u \in mem : u.p # p
       IN /\ mem' = IF takes THEN mem \union {t} ELSE mem
          /\ sent' = IF takes THEN sent \union {Tx(p, t.gen)} ELSE sent
          /\ worker' = [worker EXCEPT !.pc = "answer", !.answer = IF takes \/ known THEN "accepted" ELSE "rejected"]
    /\ UNCHANGED <<db, tip, mined, box, app, bounds>>

\* The call fails on its way, or its answer is lost (recordUncertain).
AnswerLost ==
    /\ worker.pc \in {"submit", "answer"} /\ Fault
    /\ item' = IF InHand THEN [item EXCEPT ![worker.p].st = "armed", ![worker.p].tries = 1] ELSE item
    /\ worker' = NoWork
    /\ UNCHANGED <<db, net, armed, receipts, app, sessions>>

\* rescheduleOverdueItems: new heights for the overdue peers, in the order of
\* their expiry, each later than the one before and early enough for the rest.
Orders(S) == {o \in [1 .. Cardinality(S) -> S] :
                /\ \A i, j \in DOMAIN o : i # j => o[i] # o[j]
                /\ \A i, j \in DOMAIN o : i < j => item[o[i]].exp <= item[o[j]].exp}

Draws(p, h) ==
    UNION {{[i \in DOMAIN o |-> [p |-> o[i], gen |-> item[o[i]].gen, sched |-> d[i]]] :
              d \in {e \in [DOMAIN o -> h + 1 .. h + MaxDelay * Cardinality(Parts)] :
                       \A i \in DOMAIN o :
                          LET before == IF i = 1 THEN h ELSE e[i - 1]
                          IN e[i] > before /\ e[i] <= before + MaxDelay
                             /\ e[i] < item[o[i]].exp - (Len(o) - i)}} : o \in Orders(Peers(p, h))}

\* faulty variant: the peers keep their heights
FaultyRecordAccepted ==
    /\ worker.pc = "answer" /\ worker.answer = "accepted" /\ InHand
    /\ item' = [item EXCEPT ![worker.p].st = "accepted"]
    /\ \E u \in Draws(worker.p, worker.h) : receipts' = Append(receipts, Receipt(worker.p, "accepted", worker.h, u))
    /\ worker' = NoWork
    /\ UNCHANGED <<db, net, armed, app, bounds>>

RecordAccepted ==
    /\ worker.pc = "answer" /\ worker.answer = "accepted" /\ InHand
    /\ \E u \in Draws(worker.p, worker.h) :
         /\ item' = [q \in Parts |->
              IF q = worker.p THEN [item[q] EXCEPT !.st = "accepted"]
              ELSE IF \E i \in DOMAIN u : u[i].p = q
              THEN [item[q] EXCEPT !.sched = u[CHOOSE i \in DOMAIN u : u[i].p = q].sched]
              ELSE item[q]]
         /\ receipts' = Append(receipts, Receipt(worker.p, "accepted", worker.h, u))
    /\ worker' = NoWork
    /\ UNCHANGED <<db, net, armed, app, bounds>>

RecordRejected ==
    /\ worker.pc = "answer" /\ worker.answer = "rejected" /\ InHand
    /\ item' = [item EXCEPT ![worker.p].st = "rejected"] /\ armed' = FALSE
    /\ receipts' = Append(receipts, Receipt(worker.p, "rejected", worker.h, <<>>))
    /\ worker' = NoWork
    /\ UNCHANGED <<db, net, app, bounds>>

\* itemNotFound: the answer cannot be recorded.
RecordNothing ==
    /\ worker.pc = "answer" /\ ~InHand /\ worker' = NoWork
    /\ UNCHANGED <<db, net, box, app, bounds>>

-----------------------------------------------------------------------------
(* Receipts, as the database takes them: [ok, run, raw] *)

Refused(r) == [ok |-> FALSE, run |-> r, raw |-> raw]
Done(r) == [ok |-> TRUE, run |-> r, raw |-> raw]

\* faulty variant: the part's row, whichever transaction it holds now
FaultyHolds(r, p, g) == p \in HasRow(r)

\* migration_outbox_tx_state: the run still has a row with this transaction.
Holds(r, p, g) == p \in HasRow(r) /\ r.row[p].gen = g

\* Rows an acceptance at height h must move: exactly those that are overdue.
MustMove(r, p, h) ==
    {Tx(q, r.row[q].gen) : q \in {o \in With(r, "scheduled") \ {p} : r.row[o].sched <= h /\ r.row[o].exp > h}}

Increasing(c) ==
    \A i \in DOMAIN c.upd :
       LET before == IF i = 1 THEN c.h ELSE c.upd[i - 1].sched
       IN c.upd[i].sched > before /\ c.upd[i].sched <= before + MaxDelay

\* A peer that is still scheduled moves, or needs a new signature where its
\* expiry no longer fits; any other must already stand where the update says.
CanMove(r, u) ==
    /\ Holds(r, u.p, u.gen)
    /\ r.row[u.p].status = "scheduled" \/ r.row[u.p].sched = u.sched

Move(r, upd) ==
    LET moved == {upd[i] : i \in {j \in DOMAIN upd : r.row[upd[j].p].status = "scheduled"}}
        off == {u.p : u \in {x \in moved : Canonical(x.sched) # r.row[x.p].exp}}
    IN NeedResign([r EXCEPT !.row = [p \in Parts |->
                     IF p \notin off /\ \E u \in moved : u.p = p
                     THEN [r.row[p] EXCEPT !.sched = (CHOOSE u \in moved : u.p = p).sched] ELSE r.row[p]]], off)

Delivered(r, p, status) ==
    IF status \in {"scheduled", "needs_resign"}
    THEN UpdateRunAfterBroadcast(SetStatus(r, {p}, "broadcasted")) ELSE r

\* apply_accepted_migration_outbox_receipt.
ApplyAccepted(r, c) ==
    LET status == r.row[c.p].status
    IN IF \/ ~Holds(r, c.p, c.gen) \/ ~Increasing(c)
          \/ status = "scheduled" /\ MustMove(r, c.p, c.h) # {Tx(u.p, u.gen) : u \in ToSet(c.upd)}
          \/ \E i \in DOMAIN c.upd : ~CanMove(r, c.upd[i])
       THEN [ok |-> FALSE, run |-> r]
       ELSE [ok |-> TRUE, run |-> Delivered(Move(r, c.upd), c.p, status)]

Storing(o, t) == [ok |-> o.ok, run |-> o.run, raw |-> raw \union {t}]

\* reconcile_orchard_migration_outbox_receipt, "accepted": the transaction is
\* stored first, and stays stored when the run then refuses the receipt.
OnAccepted(r, c) ==
    IF ~Holds(r, c.p, c.gen) \/ r.phase \in {"failed_terminal", "abandoned"} THEN Refused(r)
    ELSE Storing(ApplyAccepted(r, c), Tx(c.p, c.gen))

OnRejected(r, c) ==
    IF ~Holds(r, c.p, c.gen) THEN Refused(r)
    ELSE IF r.phase = "failed_terminal" THEN Done(r) ELSE Done(Retire(r))

OnExpired(r, c) ==
    LET status == r.row[c.p].status
        expire(r1) == [ok |-> ExpiredParts(r1, raw, c.h) # {}, run |-> ExpireRows(r1, raw, c.h), raw |-> raw]
    IN IF ~Holds(r, c.p, c.gen) \/ r.row[c.p].exp > c.h THEN Refused(r)
       ELSE IF status = "needs_resign" THEN Done(r)
       ELSE IF status \notin {"scheduled", "broadcasted"} THEN Refused(r)
       ELSE expire(Reconcile(r, view))

OnNeedsResign(r, c) ==
    LET status == r.row[c.p].status
        resign(r1) == [ok |-> NoncanonicalDue(r1, c.h) # {}, run |-> NoncanonicalRows(r1, c.h), raw |-> raw]
    IN IF ~Holds(r, c.p, c.gen) \/ r.row[c.p].exp = Canonical(c.h) THEN Refused(r)
       ELSE IF status = "needs_resign" THEN Done(r)
       ELSE IF status # "scheduled" THEN Refused(r)
       ELSE resign(Reconcile(r, view))

Outcome(r, c) ==
    CASE c.kind = "accepted" -> OnAccepted(r, c)
      [] c.kind = "rejected" -> OnRejected(r, c)
      [] c.kind = "expired" -> OnExpired(r, c)
      [] c.kind = "needsResign" -> OnNeedsResign(r, c)

-----------------------------------------------------------------------------
(* A session of the app *)

Reads(then) == [NoSession EXCEPT !.pc = "apply", !.todo = receipts, !.then = then]

Session == MaxSessions = 0 \/ sessions < MaxSessions
Count == sessions' = IF MaxSessions = 0 THEN sessions ELSE sessions + 1

Active == run.phase \notin Terminal

Wake ==
    /\ app.pc = "idle" /\ Active /\ Session /\ Count
    /\ app' = Reads("operate")
    /\ UNCHANGED <<db, net, box, worker, faults>>

ApplyReceipt ==
    /\ app.pc = "apply" /\ app.todo # <<>>
    /\ \E o \in {Outcome(run, Head(app.todo))} :
          /\ run' = o.run /\ raw' = o.raw
          /\ app' = [app EXCEPT !.todo = Tail(@), !.done = IF o.ok THEN @ \union {Head(app.todo)} ELSE @,
                                !.failed = @ \/ ~o.ok]
    /\ UNCHANGED <<view, seen, net, box, worker, bounds>>

\* acknowledgeReceipts: acknowledged items leave, and a batch with a terminal
\* receipt leaves as a whole once none of its receipts is left.
Acknowledge ==
    /\ app.pc = "apply" /\ app.todo = <<>>
    /\ LET left == SelectSeq(receipts, LAMBDA c : c \notin app.done)
           ends == left = <<>> /\ \E c \in app.done : c.kind # "accepted"
       IN /\ receipts' = left
          /\ item' = [p \in Parts |->
               IF ends \/ \E c \in app.done : c.p = p /\ c.gen = item[p].gen THEN NoItem ELSE item[p]]
          /\ armed' = (armed /\ ~ends)
    /\ app' = IF app.then = "end" \/ (app.then = "stop" /\ app.failed) THEN NoSession
              ELSE [NoSession EXCEPT !.pc = app.then, !.then = app.then]
    /\ UNCHANGED <<db, net, worker, bounds>>

\* The operation of the session: a part that needs it is built again, if the
\* user signs (rebuild_expired_software_migration_parts).
Operate ==
    /\ app.pc = "operate"
    /\ LET P == With(run, "needs_resign")
       IN \/ run' = run
          \/ /\ P # {} /\ Active /\ \A p \in P : run.row[p].gen < MaxGen
             /\ \E s \in [P -> seen + 1 .. seen + 2] :
                  run' = ReplaceResigned(run, P, [p \in P |->
                           [sched |-> s[p], exp |-> Canonical(s[p]), target |-> seen]])
    /\ app' = Reads("prepare")
    /\ UNCHANGED <<raw, view, seen, net, box, worker, bounds>>

\* prepare_orchard_migration_outbox: its transactions and proofs are one step.
Prepare ==
    /\ app.pc = "prepare"
    /\ raw' = raw \union (IF Active THEN {Tx(p, run.row[p].gen) : p \in With(run, "broadcasted")} ELSE {})
    /\ IF ~Active THEN run' = run
       ELSE IF ExternallySpent(run, view) # {} THEN run' = Retire(run)
       ELSE \E r \in {Reconcile(run, view)} :
              LET ready == {p \in Parts : Promotable(r, p)}
              IN IF ExpiredParts(r, raw', seen) # {} \/ ready = {} THEN run' = ExpireRows(r, raw', seen)
                 ELSE \E P \in SUBSET ready :
                        /\ seen >= AnchorHeight => P = ready
                        /\ run' = [r EXCEPT !.phase = IF P = {} THEN @ ELSE "broadcast_scheduled",
                                  !.row = [p \in Parts |-> IF p \in P THEN PromoteRow(r, p).row[p] ELSE r.row[p]]]
    /\ app' = [app EXCEPT !.pc = "export"]
    /\ UNCHANGED <<view, seen, net, box, worker, bounds>>

\* export_scheduled_migration_outbox.
Export ==
    /\ app.pc = "export"
    /\ run' = IF Active THEN MarkNoncanonical(run, view, seen) ELSE run
    /\ LET B == {[p |-> p, row |-> run'.row[p]] : p \in With(run', "scheduled")}
       IN app' = IF run'.phase \notin Terminal /\ B # {}
                     /\ \A b \in B : b.row.exp = Canonical(b.row.sched) /\ b.row.sched < b.row.exp
                 THEN [app EXCEPT !.pc = "stage", !.batch = B] ELSE NoSession
    /\ UNCHANGED <<raw, view, seen, net, box, worker, bounds>>

Conflict == \E b \in app.batch : item[b.p].st # "none" /\ item[b.p].gen # b.row.gen

\* _canDiscardStaleNativeOutboxBatch, and discardBatch's own guard.
Discardable ==
    /\ With(run, "broadcasted") = {} /\ With(run, "confirmed") = {}
    /\ \A p \in HasRow(run) : run.row[p].status = "scheduled"
    /\ \A p \in Parts : item[p].st # "submitting" /\ item[p].tries = 0
    /\ receipts = <<>>

\* stage: items the batch already holds stay as they are, new ones are added.
Stage ==
    /\ app.pc = "stage"
    /\ IF Conflict /\ ~Discardable
       THEN app' = NoSession /\ UNCHANGED <<item, armed>>
       ELSE LET kept == IF Conflict THEN [p \in Parts |-> NoItem] ELSE item
            IN /\ item' = [p \in Parts |->
                    IF kept[p].st = "none" /\ \E b \in app.batch : b.p = p
                    THEN LET b == CHOOSE x \in app.batch : x.p = p
                         IN [gen |-> b.row.gen, st |-> "staged", sched |-> b.row.sched, exp |-> b.row.exp, tries |-> 0]
                    ELSE kept[p]]
               /\ armed' = (armed /\ ~Conflict)
               /\ app' = [app EXCEPT !.pc = "arm"]
    /\ UNCHANGED <<db, net, receipts, worker, bounds>>

\* armBatch; the batch may have been acknowledged away in the meantime.
Arm ==
    /\ app.pc = "arm"
    /\ IF \A b \in app.batch : item[b.p].gen = b.row.gen /\ item[b.p].st # "none"
       THEN /\ armed' = TRUE
            /\ item' = [p \in Parts |-> IF item[p].st = "staged" THEN [item[p] EXCEPT !.st = "armed"] ELSE item[p]]
            /\ app' = [app EXCEPT !.pc = "run"]
       ELSE app' = NoSession /\ UNCHANGED <<item, armed>>
    /\ UNCHANGED <<db, net, receipts, worker, bounds>>

\* runMigrationOutboxOnceNow: the runner is started and waited for, or the gate
\* is taken by a run of the background and the session goes on without.
AfterRun ==
    /\ app.pc = "run"
    /\ app' = Reads("end")
    /\ UNCHANGED <<db, net, box, worker, bounds>>

-----------------------------------------------------------------------------
(* Stopping *)

\* The gate is closed first and the runner waited for.
BeginStop ==
    /\ Stops /\ app.pc = "idle" /\ worker.pc = "idle" /\ Active /\ Session /\ Count
    /\ app' = Reads("stop")
    /\ UNCHANGED <<db, net, box, worker, faults>>

\* listAttemptedTxids.
NativeAttempted == {Tx(p, item[p].gen) : p \in {q \in Parts :
                       item[q].tries > 0 \/ item[q].st \in {"submitting", "accepted", "rejected"}}}


\* migration_stop_candidate_requires_reconciliation.
ToReconcile == StopCandidates(run, raw) \union
    {p \in With(run, "scheduled") : Tx(p, run.row[p].gen) \in NativeAttempted}

\* reconcile_scheduled_migration_txs_before_abandon: what the server has is
\* stored and marked; what it does not have must be past its expiry.  With the
\* gate closed all of it is one step here; MigrationRun!StopReconcile splits it.
OnServer(p) == mined[p] = run.row[p].gen \/ \E t \in mem : t.p = p /\ t.gen = run.row[p].gen

StopRun ==
    /\ app.pc = "stop"
    /\ LET found == {p \in ToReconcile : OnServer(p)}
           waits == {p \in ToReconcile \ found : tip < run.row[p].exp}
           marked == IF found = {} THEN run ELSE UpdateRunAfterBroadcast(SetStatus(run, found, "broadcasted"))
       IN /\ raw' = raw \union {Tx(p, run.row[p].gen) : p \in found}
          /\ run' = IF waits = {} THEN AbandonRun(marked) ELSE marked
          /\ app' = IF waits = {} THEN [app EXCEPT !.pc = "revoke", !.then = "revoke"] ELSE NoSession
    /\ UNCHANGED <<view, seen, net, box, worker, bounds>>

\* The outbox is emptied after the run was abandoned.
Revoke ==
    /\ app.pc = "revoke"
    /\ item' = [p \in Parts |-> NoItem] /\ armed' = FALSE /\ receipts' = <<>>
    /\ app' = NoSession
    /\ UNCHANGED <<db, net, worker, bounds>>

\* The app dies with whatever it and the runner were doing.
Crash ==
    /\ app.pc # "idle" \/ worker.pc # "idle"
    /\ Fault
    /\ app.pc = "revoke" => CrashInStop
    /\ app' = NoSession /\ worker' = NoWork
    /\ UNCHANGED <<db, net, box, sessions>>

-----------------------------------------------------------------------------

Runner == BeginRun \/ Select \/ Submit \/ RecordAccepted \/ RecordRejected \/ RecordNothing
AppStep ==
    \/ Wake \/ ApplyReceipt \/ Acknowledge \/ Operate \/ Prepare \/ Export \/ Stage \/ Arm \/ AfterRun
    \/ StopRun \/ Revoke

Next == Runner \/ AppStep \/ Mine \/ Scan \/ CancelBeforeSubmission \/ AnswerLost \/ BeginStop \/ Crash

\* The system wakes the runner, the user opens the app and blocks are mined,
\* again and again; faults and a stop may or may not come.
Spec == Init /\ [][Next]_vars
FairSpec == Spec /\ WF_vars(Runner) /\ WF_vars(AppStep) /\ WF_vars(Mine) /\ WF_vars(Scan)

-----------------------------------------------------------------------------

\* A part the database calls broadcast was really handed to the server: a
\* receipt never marks a build other than the one that was sent.
BroadcastedWasSent == \A p \in With(run, "broadcasted") : Tx(p, run.row[p].gen) \in sent

\* With nothing left to apply, the database and the outbox agree on when a
\* part will be sent, however receipts were interrupted and applied again.
SchedulesAgree ==
    app.pc = "idle" /\ worker.pc = "idle" /\ receipts = <<>> =>
      \A p \in With(run, "scheduled") :
         item[p].st = "armed" /\ item[p].gen = run.row[p].gen => item[p].sched = run.row[p].sched

\* A stop gives up no transaction of a row that is scheduled or broadcasted while it is in the
\* mempool and the wallet does not have it, whoever sent it and whether the answer came or not:
\* the notes are released only with the spend stored.  (A row that was sent back for signing is
\* deleted without a question, although an attempt of it may be in the mempool, and so may the
\* build that such a row has replaced: abandon_run asks about neither.)
StopForgetsNothingStep ==
    (run.phase \notin Terminal /\ run'.phase = "abandoned") =>
      \A t \in mem : Holds(run, t.p, t.gen) /\ run.row[t.p].status \in {"scheduled", "broadcasted"}
                     => Tx(t.p, t.gen) \in raw'
StopForgetsNothing == [][StopForgetsNothingStep]_vars

\* A part that is in the network and still scheduled is one the outbox knows it
\* tried, or is trying: only then is it safe to discard what was never tried.
AttemptsAreRemembered ==
    app.pc = "idle" /\ worker.pc = "idle" =>
      \A t \in mem : Holds(run, t.p, t.gen) /\ run.row[t.p].status = "scheduled" => Tx(t.p, t.gen) \in NativeAttempted

\* A transaction of an abandoned run is not handed to the server any more.
AbandonedIsQuietStep == run.phase = "abandoned" => sent' = sent
AbandonedIsQuiet == [][AbandonedIsQuietStep]_vars

\* A receipt for a transaction the wallet has seen mined can be applied.
ConfirmedReceiptsApply ==
    app.pc = "idle" /\ run.phase \notin Terminal =>
      \A i \in DOMAIN receipts :
         LET c == receipts[i]
         IN c.kind = "accepted" /\ Holds(run, c.p, c.gen) /\ run.row[c.p].status = "confirmed" => Outcome(run, c).ok

\* Every part that falls due within the bound is handed to the server in the
\* end, whatever was lost and whichever receipts are refused, or the run is over.
AllSent ==
    \/ run.phase \in Terminal
    \/ \A p \in Parts : Tx(p, run.row[p].gen) \in sent \/ item[p].sched > MaxHeight
EveryPartIsSent == <>[]AllSent
=============================================================================
