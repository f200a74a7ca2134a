----------------------------- MODULE MigrationRun -----------------------------
(***************************************************************************)
(* The app drives one migration run: migrate_orchard_to_ironwood and       *)
(* broadcast_due_scheduled_migration_txs of wallet/sync/send.rs, stopped   *)
(* by abandon_orchard_migration or retired by                              *)
(* retire_unbroadcast_orchard_migration.  All four hold the                *)
(* ActiveIronwoodMigration guard, so one of them runs at a time (pc # idle *)
(* is the guard); the guard is in memory and a crash at any step drops it. *)
(* The sync engine holds no guard: it learns the tip, scans and reconciles *)
(* the run between any two steps of the app.  A transaction is a pair of a *)
(* part and the number of its build; what was sent may stay on the wire    *)
(* after the sender gave up, and a block may leave the chain until it is   *)
(* deep enough to be trusted.                                              *)
(***************************************************************************)
EXTENDS MigrationRows

CONSTANTS MaxTip,       \* bound: highest chain tip
          MaxGen,       \* bound: builds of one part
          Delays,       \* the delays the schedule may draw, in blocks
          Signed,       \* signed schedule height of each part
          Reorgs,       \* whether shallow blocks may be reorganised away
          Foreign,      \* whether the notes may be spent from outside the run
          Outsider,     \* the number of no build: a transaction of another wallet
          Stops,        \* whether the user may stop the run
          Crashes,      \* whether the process may die
          Safety        \* UNBROADCAST_MIGRATION_RECOVERY_SAFETY_BLOCKS

ASSUME RunAssumption ==
  /\ MODULUS \in Nat \ {0} /\ MaxTip \in Nat /\ MaxGen \in Nat \ {0}
  /\ Delays \subseteq Nat /\ Signed \in [Parts -> Nat]
  /\ Outsider \in Nat /\ Outsider > MaxGen

VARIABLES run,     \* the run's rows in the database, see MigrationRows
          raw,     \* transactions whose raw bytes the wallet has stored
          pc,      \* the step of the app's operation, "idle" when none runs
          flow,    \* "migrate" (foreground resume) or "due" (broadcast only)
          cur,     \* the transaction being broadcast
          dtip,    \* chain_tip_height as the operation read it
          todo,    \* stop candidates still to reconcile; promoted parts
          known,   \* the chain tip the wallet knows
          seen,    \* the height the wallet has scanned
          view,    \* what the scanned chain mines
         met,     \* history: the builds a scan has ever found mined
          tip, chain, pool, wire  \* the network

app == <<pc, flow, cur, dtip, todo>>
db == <<run, raw>>
sync == <<known, seen, view, met>>
net == <<tip, chain, pool, wire>>
vars == <<app, db, sync, net>>

Unmined == [gen |-> 0, exp |-> 0, deep |-> FALSE]
NoTx == <<>>
Tx(p) == <<p, run.row[p].gen>>
Exp(t) == run.row[t[1]].exp

Init ==
  /\ run = [phase |-> "ready_to_migrate", row |-> [p \in Parts |-> NoRow], kid |-> Signed,
            kidExp |-> [p \in Parts |-> Canonical(Signed[p])], kids |-> TRUE,
            origin |-> 0, signed |-> 0, rebased |-> FALSE, locked |-> TRUE]
  /\ raw = {} /\ pc = "idle" /\ flow = "due" /\ cur = NoTx /\ dtip = 0 /\ todo = {}
  /\ known = 0 /\ seen = 0 /\ view = [p \in Parts |-> Unmined] /\ met = {}
  /\ tip = 0 /\ chain = [p \in Parts |-> Unmined] /\ pool = {} /\ wire = {}

Goto(l) == pc' = l /\ UNCHANGED <<flow, cur, dtip, todo>>

\* the operation returns, or an error of one of its calls ends it, and the guard is dropped
Return == pc' = "idle" /\ flow' = "due" /\ cur' = NoTx /\ dtip' = 0 /\ todo' = {}

-----------------------------------------------------------------------------
(* The app *)

\* faulty variant: a retired run is resumed
FaultyBegin(f) ==
  /\ pc = "idle" /\ f = "due" => HasRow(run) # {}
  /\ pc' = "store" /\ flow' = f /\ dtip' = known
  /\ UNCHANGED <<cur, todo, db, sync, net>>

\* migrate_orchard_to_ironwood and broadcast_due_scheduled_orchard_migration take the
\* guard for an active run and read the known tip once
Begin(f) ==
  /\ pc = "idle" /\ run.phase \notin Terminal
  /\ f = "due" => HasRow(run) # {}
  /\ pc' = "store" /\ flow' = f /\ dtip' = known
  /\ UNCHANGED <<cur, todo, db, sync, net>>

\* retry_store_broadcasted_migration_txs_missing_local, reconcile, and the gap check
Missing(r, s) == {p \in With(r, "broadcasted") : <<p, r.row[p].gen>> \notin s}

\* faulty variant: a gap that storing did not close is passed over
FaultyRetryStore ==
  /\ pc = "store"
  /\ \E S \in SUBSET Missing(run, raw) : raw' = raw \union {Tx(p) : p \in S}
  /\ run' = Reconcile(run, view)
  /\ Goto("policy")
  /\ UNCHANGED <<sync, net>>

RetryStore ==
  /\ pc = "store"
  /\ \E S \in SUBSET Missing(run, raw) : raw' = raw \union {Tx(p) : p \in S}
  /\ run' = Reconcile(run, view)
  /\ IF Missing(run', raw') = {} THEN Goto("policy") ELSE Return
  /\ UNCHANGED <<sync, net>>

\* pending_migration_policy_rebuild_message, then retire_run_for_rebuild
Policy ==
  /\ pc = "policy"
  /\ IF ExternallySpent(run, view) # {}
     THEN run' = Retire(run) /\ Return
     ELSE run' = run /\ Goto(IF flow = "migrate" THEN "expire" ELSE "expiry")
  /\ UNCHANGED <<raw, sync, net>>

\* expired_unconfirmed_pending_count
CountExpired ==
  /\ pc = "expiry"
  /\ run' = Reconcile(run, view)
  /\ Goto(IF ExpiredParts(run', raw, dtip) # {} THEN "expire" ELSE "canonical")
  /\ UNCHANGED <<raw, sync, net>>

ExpireParts ==
  /\ pc = "expire"
  /\ run' = MarkExpired(run, view, raw, dtip)
  /\ IF flow = "migrate" THEN Goto("rebuild") ELSE Return
  /\ UNCHANGED <<raw, sync, net>>

\* rebuild_expired_software_migration_parts: every needs_resign part is built again and the
\* batch replaces them, or nothing does when one of the notes is no longer spendable
Rebuild ==
  /\ pc = "rebuild"
  /\ LET P == With(run, "needs_resign") IN
     IF \E p \in P : view[p].gen # 0
     THEN Return /\ run' = run
     ELSE /\ \A p \in P : run.row[p].gen < MaxGen
          /\ \E s \in [P -> {dtip + d : d \in Delays}] :
               LET build == [p \in P |-> [sched |-> s[p], exp |-> Canonical(s[p]), target |-> dtip]]
               IN /\ Replaceable(run, P, build)
                  /\ run' = IF P = {} THEN run ELSE ReplaceResigned(run, P, build)
          /\ pc' = "promote" /\ todo' = {} /\ UNCHANGED <<flow, cur, dtip>>
  /\ UNCHANGED <<raw, sync, net>>

\* finalize_presigned_migration_children: one proof at a time, each committed on its own
PromoteChild(p) ==
  /\ pc = "promote" /\ p \in Unpromoted(run)
  /\ Promotable(RebaseInitialSchedule(run, seen), p)
  /\ run' = Promote(run, p, seen)
  /\ todo' = todo \union {p}
  /\ UNCHANGED <<pc, flow, cur, dtip, raw, sync, net>>

\* the rest of the children are deferred; with nothing promoted the operation returns
PromoteDone ==
  /\ pc = "promote"
  /\ IF Unpromoted(run) # {} /\ todo = {}
     THEN Return
     ELSE pc' = "store" /\ flow' = "due" /\ dtip' = known /\ todo' = {} /\ UNCHANGED cur
  /\ UNCHANGED <<db, sync, net>>

CheckCanonical ==
  /\ pc = "canonical"
  /\ run' = MarkNoncanonical(run, view, dtip)
  /\ IF NoncanonicalDue(Reconcile(run, view), dtip) # {} THEN Return ELSE Goto("due")
  /\ UNCHANGED <<raw, sync, net>>

SelectDue ==
  /\ pc = "due"
  /\ run' = Reconcile(run, view)
  /\ LET due == DueParts(run', view, dtip) IN
     \/ /\ due = {} /\ Return
     \/ \E p \in due :
          IF DueFails(run', p) THEN Return
          ELSE /\ pc' = "mark" /\ cur' = <<p, run'.row[p].gen>>
               /\ UNCHANGED <<flow, dtip, todo>>
  /\ UNCHANGED <<raw, sync, net>>

MarkBroadcasting ==
  /\ pc = "mark"
  /\ run' = SetPhase(run, "broadcasting") /\ Goto("attempt")
  /\ UNCHANGED <<raw, sync, net>>

\* faulty variant: the attempt is not recorded before the transaction is sent
FaultyAttempt ==
  /\ pc = "attempt"
  /\ IF run.row[cur[1]].status = "scheduled" /\ Tx(cur[1]) = cur THEN Goto("send") ELSE Return
  /\ UNCHANGED <<db, sync, net>>

\* mark_pending_broadcast_attempted: an error leaves the run in phase broadcasting
Attempt ==
  /\ pc = "attempt"
  /\ IF run.row[cur[1]].status = "scheduled" /\ Tx(cur[1]) = cur
     THEN run' = MarkAttempted(run, cur[1]) /\ Goto("send")
     ELSE run' = run /\ Return
  /\ UNCHANGED <<raw, sync, net>>

Send ==
  /\ pc = "send"
  /\ wire' = wire \union {[tx |-> cur, exp |-> Exp(cur)]}
  /\ Goto("answer")
  /\ UNCHANGED <<db, sync, tip, chain, pool>>

OnNetwork(t) == chain[t[1]].gen = t[2] \/ \E x \in pool : x.tx = t

\* the node accepts it, or knows it already (send_rejection_is_already_accepted)
AnswerAccepted ==
  /\ pc = "answer" /\ OnNetwork(cur)
  /\ Goto("storeTx")
  /\ UNCHANGED <<db, sync, net>>

\* the node refuses a transaction that can not be mined: retire_run_for_rebuild
AnswerRejected ==
  /\ pc = "answer" /\ ~OnNetwork(cur) /\ \A x \in wire : x.tx # cur
  /\ \/ Exp(cur) <= tip
     \/ chain[cur[1]].gen \notin {0, cur[2]}
     \/ \E x \in pool : x.tx[1] = cur[1] /\ x.tx[2] # cur[2]
  /\ run' = Retire(run) /\ Return
  /\ UNCHANGED <<raw, sync, net>>

\* no answer: the transaction may or may not have been delivered
AnswerFailed ==
  /\ pc = "answer"
  /\ run' = SetPhase(run, "failed_recoverable") /\ Return
  /\ UNCHANGED <<raw, sync, net>>

\* record_accepted_scheduled_migration_tx: local storage may fail, the row is promoted anyway
StoreAccepted ==
  /\ pc = "storeTx"
  /\ raw' \in {raw, raw \union {cur}}
  /\ Goto("record")
  /\ UNCHANGED <<run, sync, net>>

Record ==
  /\ pc = "record"
  /\ run' = MarkBroadcasted(run, cur[1], cur[2]) /\ Goto("redraw")
  /\ UNCHANGED <<raw, sync, net>>

Redraw ==
  /\ pc = "redraw"
  /\ \E draw \in [Overdue(run, dtip) -> {dtip + d : d \in Delays}] : run' = Reschedule(run, dtip, draw)
  /\ Return
  /\ UNCHANGED <<raw, sync, net>>

\* abandon_orchard_migration reads the stop candidates under the guard
StopBegin ==
  /\ Stops /\ pc = "idle" /\ run.phase \notin Terminal
  /\ pc' = "stop" /\ todo' = StopCandidates(run, raw)
  /\ UNCHANGED <<flow, cur, dtip, db, sync, net>>

\* faulty variant: an absent transaction is given up before its expiry
FaultyStopReconcile(p) ==
  /\ pc = "stop" /\ p \in todo
  /\ IF OnNetwork(Tx(p))
     THEN raw' = raw \union {Tx(p)} /\ run' = MarkBroadcasted(run, p, run.row[p].gen)
     ELSE UNCHANGED db
  /\ todo' = todo \ {p}
  /\ UNCHANGED <<pc, flow, cur, dtip, sync, net>>

\* reconcile_scheduled_migration_txs_before_abandon: a candidate on the network is stored and
\* marked, an absent one is given up only once its expiry has passed at the node
StopReconcile(p) ==
  /\ pc = "stop" /\ p \in todo
  /\ IF OnNetwork(Tx(p))
     THEN /\ raw' = raw \union {Tx(p)} /\ run' = MarkBroadcasted(run, p, run.row[p].gen)
          /\ todo' = todo \ {p} /\ UNCHANGED <<pc, flow, cur, dtip>>
     ELSE /\ IF tip >= run.row[p].exp
             THEN todo' = todo \ {p} /\ UNCHANGED <<pc, flow, cur, dtip>>
             ELSE Return
          /\ UNCHANGED db
  /\ UNCHANGED <<sync, net>>

StopAbandon ==
  /\ pc = "stop" /\ todo = {}
  /\ run' = IF run.phase \in Terminal THEN run ELSE AbandonRun(run)
  /\ Return
  /\ UNCHANGED <<raw, sync, net>>

\* retire_unbroadcast_orchard_migration: every unconfirmed part is long overdue and absent; the
\* safety margin makes up for asking about one part after the other
RetireUnbroadcast ==
  /\ Stops /\ pc = "idle" /\ run.phase \notin Terminal
  /\ With(run, "broadcasted") = {} /\ With(run, "scheduled") # {}
  /\ \A p \in With(run, "scheduled") : tip >= run.row[p].sched + Safety /\ ~OnNetwork(Tx(p))
  /\ run' = Retire(run)
  /\ UNCHANGED <<app, raw, sync, net>>

\* the process dies: the operation and its guard are gone, the database stays
Crash ==
  /\ Crashes /\ pc # "idle" /\ Return
  /\ UNCHANGED <<db, sync, net>>

-----------------------------------------------------------------------------
(* The sync engine *)

LearnTip == known # tip /\ known' = tip /\ UNCHANGED <<seen, view, met, app, db, net>>

\* the builds in the blocks of the chain, for the history
Found == {t \in Parts \X (1 .. MaxGen) : chain[t[1]].gen = t[2]}

\* faulty variant: the scanned height is the next one to scan
FaultyScan ==
  /\ <<known, seen, view>> # <<tip, tip, chain>>
  /\ known' = tip /\ seen' = tip + 1 /\ view' = chain /\ met' = met \union Found
  /\ UNCHANGED <<app, db, net>>

Scan ==
  /\ <<known, seen, view>> # <<tip, tip, chain>>
  /\ known' = tip /\ seen' = tip /\ view' = chain /\ met' = met \union Found
  /\ UNCHANGED <<app, db, net>>

\* reconcile_wallet_locks_after_sync, and every status read
SyncReconcile ==
  /\ run.phase \notin Terminal
  /\ run' = Reconcile(run, view) /\ run' # run
  /\ UNCHANGED <<app, raw, sync, net>>

-----------------------------------------------------------------------------
(* The network *)

Deliver(x) ==
  /\ x \in wire /\ wire' = wire \ {x}
  /\ pool' = IF /\ x.exp > tip /\ chain[x.tx[1]].gen = 0
                /\ \A y \in pool : y.tx[1] # x.tx[1]
             THEN pool \union {x} ELSE pool
  /\ UNCHANGED <<tip, chain, app, db, sync>>

Lose(x) == x \in wire /\ wire' = wire \ {x} /\ UNCHANGED <<tip, chain, pool, app, db, sync>>

\* one more block: it mines some of the pool, and what can not be mined later leaves the pool
Block(M) ==
  /\ tip < MaxTip /\ tip' = tip + 1
  /\ M \subseteq pool
  /\ chain' = [p \in Parts |->
       IF \E x \in M : x.tx[1] = p
       THEN LET x == CHOOSE x \in M : x.tx[1] = p IN [gen |-> x.tx[2], exp |-> x.exp, deep |-> FALSE]
       ELSE chain[p]]
  /\ pool' = {x \in pool \ M : x.exp > tip'}
  /\ UNCHANGED <<wire, app, db, sync>>

Deepen(p) ==
  /\ chain[p].gen # 0 /\ ~chain[p].deep
  /\ chain' = [chain EXCEPT ![p].deep = TRUE]
  /\ UNCHANGED <<tip, pool, wire, app, db, sync>>

\* a shallow block is replaced by one without the transaction, which may return to the pool
Reorg(p) ==
  /\ Reorgs /\ chain[p].gen # 0 /\ ~chain[p].deep
  /\ chain' = [chain EXCEPT ![p] = Unmined]
  /\ \/ pool' = pool
     \/ /\ chain[p].gen # Outsider /\ chain[p].exp > tip
        /\ pool' = pool \union {[tx |-> <<p, chain[p].gen>>, exp |-> chain[p].exp]}
  /\ UNCHANGED <<tip, wire, app, db, sync>>

\* the same seed spends the note from another wallet
SpendOutside(p) ==
  /\ Foreign /\ chain[p].gen = 0
  /\ chain' = [chain EXCEPT ![p] = [gen |-> Outsider, exp |-> 0, deep |-> FALSE]]
  /\ pool' = {x \in pool : x.tx[1] # p}
  /\ UNCHANGED <<tip, wire, app, db, sync>>

App ==
  \/ RetryStore \/ Policy \/ CountExpired \/ ExpireParts \/ Rebuild
  \/ (\E p \in Parts : PromoteChild(p)) \/ PromoteDone
  \/ CheckCanonical \/ SelectDue \/ MarkBroadcasting \/ Attempt \/ Send
  \/ AnswerAccepted \/ AnswerRejected \/ AnswerFailed
  \/ StoreAccepted \/ Record \/ Redraw
  \/ (\E p \in Parts : StopReconcile(p)) \/ StopAbandon

Network ==
  \/ \E x \in wire : Deliver(x) \/ Lose(x)
  \/ \E M \in SUBSET pool : Block(M)
  \/ \E p \in Parts : Deepen(p) \/ Reorg(p) \/ SpendOutside(p)

Next ==
  \/ (\E f \in {"migrate", "due"} : Begin(f)) \/ App \/ StopBegin \/ RetireUnbroadcast \/ Crash
  \/ LearnTip \/ Scan \/ SyncReconcile \/ Network

Spec == Init /\ [][Next]_vars

\* The app polls the run, the sync engine keeps up with the chain, and the endpoint is not
\* down for ever: a transaction sent again and again is at last delivered and answered.
DeliverSent == pc = "answer" /\ \E x \in wire : x.tx = cur /\ Deliver(x)
Fairness ==
  /\ \A f \in {"migrate", "due"} : SF_vars(Begin(f))
  /\ WF_vars(App) /\ WF_vars(Scan) /\ WF_vars(SyncReconcile)
  /\ SF_vars(AnswerAccepted \/ AnswerRejected)
  /\ SF_vars(DeliverSent)
  /\ \A p \in Parts : SF_vars(PromoteChild(p))

FairSpec == Spec /\ Fairness

-----------------------------------------------------------------------------
(* Properties *)

TypeOK ==
  /\ run.phase \in Phase
  /\ run.row \in [Parts -> [gen : 0 .. MaxGen, status : Status, sched : Nat, exp : Nat,
                             target : Nat, tried : BOOLEAN]]
  /\ run.kid \in [Parts -> Nat] /\ run.kids \in BOOLEAN /\ run.locked \in BOOLEAN
  /\ raw \subseteq Parts \X (1 .. MaxGen) /\ met \subseteq Parts \X (1 .. MaxGen)
  /\ cur \in (Parts \X (1 .. MaxGen)) \union {NoTx} /\ todo \subseteq Parts
  /\ known <= tip /\ seen <= known /\ tip <= MaxTip

\* t can still be spent: it is mined, in the pool, or on its way to it
CanBeMined(t) == OnNetwork(t) \/ \E x \in wire : x.tx = t /\ x.exp > tip

\* A crash never loses the knowledge that a transaction may be on the network: the row of any
\* transaction a node could still mine was marked as attempted before it was sent.
AttemptRecorded ==
  \A p \in HasRow(run) : CanBeMined(Tx(p)) => run.row[p].tried

\* A run is complete only when every planned part was migrated by the transaction of its own
\* row, in a block that can not be reorganised away: reconcile_run_confirmations.
CompleteMeansMigrated ==
  run.phase = "complete" => \A p \in Parts : chain[p].gen = run.row[p].gen /\ chain[p].deep

\* due_pending_txs and the outbox export take for granted that the expiry of a scheduled part
\* is the canonical one of its scheduled height, and refuse the whole run otherwise.
ScheduledRowsCanonical ==
  \A p \in With(run, "scheduled") : run.row[p].exp = Canonical(run.row[p].sched)

\* Stopping gives up no live transaction of a part whose row is scheduled or broadcasted: if it
\* can still be mined when the notes are released, the wallet knows the spend, because it has
\* stored the transaction or found it in a block, be it in one that left the chain since.  (A row
\* sent back for signing is deleted unasked, whatever became of its transaction.)
StopStoresLiveStep ==
  (run.phase \notin Terminal /\ run'.phase = "abandoned")
    => \A p \in With(run, "scheduled") \union With(run, "broadcasted") :
         CanBeMined(Tx(p)) => Tx(p) \in raw \union met
StopStoresLive == [][StopStoresLiveStep]_vars

\* Stopping discards an attempted transaction only after asking the network for it, whatever
\* became of its row since: "a durable never attempted marker makes an item safe to discard".
StopReconcilesAttemptedStep ==
  (run.phase \notin Terminal /\ run'.phase = "abandoned")
    => \A p \in HasRow(run) :
         (run.row[p].tried /\ CanBeMined(Tx(p)) /\ ~Mined(run, view, p)) => Tx(p) \in raw
StopReconcilesAttempted == [][StopReconcilesAttemptedStep]_vars

\* A run that is retired for a rebuild has every accepted transaction in the wallet's own
\* tables first, so that the released notes are not offered for spending again.
RetireAfterStoreStep ==
  (run.phase \notin Terminal /\ run'.phase = "failed_terminal")
    => \A p \in With(run, "broadcasted") : Tx(p) \in raw
RetireAfterStore == [][RetireAfterStoreStep]_vars

\* what became of each note, as PartLedger tells it
Fate == [p \in Parts |-> IF chain[p].deep /\ chain[p].gen # Outsider THEN "moved"
                         ELSE IF \E g \in 1 .. MaxGen : CanBeMined(<<p, g>>) THEN "offered"
                         ELSE "held"]

\* The run keeps the promise of PartLedger: no step of the app, of the sync engine or of the
\* network offers a note the run has released, and what was moved is never offered again.
Ledger == INSTANCE PartLedger WITH fate <- Fate, reserved <- run.locked

KeepsLedger == Ledger!Spec

\* A part that is due does not stay due: it is submitted, redrawn, or sent back for signing.
IsDue(p) == run.row[p].status = "scheduled" /\ run.row[p].sched <= known
Over == run.phase \in Terminal
DueIsServed == \A p \in Parts : IsDue(p) ~> (~IsDue(p) \/ Over)
=============================================================================
