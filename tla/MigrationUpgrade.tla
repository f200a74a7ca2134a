------------------------- MODULE MigrationUpgrade -------------------------
(***************************************************************************)
(* What every connection does to the migration tables before it uses them *)
(* (ensure_schema of schema.rs and stages.rs): it adds what an older       *)
(* program did not have and derives the new columns from the old ones.     *)
(* Each statement is a transaction of its own and any of them can fail, as *)
(* these connections wait two seconds for the write lock, so openers meet  *)
(* each other's half-finished upgrades.  An older program left the target  *)
(* height of a transaction, or nothing, in the place of its broadcast      *)
(* height, and had no record of what it handed to the network; what it     *)
(* left scheduled it had sent only if the broadcast height was reached.    *)
(***************************************************************************)
EXTENDS Integers, Sequences, SequencesExt, FiniteSetsExt

CONSTANTS Openers,     \* connections that are opened, again and again
          Parts,       \* the parts of one run, 0 .. n
          Txs,         \* pending transactions, ordered like their ids
          NoteOf,      \* the part whose note a transaction spends
          Values,      \* the denomination of each part
          Offset,      \* the approved offset of each part
          TargetOf,    \* the target height each part was built for
          MODULUS,     \* ZIP 318 expiry bucket
          Tip,         \* the height of the chain
          StageHeight, \* the broadcast height of a preparation transaction
          Markers,     \* whether the older program left target heights
          Kept,        \* whether signed children are stored
          Statuses,    \* statuses of the older program's transactions
          Redraws,     \* whether overdue transactions are redrawn
          Fails        \* whether a statement can fail

None == -1
Canonical(h) == (h - (h % MODULUS)) + 2 * MODULUS

\* the parts and transactions of the run as they were signed: their expiry is that of the target
Target(t) == TargetOf[NoteOf[t]]

VARIABLES cols,  \* the tables that have the column broadcast_attempted
          old,   \* whether the stage table still has the constraint of an older program
          run,   \* phase and signed_schedule_origin_height
          tx,    \* pending transactions, and whether the network was given them
          kid,   \* signed children
          stage, \* one preparation transaction, likewise
          op,    \* what each opener is doing
          done   \* whether a connection was used since the older program
tables == <<cols, old, run, tx, kid, stage>>
vars == <<tables, op, done>>

Out == [pc |-> "out", tab |-> "pending", todo |-> <<>>, origin |-> None, bad |-> <<>>, cand |-> None]

Init ==
    /\ cols = {} /\ done = FALSE /\ old \in BOOLEAN
    /\ run = [phase |-> "broadcast_scheduled", origin |-> None]
    /\ \E m, c \in Markers, k \in Kept, st \in [Txs -> Statuses], s \in [Txs -> BOOLEAN] :
          /\ \A t \in Txs : IF st[t] = "scheduled" THEN s[t] => Target(t) - 1 + Offset[NoteOf[t]] <= Tip ELSE s[t]
          /\ tx = [t \in Txs |-> [there |-> TRUE, part |-> None, sched |-> IF m THEN Target(t) ELSE None,
                                  orig |-> None, st |-> st[t], try |-> "no", sent |-> s[t]]]
          /\ kid = [p \in Parts |-> [there |-> k, sched |-> IF c THEN TargetOf[p] ELSE None]]
    /\ \E s \in {FALSE, StageHeight <= Tip} : stage = [there |-> TRUE, try |-> "no", sent |-> s]
    /\ op = [o \in Openers |-> Out]

At(o, pc) == op[o].pc = pc
To(o, pc) == op' = [op EXCEPT ![o].pc = pc] /\ UNCHANGED done
Work(o, pc, todo) == op' = [op EXCEPT ![o].pc = pc, ![o].todo = todo] /\ UNCHANGED done
Drop1(o, pc) == Work(o, pc, Tail(op[o].todo))
First(o) == Head(op[o].todo)
Fail(o) == op' = [op EXCEPT ![o] = Out] /\ UNCHANGED <<tables, done>>

Open(o) == At(o, "out") /\ To(o, "check") /\ UNCHANGED tables

\* ---------------------------------------------------------------- the attempt column of a table
AfterColumn(o) == IF op[o].tab = "pending" THEN "parts" ELSE "ready"

\* had_broadcast_attempted
CheckColumn(o) ==
    /\ At(o, "check") /\ To(o, IF op[o].tab \in cols THEN AfterColumn(o) ELSE "add")
    /\ UNCHANGED tables

\* add_column_if_missing looks again; ALTER TABLE fails when another opener was faster
AddColumn(o) ==
    \/ /\ At(o, "add") /\ To(o, IF op[o].tab \in cols THEN "mark" ELSE "alter") /\ UNCHANGED tables
    \/ /\ At(o, "alter")
       /\ IF op[o].tab \in cols THEN Fail(o)
          ELSE cols' = cols \cup {op[o].tab} /\ To(o, "mark") /\ UNCHANGED <<old, run, tx, kid, stage>>

\* faulty variant: the rows of the older program count as never attempted
FaultyMarkUnknown(o) == At(o, "mark") /\ To(o, AfterColumn(o)) /\ UNCHANGED tables

\* What the older program left scheduled may have been attempted.
MarkUnknown(o) ==
    /\ At(o, "mark") /\ To(o, AfterColumn(o))
    /\ IF op[o].tab = "pending"
       THEN /\ tx' = [t \in Txs |-> IF tx[t].st = "scheduled" THEN [tx[t] EXCEPT !.try = "unknown"] ELSE tx[t]]
            /\ UNCHANGED stage
       ELSE stage' = [stage EXCEPT !.try = "unknown"] /\ UNCHANGED tx
    /\ UNCHANGED <<cols, old, run, kid>>

\* ---------------------------------------------------------------- backfill_pending_part_indices
Rows == {t \in Txs : tx[t].there}
InOrder(S) == SetToSortSeq(S, LAMBDA t, u : tx[t].sched < tx[u].sched \/ (tx[t].sched = tx[u].sched /\ t < u))

ListParts(o) ==
    /\ At(o, "parts") /\ Work(o, "pick", InOrder({t \in Rows : tx[t].part = None}))
    /\ UNCHANGED tables

Used == {tx[t].part : t \in Rows} \ {None}

\* The child that spends the note, a part of the same denomination, or the first free number.
PartFor(t) ==
    LET p == NoteOf[t]
        equal == {q \in Parts : Values[q] = Values[p]} \ Used
    IN  IF kid[p].there /\ p \notin Used THEN p
        ELSE Min(IF equal # {} THEN equal ELSE (0 .. Cardinality(Txs)) \ Used)

PickPart(o) ==
    /\ At(o, "pick")
    /\ IF op[o].todo = <<>> THEN To(o, "run")
       ELSE op' = [op EXCEPT ![o].pc = "set", ![o].cand = PartFor(First(o))] /\ UNCHANGED done
    /\ UNCHANGED tables

SetPart(o) ==
    /\ At(o, "set") /\ Drop1(o, "pick")
    /\ tx' = [tx EXCEPT ![First(o)].part = IF @ = None /\ First(o) \in Rows THEN op[o].cand ELSE @]
    /\ UNCHANGED <<cols, old, run, kid, stage>>

\* ---------------------------------------------------------------- backfill_legacy_signed_schedule_metadata
ReadRun(o) ==
    /\ At(o, "run") /\ op' = [op EXCEPT ![o].pc = "kids", ![o].origin = run.origin] /\ UNCHANGED done
    /\ UNCHANGED tables

Marked(p) == kid[p].sched = TargetOf[p]

\* Children without a height, and those with the marker while the run has no origin.
ListKids(o) ==
    /\ At(o, "kids")
    /\ LET S == {p \in Parts : kid[p].there /\ (kid[p].sched = None \/ (Marked(p) /\ op[o].origin = None))}
       IN  Work(o, "kid", SetToSortSeq(S, LAMBDA p, q : p < q))
    /\ UNCHANGED tables

Recovered(p) == TargetOf[p] - 1 + Offset[p]

\* The approved offset keeps the origin of the run and the expiry the part was signed with.
Fits(p, origin) == origin \in {None, TargetOf[p] - 1} /\ Canonical(Recovered(p)) = Canonical(TargetOf[p])

RecoverKid(o) ==
    /\ At(o, "kid") /\ op[o].todo # <<>>
    /\ LET p == First(o) IN
       IF Fits(p, op[o].origin)
       THEN /\ op' = [op EXCEPT ![o].todo = Tail(@), ![o].origin = TargetOf[p] - 1]
            /\ kid' = [kid EXCEPT ![p].sched = IF @ = None \/ Marked(p) THEN Recovered(p) ELSE @]
       ELSE op' = [op EXCEPT ![o].todo = Tail(@), ![o].bad = Append(@, p)] /\ UNCHANGED kid
    /\ UNCHANGED <<cols, old, run, tx, stage, done>>

Coalesce(a, b) == IF a # None THEN a ELSE b

SaveOrigin(o) ==
    /\ At(o, "kid") /\ op[o].todo = <<>> /\ Work(o, "recreate", op[o].bad)
    /\ run' = [run EXCEPT !.origin = Coalesce(@, op[o].origin)]
    /\ UNCHANGED <<cols, old, tx, kid, stage>>

KeepsKid(p) == \E t \in Rows : tx[t].part = p

\* A child that does not fit is deleted unless a transaction was made of it.
CheckKid(o) ==
    /\ At(o, "recreate") /\ op[o].todo # <<>>
    /\ IF KeepsKid(First(o)) THEN Drop1(o, "recreate") ELSE To(o, "delete")
    /\ UNCHANGED tables

DeleteKid(o) ==
    /\ At(o, "delete") /\ Drop1(o, "recreate")
    /\ kid' = [kid EXCEPT ![First(o)].there = FALSE]
    /\ UNCHANGED <<cols, old, run, tx, stage>>

ReadyAgain == run' = [run EXCEPT !.phase = "ready_to_migrate"]

MarkRecreated(o) ==
    /\ At(o, "recreate") /\ op[o].todo = <<>> /\ To(o, "rows")
    /\ IF op[o].bad # <<>> THEN ReadyAgain ELSE UNCHANGED run
    /\ UNCHANGED <<cols, old, tx, kid, stage>>

\* ---------------------------------------------------------------- backfill_legacy_pending_schedule_metadata
Legacy(t) == tx[t].sched = None \/ (tx[t].sched = Target(t) /\ run.origin = None /\ tx[t].st # "needs_resign")

ListRows(o) ==
    /\ At(o, "rows")
    /\ Work(o, "row", SetToSortSeq({t \in Rows : Legacy(t)}, LAMBDA t, u : tx[t].part < tx[u].part))
    /\ UNCHANGED tables

\* The height of a transaction by its part, if that is a part of the schedule with its value.
RowFits(t) ==
    LET p == tx[t].part
    IN  /\ p \in Parts /\ Values[p] = Values[NoteOf[t]]
        /\ run.origin \in {None, Target(t) - 1}
        /\ Canonical(Target(t) - 1 + Offset[p]) = Canonical(Target(t))

ReadRow(o) ==
    /\ At(o, "row")
    /\ IF op[o].todo = <<>> THEN To(o, "list")
       ELSE op' = [op EXCEPT ![o].pc = IF RowFits(First(o)) THEN "rowHeight" ELSE "rowMark"] /\ UNCHANGED done
    /\ UNCHANGED tables

RowHeight(o) ==
    /\ At(o, "rowHeight") /\ To(o, "rowOrigin")
    /\ tx' = [tx EXCEPT ![First(o)].sched = Target(First(o)) - 1 + Offset[tx[First(o)].part]]
    /\ UNCHANGED <<cols, old, run, kid, stage>>

RowMark(o) ==
    /\ At(o, "rowMark") /\ To(o, "rowPhase")
    /\ tx' = [tx EXCEPT ![First(o)].sched = Target(First(o)), ![First(o)].st = "needs_resign"]
    /\ UNCHANGED <<cols, old, run, kid, stage>>

RowOrigin(o) ==
    /\ At(o, "rowOrigin") /\ Drop1(o, "row")
    /\ run' = [run EXCEPT !.origin = Coalesce(@, Target(First(o)) - 1)]
    /\ UNCHANGED <<cols, old, tx, kid, stage>>

RowPhase(o) == At(o, "rowPhase") /\ Drop1(o, "row") /\ ReadyAgain /\ UNCHANGED <<cols, old, tx, kid, stage>>

\* ---------------------------------------------------------------- original heights, indexes, stages
\* backfill_original_pending_schedule_heights, with the origin the query read
ListOriginal(o) ==
    /\ At(o, "list")
    /\ op' = [op EXCEPT ![o].pc = "original", ![o].origin = run.origin,
                        ![o].todo = SetToSeq({t \in Rows : tx[t].orig = None /\ tx[t].part \in Parts /\ run.origin # None})]
    /\ UNCHANGED <<tables, done>>

SetOriginal(o) ==
    /\ At(o, "original") /\ op[o].todo # <<>> /\ Drop1(o, "original")
    /\ tx' = [tx EXCEPT ![First(o)].orig = Coalesce(@, op[o].origin + Offset[tx[First(o)].part])]
    /\ UNCHANGED <<cols, old, run, kid, stage>>

\* The unique index over the parts cannot be created while two transactions share one.
CreateIndex(o) ==
    /\ At(o, "original") /\ op[o].todo = <<>>
    /\ IF \E t, u \in Rows : t # u /\ tx[t].part = tx[u].part /\ tx[t].part # None
       THEN Fail(o) ELSE To(o, "constraint") /\ UNCHANGED tables

\* migrate_confirmed_stage_without_raw_constraint: the copy fails once the table has new columns
CheckConstraint(o) ==
    /\ At(o, "constraint")
    /\ op' = [op EXCEPT ![o].pc = IF old THEN "rebuild" ELSE "check", ![o].tab = "stage"]
    /\ UNCHANGED <<tables, done>>

RebuildStages(o) ==
    /\ At(o, "rebuild")
    /\ IF "stage" \in cols THEN Fail(o)
       ELSE old' = FALSE /\ To(o, "check") /\ UNCHANGED <<cols, run, tx, kid, stage>>

\* ---------------------------------------------------------------- what the program then does
Used1(o) == At(o, "ready") /\ op' = [op EXCEPT ![o] = Out] /\ done' = TRUE
Live == run.phase # "abandoned"

\* mark_pending_broadcast_attempted and the broadcast
Send(o, t) ==
    /\ Used1(o) /\ Live /\ t \in Rows /\ tx[t].st = "scheduled" /\ tx[t].sched <= Tip
    /\ tx' = [tx EXCEPT ![t].try = "yes", ![t].sent = TRUE]
    /\ UNCHANGED <<cols, old, run, kid, stage>>

\* reconcile_run_confirmations: a transaction is found on the chain, or is not there any more
Confirm(o, t) ==
    /\ Used1(o) /\ Live /\ t \in Rows /\ tx[t].sent
    /\ \/ tx[t].st \in {"scheduled", "broadcasted"} /\ tx' = [tx EXCEPT ![t].st = "confirmed"] /\ UNCHANGED run
       \/ /\ tx[t].st = "confirmed" /\ tx' = [tx EXCEPT ![t].st = "scheduled", ![t].sched = Target(t)]
          /\ run' = [run EXCEPT !.phase = "broadcast_scheduled"]
    /\ UNCHANGED <<cols, old, kid, stage>>

\* reschedule_overdue_pending_txs: a later height, unless it lies in another expiry bucket
Redraw(o, t) ==
    /\ Used1(o) /\ Redraws /\ Live /\ t \in Rows /\ tx[t].st = "scheduled" /\ tx[t].sched <= Tip
    /\ IF Canonical(Tip + 1) = Canonical(Target(t))
       THEN tx' = [tx EXCEPT ![t].sched = Tip + 1] /\ UNCHANGED run
       ELSE tx' = [tx EXCEPT ![t].st = "needs_resign"] /\ ReadyAgain
    /\ UNCHANGED <<cols, old, kid, stage>>

\* migration_stop_candidate_requires_reconciliation
Asked(try, height) == try = "yes" \/ (try = "unknown" /\ height <= Tip)

\* abandon_run after the network was asked for what may be there; what it has is kept.
Stop(o) ==
    /\ Used1(o) /\ Live
    /\ run' = [run EXCEPT !.phase = "abandoned"]
    /\ tx' = [t \in Txs |-> IF tx[t].st = "scheduled" /\ Asked(tx[t].try, tx[t].sched) /\ tx[t].sent
                            THEN [tx[t] EXCEPT !.st = "broadcasted"]
                            ELSE [tx[t] EXCEPT !.there = @ /\ tx[t].st \notin {"scheduled", "needs_resign"}]]
    /\ stage' = [stage EXCEPT !.there = @ /\ Asked(stage.try, StageHeight) /\ stage.sent]
    /\ kid' = [p \in Parts |-> [kid[p] EXCEPT !.there = FALSE]]
    /\ UNCHANGED <<cols, old>>

Close(o) == Used1(o) /\ UNCHANGED tables

\* A statement fails, or the process ends.
Break(o) == Fails /\ ~At(o, "out") /\ Fail(o)

Upgrade(o) ==
    \/ Open(o) \/ CheckColumn(o) \/ AddColumn(o) \/ MarkUnknown(o)
    \/ ListParts(o) \/ PickPart(o) \/ SetPart(o)
    \/ ReadRun(o) \/ ListKids(o) \/ RecoverKid(o) \/ SaveOrigin(o)
    \/ CheckKid(o) \/ DeleteKid(o) \/ MarkRecreated(o)
    \/ ListRows(o) \/ ReadRow(o) \/ RowHeight(o) \/ RowMark(o) \/ RowOrigin(o) \/ RowPhase(o)
    \/ ListOriginal(o) \/ SetOriginal(o) \/ CreateIndex(o) \/ CheckConstraint(o) \/ RebuildStages(o)

Use(o) == Close(o) \/ Stop(o) \/ \E t \in Txs : Send(o, t) \/ Confirm(o, t) \/ Redraw(o, t)

Next == \E o \in Openers : Upgrade(o) \/ Use(o) \/ Break(o)
Spec == Init /\ [][Next]_vars

-----------------------------------------------------------------------------
TypeOK ==
    /\ cols \subseteq {"pending", "stage"} /\ old \in BOOLEAN /\ done \in BOOLEAN
    /\ run.phase \in {"broadcast_scheduled", "ready_to_migrate", "abandoned"} /\ run.origin \in Nat \cup {None}
    /\ \A t \in Txs : tx[t].part \in 0 .. Cardinality(Txs) \cup {None} /\ tx[t].try \in {"no", "unknown", "yes"}

\* No two transactions of a run get the same part, whoever else is upgrading: otherwise the unique
\* index could never be created and no connection would open again.
PartsAreDistinct == \A t, u \in Rows : tx[t].part = tx[u].part /\ t # u => tx[t].part = None

\* The record a transaction needs to be signed again ("the original message identity") is there as
\* long as the transaction is, however upgrades meet.
RecoveryKeepsChild ==
    \A t \in Rows : Live /\ (\E p \in Parts : kid[p].there) => kid[NoteOf[t]].there

\* A height an upgrade derived is one the part was signed for, and no transaction is left without.
HeightsFit ==
    /\ \A p \in Parts : kid[p].sched \notin {None, TargetOf[p]} => Canonical(kid[p].sched) = Canonical(TargetOf[p])
    /\ \A t \in Rows : /\ tx[t].sched # None => Canonical(tx[t].sched) = Canonical(Target(t))
                       /\ done => tx[t].sched # None

\* Stopping a run drops nothing the network was given: "keep that uncertainty distinct from a known
\* attempt: stop can safely discard an unknown row whose broadcast height is still in the future".
SentIsKept == (\A t \in Txs : tx[t].sent => tx[t].there) /\ (stage.sent => stage.there)

\* What was signed for another expiry bucket than its height is signed again.
CrossingIsResigned ==
    \A o \in Openers, t \in Rows :
        At(o, "ready") /\ tx[t].st = "scheduled" /\ Live => Canonical(Recovered(NoteOf[t])) = Canonical(Target(t))

\* Once a connection was used, opening another one changes nothing, whatever was done in between,
\* other than to say again that signatures must be recreated.
ReopeningIsQuietStep ==
    done /\ (\E o \in Openers : Upgrade(o)) =>
        /\ UNCHANGED <<cols, old, tx, kid, stage>>
        /\ run' # run => ReadyAgain
ReopeningIsQuiet == [][ReopeningIsQuietStep]_vars
=============================================================================
