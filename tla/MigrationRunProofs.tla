-------------------------- MODULE MigrationRunProofs --------------------------
(***************************************************************************)
(* Theorems of MigrationRun, for any parts, schedule, delays, bounds and   *)
(* any choice of reorganisations, outside spends, stops and crashes.       *)
(***************************************************************************)
EXTENDS MigrationRun, TLAPS

Rows == [gen : 0 .. MaxGen, status : Status, sched : Nat, exp : Nat, target : Nat, tried : BOOLEAN]

Runs == [phase : Phase, row : [Parts -> Rows], kid : [Parts -> Nat], kidExp : [Parts -> Nat],
         kids : BOOLEAN, origin : Nat, signed : Nat, rebased : BOOLEAN, locked : BOOLEAN]

\* A run as the database may hold it: a part that has a row was built.
GoodRun(r) == r \in Runs /\ \A p \in Parts : r.row[p].status # "none" => r.row[p].gen > 0

\* s tells of the same transactions as r, and of the same reservation, and confirms nothing.
SameBuilds(r, s) ==
  /\ GoodRun(s)
  /\ s.kids = r.kids /\ s.locked = r.locked
  /\ s.phase = "complete" => r.phase = "complete"
  /\ s.phase = "abandoned" => r.phase = "abandoned"
  /\ \A p \in Parts :
       /\ s.row[p].gen = r.row[p].gen /\ s.row[p].exp = r.row[p].exp
       /\ s.row[p].tried = r.row[p].tried
       /\ s.row[p].status = "none" <=> r.row[p].status = "none"
       /\ s.row[p].status = "confirmed" => r.row[p].status = "confirmed"

(* Every part of r is mined, by the transaction of its row, at trusted depth. *)
AllDeep(r, v) == \A p \in Parts : r.row[p].gen > 0 /\ v[p].gen = r.row[p].gen /\ v[p].deep

(* What the functions that reconcile the run, mark its parts and record     *)
(* answers have in common: no build changes, a part is confirmed only when  *)
(* it is mined, and the run ends or releases its notes only when every part *)
(* is mined at trusted depth.                                               *)
Reconciled(r, s, v) ==
  /\ GoodRun(s)
  /\ s.kids => r.kids
  /\ s.locked = r.locked \/ (AllDeep(s, v) /\ ~s.locked)
  /\ s.phase = "complete" => r.phase = "complete" \/ AllDeep(s, v)
  /\ s.phase = "abandoned" => r.phase = "abandoned"
  /\ \A p \in Parts :
       /\ s.row[p].gen = r.row[p].gen /\ s.row[p].exp = r.row[p].exp
       /\ s.row[p].tried = r.row[p].tried
       /\ s.row[p].status = "none" <=> r.row[p].status = "none"
       /\ s.row[p].status = "confirmed" => r.row[p].status = "confirmed" \/ Mined(r, v, p)

LEMMA SameIsReconciled ==
  ASSUME NEW r, NEW s, NEW v, SameBuilds(r, s)
  PROVE  Reconciled(r, s, v)
BY DEF SameBuilds, Reconciled

LEMMA ReconciledThenSame ==
  ASSUME NEW r, NEW s, NEW t, NEW v, Reconciled(r, s, v), SameBuilds(s, t)
  PROVE  Reconciled(r, t, v)
<1>1. AllDeep(s, v) => AllDeep(t, v)
  BY DEF AllDeep, SameBuilds
<1> QED
  BY <1>1 DEF SameBuilds, Reconciled

LEMMA ReconciledTransitive ==
  ASSUME NEW r, NEW s, NEW t, NEW v, Reconciled(r, s, v), Reconciled(s, t, v)
  PROVE  Reconciled(r, t, v)
<1>1. AllDeep(s, v) => AllDeep(t, v)
  BY DEF AllDeep, Reconciled
<1>2. \A p \in Parts : Mined(s, v, p) => Mined(r, v, p)
  BY DEF Reconciled, Mined
<1> QED
  BY <1>1, <1>2 DEF Reconciled

LEMMA SameBuildsTransitive ==
  ASSUME NEW r, NEW s, NEW t, SameBuilds(r, s), SameBuilds(s, t)
  PROVE  SameBuilds(r, t)
BY DEF SameBuilds

LEMMA CanonicalNat == \A h \in Nat : Canonical(h) \in Nat
BY RunAssumption DEF Canonical

LEMMA DelaysNat == \A h \in Nat : {h + d : d \in Delays} \subseteq Nat
BY RunAssumption

LEMMA SetPhaseSame ==
  ASSUME NEW r, GoodRun(r), NEW ph \in Phase \ Terminal
  PROVE  SameBuilds(r, SetPhase(r, ph))
BY DEF GoodRun, Runs, Rows, SameBuilds, SetPhase, Terminal

LEMMA SetStatusSame ==
  ASSUME NEW r, GoodRun(r), NEW P \in SUBSET HasRow(r), NEW s \in Status \ {"none", "confirmed"}
  PROVE  SameBuilds(r, SetStatus(r, P, s))
<1> DEFINE t == SetStatus(r, P, s)
<1>1. /\ t \in Runs
      /\ t.kids = r.kids /\ t.locked = r.locked /\ t.phase = r.phase
      /\ \A p \in Parts : t.row[p] = IF p \in P THEN [r.row[p] EXCEPT !.status = s] ELSE r.row[p]
  BY DEF SetStatus, GoodRun, Runs, Rows
<1>2. \A p \in P : r.row[p].status # "none"
  BY DEF HasRow, With
<1>3. \A p \in Parts :
        /\ t.row[p].gen = r.row[p].gen /\ t.row[p].tried = r.row[p].tried
        /\ t.row[p].exp = r.row[p].exp
        /\ t.row[p].status = IF p \in P THEN s ELSE r.row[p].status
  BY <1>1 DEF GoodRun, Runs, Rows
<1> HIDE DEF t
<1>4. GoodRun(t)
  BY <1>1, <1>2, <1>3 DEF GoodRun
<1> QED
  <2>1. SameBuilds(r, t)
    BY <1>1, <1>2, <1>3, <1>4 DEF SameBuilds
  <2> QED
    BY <2>1 DEF t

LEMMA NeedResignSame ==
  ASSUME NEW r, GoodRun(r), NEW P \in SUBSET HasRow(r)
  PROVE  SameBuilds(r, NeedResign(r, P))
<1>1. SameBuilds(r, r)
  BY DEF SameBuilds
<1>2. SameBuilds(r, SetStatus(r, P, "needs_resign"))
  BY SetStatusSame DEF Status
<1>3. SameBuilds(SetStatus(r, P, "needs_resign"),
                 SetPhase(SetStatus(r, P, "needs_resign"), "ready_to_migrate"))
  BY <1>2, SetPhaseSame DEF SameBuilds, Phase, Terminal
<1> QED
  BY <1>1, <1>2, <1>3, SameBuildsTransitive DEF NeedResign

LEMMA ConfirmReconciles ==
  ASSUME NEW r, GoodRun(r), NEW v
  PROVE  Reconciled(r, ConfirmRows(r, v), v)
<1> DEFINE up == {p \in With(r, "scheduled") \union With(r, "broadcasted") : Mined(r, v, p)}
           gone == {p \in With(r, "confirmed") : ~Mined(r, v, p)}
           s == [r EXCEPT !.phase = IF gone = {} THEN @ ELSE "broadcast_scheduled",
                    !.row = [p \in Parts |->
                       IF p \in up THEN [r.row[p] EXCEPT !.status = "confirmed"]
                       ELSE IF p \in gone THEN [r.row[p] EXCEPT !.status = "scheduled", !.sched = r.row[p].target]
                       ELSE r.row[p]]]
<1>1. Reconciled(r, r, v)
  BY DEF Reconciled
<1>2. /\ \A p \in up \union gone : r.row[p].status # "none"
      /\ \A p \in up : Mined(r, v, p)
  BY DEF With
<1> HIDE DEF up, gone
<1> DEFINE Row(p) == IF p \in up THEN [r.row[p] EXCEPT !.status = "confirmed"]
                     ELSE IF p \in gone THEN [r.row[p] EXCEPT !.status = "scheduled", !.sched = r.row[p].target]
                     ELSE r.row[p]
<1>3. \A p \in Parts :
        /\ Row(p) \in Rows
        /\ Row(p).gen = r.row[p].gen /\ Row(p).exp = r.row[p].exp /\ Row(p).tried = r.row[p].tried
        /\ Row(p).status = "none" <=> r.row[p].status = "none"
        /\ Row(p).status = "confirmed" => r.row[p].status = "confirmed" \/ Mined(r, v, p)
  BY <1>2 DEF GoodRun, Runs, Rows, Status
<1> HIDE DEF Row
<1>5. /\ s = [r EXCEPT !.phase = IF gone = {} THEN @ ELSE "broadcast_scheduled",
                       !.row = [p \in Parts |-> Row(p)]]
      /\ [p \in Parts |-> Row(p)] \in [Parts -> Rows]
  BY <1>3 DEF Row
<1> HIDE DEF s
<1>6. /\ s \in Runs
      /\ s.kids = r.kids /\ s.locked = r.locked
      /\ s.phase = "complete" => r.phase = "complete"
      /\ s.phase = "abandoned" => r.phase = "abandoned"
      /\ s.row = [p \in Parts |-> Row(p)]
  BY <1>5 DEF GoodRun, Runs, Phase, Terminal
<1>4. Reconciled(r, s, v)
  BY <1>3, <1>6 DEF Reconciled, GoodRun
<1> QED
  BY <1>1, <1>4 DEF ConfirmRows, s, up, gone

LEMMA ResumeSame ==
  ASSUME NEW r, GoodRun(r)
  PROVE  SameBuilds(r, ResumeRun(r))
<1>1. SameBuilds(r, r)
  BY DEF SameBuilds
<1>2. SameBuilds(r, SetPhase(r, "broadcast_scheduled"))
  BY SetPhaseSame DEF Phase, Terminal
<1> QED
  BY <1>1, <1>2 DEF ResumeRun

LEMMA CompleteReconciles ==
  ASSUME NEW r, GoodRun(r), NEW v
  PROVE  Reconciled(r, CompleteRun(r, v), v)
<1> DEFINE s == [r EXCEPT !.phase = "complete", !.locked = FALSE, !.kids = FALSE]
<1>1. Reconciled(r, r, v)
  BY DEF Reconciled
<1>2. ASSUME \A p \in Parts : Mined(r, v, p) /\ v[p].deep
      PROVE  Reconciled(r, s, v)
  <2>1. /\ s \in Runs /\ s.phase = "complete" /\ s.locked = FALSE /\ s.kids = FALSE
        /\ s.row = r.row
    BY DEF GoodRun, Runs, Phase, Terminal
  <2> HIDE DEF s
  <2>2. AllDeep(s, v)
    BY <1>2, <2>1 DEF AllDeep, Mined
  <2> QED
    BY <2>1, <2>2 DEF Reconciled, GoodRun
<1> QED
  BY <1>1, <1>2 DEF CompleteRun

LEMMA ReconcileReconciles ==
  ASSUME NEW r, GoodRun(r), NEW v
  PROVE  Reconciled(r, Reconcile(r, v), v)
<1> DEFINE s == ConfirmRows(r, v)
           t == ResumeRun(s)
<1>1. Reconciled(r, s, v) /\ GoodRun(s)
  BY ConfirmReconciles DEF Reconciled
<1>2. SameBuilds(s, t) /\ GoodRun(t)
  BY <1>1, ResumeSame DEF SameBuilds
<1>3. Reconciled(t, CompleteRun(t, v), v)
  BY <1>2, CompleteReconciles
<1> HIDE DEF s, t
<1>4. Reconciled(r, t, v)
  BY <1>1, <1>2, ReconciledThenSame
<1>5. Reconciled(r, CompleteRun(t, v), v)
  BY <1>3, <1>4, ReconciledTransitive
<1> QED
  BY <1>5 DEF Reconcile, s, t

LEMMA UpdateSame ==
  ASSUME NEW r, GoodRun(r)
  PROVE  SameBuilds(r, UpdateRunAfterBroadcast(r))
BY SetPhaseSame DEF UpdateRunAfterBroadcast, Phase, Terminal

LEMMA BroadcastedSame ==
  ASSUME NEW r, GoodRun(r), NEW p, NEW g
  PROVE  SameBuilds(r, MarkBroadcasted(r, p, g))
<1> DEFINE s == IF r.row[p].gen = g /\ p \in HasRow(r) THEN SetStatus(r, {p}, "broadcasted") ELSE r
<1>1. SameBuilds(r, r)
  BY DEF SameBuilds
<1>2. p \in HasRow(r) => SameBuilds(r, SetStatus(r, {p}, "broadcasted"))
  BY SetStatusSame DEF Status
<1>3. SameBuilds(r, s)
  BY <1>1, <1>2
<1> HIDE DEF s
<1>4. SameBuilds(s, UpdateRunAfterBroadcast(s))
  BY <1>3, UpdateSame DEF SameBuilds
<1>5. SameBuilds(r, UpdateRunAfterBroadcast(s))
  BY <1>3, <1>4, SameBuildsTransitive
<1> QED
  BY <1>5 DEF MarkBroadcasted, s

LEMMA RescheduleSame ==
  ASSUME NEW r, GoodRun(r), NEW h, NEW draw \in [Overdue(r, h) -> Nat]
  PROVE  SameBuilds(r, Reschedule(r, h, draw))
<1> DEFINE O == Overdue(r, h)
           off == {p \in O : Canonical(draw[p]) # r.row[p].exp}
           Row(p) == IF p \in O \ off THEN [r.row[p] EXCEPT !.sched = draw[p]] ELSE r.row[p]
           s == [r EXCEPT !.row = [p \in Parts |-> Row(p)]]
<1>1. \A p \in O : p \in Parts /\ r.row[p].status = "scheduled"
  BY DEF Overdue, With
<1> HIDE DEF off
<1>2. \A p \in Parts :
        /\ Row(p) \in Rows
        /\ Row(p).gen = r.row[p].gen /\ Row(p).exp = r.row[p].exp /\ Row(p).tried = r.row[p].tried
        /\ Row(p).status = r.row[p].status
  BY DEF GoodRun, Runs, Rows
<1> HIDE DEF Row
<1>3. [p \in Parts |-> Row(p)] \in [Parts -> Rows]
  BY <1>2
<1>4. /\ s \in Runs
      /\ s.kids = r.kids /\ s.locked = r.locked /\ s.phase = r.phase
      /\ s.row = [p \in Parts |-> Row(p)]
  BY <1>3 DEF GoodRun, Runs
<1> HIDE DEF s
<1>5. SameBuilds(r, s)
  BY <1>2, <1>4 DEF SameBuilds, GoodRun
<1>6. off \in SUBSET HasRow(s)
  BY <1>1, <1>2, <1>4 DEF HasRow, With, off
<1>7. SameBuilds(s, NeedResign(s, off))
  BY <1>5, <1>6, NeedResignSame DEF SameBuilds
<1>8. SameBuilds(r, NeedResign(s, off))
  BY <1>5, <1>7, SameBuildsTransitive
<1> QED
  BY <1>8 DEF Reschedule, s, Row, off

LEMMA ExpiredHaveRows ==
  \A r, raws, h : ExpiredParts(r, raws, h) \in SUBSET HasRow(r)
BY DEF ExpiredParts

LEMMA NoncanonicalHaveRows ==
  \A r, h : NoncanonicalDue(r, h) \in SUBSET HasRow(r)
BY DEF NoncanonicalDue, HasRow, With

LEMMA AttemptedEffect ==
  ASSUME NEW r, GoodRun(r), NEW p \in Parts, NEW s, s = MarkAttempted(r, p)
  PROVE  /\ GoodRun(s) /\ s.kids = r.kids /\ s.locked = r.locked /\ s.phase = r.phase
         /\ s.row[p].tried
         /\ \A q \in Parts :
              /\ s.row[q].gen = r.row[q].gen /\ s.row[q].exp = r.row[q].exp
              /\ s.row[q].status = r.row[q].status
              /\ r.row[q].tried => s.row[q].tried
<1>1. [r.row[p] EXCEPT !.tried = TRUE] \in Rows
  BY DEF GoodRun, Runs, Rows
<1>2. /\ s \in Runs /\ s.kids = r.kids /\ s.locked = r.locked /\ s.phase = r.phase
      /\ s.row = [r.row EXCEPT ![p] = [r.row[p] EXCEPT !.tried = TRUE]]
  BY <1>1 DEF MarkAttempted, GoodRun, Runs
<1>3. r.row \in [Parts -> Rows]
  BY DEF GoodRun, Runs
<1>4. /\ \A q \in Parts : q # p => s.row[q] = r.row[q]
      /\ s.row[p] = [r.row[p] EXCEPT !.tried = TRUE]
  BY <1>2, <1>3
<1>5. /\ s.row[p].tried = TRUE
      /\ s.row[p].gen = r.row[p].gen /\ s.row[p].exp = r.row[p].exp
      /\ s.row[p].status = r.row[p].status
  BY <1>3, <1>4 DEF Rows
<1>6. GoodRun(s)
  BY <1>2, <1>4, <1>5 DEF GoodRun
<1> QED
  BY <1>2, <1>4, <1>5, <1>6

LEMMA RetireEffect ==
  ASSUME NEW r, GoodRun(r)
  PROVE  LET s == Retire(r) IN
         GoodRun(s) /\ s.phase = "failed_terminal" /\ ~s.locked /\ s.kids = r.kids /\ s.row = r.row
BY DEF Retire, GoodRun, Runs, Phase, Terminal

LEMMA AbandonEffect ==
  ASSUME NEW r, GoodRun(r)
  PROVE  LET s == AbandonRun(r) IN
         /\ GoodRun(s) /\ s.phase = "abandoned" /\ ~s.locked /\ ~s.kids
         /\ \A p \in Parts : s.row[p] = r.row[p] \/ s.row[p] = NoRow
<1> DEFINE Row(p) == IF r.row[p].status \in {"scheduled", "needs_resign"} THEN NoRow ELSE r.row[p]
           s == AbandonRun(r)
<1>1. \A p \in Parts : Row(p) \in Rows /\ (Row(p) = r.row[p] \/ Row(p) = NoRow)
  BY RunAssumption DEF GoodRun, Runs, Rows, NoRow, Status
<1>2. s = [r EXCEPT !.phase = "abandoned", !.kids = FALSE, !.locked = FALSE,
                    !.row = [p \in Parts |-> Row(p)]]
  BY DEF AbandonRun
<1> HIDE DEF Row, s
<1>3. [p \in Parts |-> Row(p)] \in [Parts -> Rows]
  BY <1>1
<1>4. /\ s \in Runs /\ s.phase = "abandoned" /\ s.locked = FALSE /\ s.kids = FALSE
      /\ s.row = [p \in Parts |-> Row(p)]
  BY <1>2, <1>3 DEF GoodRun, Runs, Phase, Terminal
<1>5. GoodRun(s)
  BY <1>1, <1>4 DEF GoodRun, NoRow
<1> QED
  BY <1>1, <1>4, <1>5 DEF s

LEMMA ReplaceEffect ==
  ASSUME NEW r, GoodRun(r), NEW P \in SUBSET Parts,
         \A p \in P : r.row[p].gen < MaxGen,
         NEW build \in [P -> [sched : Nat, exp : Nat, target : Nat]],
         Replaceable(r, P, build)
  PROVE  LET s == ReplaceResigned(r, P, build) IN
         /\ GoodRun(s) /\ s.phase = "broadcast_scheduled" /\ s.locked = r.locked /\ s.kids = r.kids
         /\ \A p \in Parts \ P : s.row[p] = r.row[p]
         /\ \A p \in P : s.row[p].gen = r.row[p].gen + 1 /\ s.row[p].status = "scheduled"
                           /\ r.row[p].status # "none"
<1> DEFINE Row(p) == IF p \in P
              THEN [gen |-> r.row[p].gen + 1, status |-> "scheduled", sched |-> build[p].sched,
                    exp |-> build[p].exp, target |-> build[p].target, tried |-> FALSE]
              ELSE r.row[p]
           Kid(p) == IF p \in P THEN build[p].sched ELSE r.kid[p]
           KidExp(p) == IF p \in P THEN build[p].exp ELSE r.kidExp[p]
           s == ReplaceResigned(r, P, build)
<1>1. \A p \in Parts : Row(p) \in Rows
  BY RunAssumption DEF GoodRun, Runs, Rows, Status
<1>2. \A p \in Parts : Kid(p) \in Nat /\ KidExp(p) \in Nat
  BY DEF GoodRun, Runs
<1>3. s = [[r EXCEPT !.row = [p \in Parts |-> Row(p)], !.kid = [p \in Parts |-> Kid(p)],
                     !.kidExp = [p \in Parts |-> KidExp(p)]] EXCEPT !.phase = "broadcast_scheduled"]
  BY DEF ReplaceResigned, SetPhase
<1>4. /\ \A p \in Parts \ P : Row(p) = r.row[p]
      /\ \A p \in P : Row(p).gen = r.row[p].gen + 1 /\ Row(p).status = "scheduled"
  OBVIOUS
<1> HIDE DEF Row, Kid, KidExp, s
<1>5. /\ [p \in Parts |-> Row(p)] \in [Parts -> Rows]
      /\ [p \in Parts |-> Kid(p)] \in [Parts -> Nat]
      /\ [p \in Parts |-> KidExp(p)] \in [Parts -> Nat]
  BY <1>1, <1>2
<1>6. /\ s \in Runs /\ s.phase = "broadcast_scheduled" /\ s.locked = r.locked /\ s.kids = r.kids
      /\ s.row = [p \in Parts |-> Row(p)]
  BY <1>3, <1>5 DEF GoodRun, Runs, Phase, Terminal
<1>7. \A p \in P : r.row[p].gen \in Nat /\ r.row[p].status # "none"
  BY DEF GoodRun, Runs, Rows, Replaceable
<1>8. GoodRun(s)
  BY <1>4, <1>6, <1>7 DEF GoodRun
<1> QED
  BY <1>4, <1>6, <1>7, <1>8 DEF s

LEMMA RebaseEffect ==
  ASSUME NEW r, GoodRun(r), NEW scanned \in Nat
  PROVE  LET s == RebaseInitialSchedule(r, scanned) IN
         GoodRun(s) /\ s.row = r.row /\ s.phase = r.phase /\ s.locked = r.locked /\ s.kids = r.kids
<1> DEFINE new == IF scanned > r.origin THEN scanned ELSE r.origin
           moved == [p \in Parts |-> new + (r.kid[p] - r.origin)]
<1>1. r.origin \in Nat /\ r.kid \in [Parts -> Nat]
  BY DEF GoodRun, Runs
<1>2. new \in Nat /\ moved \in [Parts -> Nat]
  BY <1>1
<1> HIDE DEF new, moved
<1>3. LET s == [r EXCEPT !.rebased = TRUE] IN
      GoodRun(s) /\ s.row = r.row /\ s.phase = r.phase /\ s.locked = r.locked /\ s.kids = r.kids
  BY DEF GoodRun, Runs
<1>4. LET s == [r EXCEPT !.kid = moved, !.origin = new, !.rebased = TRUE] IN
      GoodRun(s) /\ s.row = r.row /\ s.phase = r.phase /\ s.locked = r.locked /\ s.kids = r.kids
  BY <1>2 DEF GoodRun, Runs
<1> QED
  BY <1>3, <1>4 DEF RebaseInitialSchedule, new, moved

LEMMA PromoteEffect ==
  ASSUME NEW r, GoodRun(r), NEW scanned \in Nat, NEW p \in Parts
  PROVE  LET s == Promote(r, p, scanned) IN
         /\ GoodRun(s) /\ s.phase = "broadcast_scheduled" /\ s.locked = r.locked /\ s.kids = r.kids
         /\ \A q \in Parts \ {p} : s.row[q] = r.row[q]
         /\ s.row[p].gen = 1 /\ s.row[p].status = "scheduled"
<1> DEFINE t == RebaseInitialSchedule(r, scanned)
           new == [gen |-> 1, status |-> "scheduled", sched |-> t.kid[p], exp |-> t.kidExp[p],
                   target |-> t.signed, tried |-> FALSE]
           s == Promote(r, p, scanned)
<1>1. GoodRun(t) /\ t.row = r.row /\ t.phase = r.phase /\ t.locked = r.locked /\ t.kids = r.kids
  BY RebaseEffect
<1>2. s = [[t EXCEPT !.row[p] = new] EXCEPT !.phase = "broadcast_scheduled"]
  BY DEF Promote, PromoteRow, SetPhase
<1> HIDE DEF t, s
<1>3. new \in Rows
  BY <1>1, RunAssumption DEF GoodRun, Runs, Rows, Status
<1>4. new.gen = 1 /\ new.status = "scheduled"
  OBVIOUS
<1> HIDE DEF new
<1>5. /\ s \in Runs /\ s.phase = "broadcast_scheduled" /\ s.locked = t.locked /\ s.kids = t.kids
      /\ s.row = [t.row EXCEPT ![p] = new]
  BY <1>1, <1>2, <1>3 DEF GoodRun, Runs, Phase, Terminal
<1>6. /\ \A q \in Parts \ {p} : s.row[q] = r.row[q]
      /\ s.row[p] = new
  BY <1>1, <1>5 DEF GoodRun, Runs
<1>7. GoodRun(s)
  BY <1>1, <1>4, <1>5, <1>6 DEF GoodRun
<1> QED
  BY <1>1, <1>4, <1>5, <1>6, <1>7 DEF s

LEMMA MarkExpiredReconciles ==
  ASSUME NEW r, GoodRun(r), NEW v, NEW raws, NEW h
  PROVE  Reconciled(r, MarkExpired(r, v, raws, h), v)
<1> DEFINE s == Reconcile(r, v)
<1>1. Reconciled(r, s, v) /\ GoodRun(s)
  BY ReconcileReconciles DEF Reconciled
<1> HIDE DEF s
<1>2. SameBuilds(s, ExpireRows(s, raws, h))
  BY <1>1, NeedResignSame, ExpiredHaveRows DEF ExpireRows
<1> QED
  BY <1>1, <1>2, ReconciledThenSame DEF MarkExpired, s

LEMMA MarkNoncanonicalReconciles ==
  ASSUME NEW r, GoodRun(r), NEW v, NEW h
  PROVE  Reconciled(r, MarkNoncanonical(r, v, h), v)
<1> DEFINE s == Reconcile(r, v)
<1>1. Reconciled(r, s, v) /\ GoodRun(s)
  BY ReconcileReconciles DEF Reconciled
<1> HIDE DEF s
<1>2. SameBuilds(s, NoncanonicalRows(s, h))
  BY <1>1, NeedResignSame, NoncanonicalHaveRows DEF NoncanonicalRows
<1> QED
  BY <1>1, <1>2, ReconciledThenSame DEF MarkNoncanonical, s

-----------------------------------------------------------------------------
(* Types *)

Transactions == Parts \X (1 .. MaxGen)
Blocks == [gen : (0 .. MaxGen) \union {Outsider}, exp : Nat, deep : BOOLEAN]
HasCur == {"mark", "attempt", "send", "answer", "storeTx", "record"}

AppOK ==
  /\ GoodRun(run) /\ raw \subseteq Transactions
  /\ dtip \in Nat /\ todo \subseteq Parts
  /\ cur \in Transactions \union {NoTx}
  /\ pc \in HasCur => cur \in Transactions
  /\ pc = "stop" => todo \subseteq HasRow(run)

(* A part has at most one transaction in the pool, and none once it is mined. *)
NetOK ==
  /\ tip \in Nat /\ tip <= MaxTip
  /\ wire \subseteq [tx : Transactions, exp : Nat] /\ pool \subseteq [tx : Transactions, exp : Nat]
  /\ chain \in [Parts -> Blocks]
  /\ \A p \in Parts : chain[p].deep => chain[p].gen # 0
  /\ \A x \in pool : chain[x.tx[1]].gen = 0
  /\ \A x, y \in pool : x.tx[1] = y.tx[1] => x = y

(* What the wallet has scanned at trusted depth is on the chain for good. *)
SyncOK ==
  /\ known \in Nat /\ seen \in Nat /\ seen <= known /\ known <= tip
  /\ view \in [Parts -> Blocks] /\ met \subseteq Transactions
  /\ \A p \in Parts : view[p].deep => chain[p].deep /\ chain[p].gen = view[p].gen

TypeInv == AppOK /\ NetOK /\ SyncOK

LEMMA TypeInvInit == Init => TypeInv
<1> SUFFICES ASSUME Init PROVE TypeInv
  OBVIOUS
<1>1. \A p \in Parts : Canonical(Signed[p]) \in Nat
  BY CanonicalNat, RunAssumption
<1>2. [p \in Parts |-> NoRow] \in [Parts -> Rows]
  BY RunAssumption DEF NoRow, Rows, Status
<1>3. [p \in Parts |-> Canonical(Signed[p])] \in [Parts -> Nat]
  BY <1>1
<1>4. run \in Runs
  BY <1>2, <1>3, RunAssumption DEF Init, Runs, Phase, Terminal
<1>5. GoodRun(run)
  BY <1>4 DEF Init, GoodRun, NoRow
<1>6. Unmined \in Blocks /\ ~Unmined.deep /\ Unmined.gen = 0
  BY RunAssumption DEF Unmined, Blocks
<1> HIDE DEF Unmined
<1>7. AppOK
  BY <1>5 DEF Init, AppOK, HasCur
<1>8. NetOK
  BY <1>6, RunAssumption DEF Init, NetOK
<1>9. SyncOK
  BY <1>6, RunAssumption DEF Init, SyncOK
<1> QED
  BY <1>7, <1>8, <1>9 DEF TypeInv

LEMMA NetworkKeepsTypes == TypeInv /\ Network => TypeInv'
<1> SUFFICES ASSUME TypeInv, Network PROVE TypeInv'
  OBVIOUS
<1> USE DEF TypeInv
<1>1. AppOK'
  <2>1. UNCHANGED <<app, db>>
    BY DEF Network, Deliver, Lose, Block, Deepen, Reorg, SpendOutside
  <2> QED
    BY <2>1 DEF AppOK, app, db, GoodRun, HasRow, With
<1>2. UNCHANGED sync
  BY DEF Network, Deliver, Lose, Block, Deepen, Reorg, SpendOutside
<1>3. ASSUME NetOK', tip' \in {tip, tip + 1},
             \A p \in Parts : chain[p].deep => chain'[p].deep /\ chain'[p].gen = chain[p].gen
      PROVE  TypeInv'
  BY <1>1, <1>2, <1>3 DEF SyncOK, NetOK, sync
<1>4. ASSUME NEW x \in wire, Deliver(x) PROVE TypeInv'
  BY <1>3, <1>4 DEF Deliver, NetOK
<1>5. ASSUME NEW x \in wire, Lose(x) PROVE TypeInv'
  BY <1>3, <1>5 DEF Lose, NetOK
<1>6. ASSUME NEW M \in SUBSET pool, Block(M) PROVE TypeInv'
  <2> DEFINE Mines(p) == \E x \in M : x.tx[1] = p
             Of(p) == CHOOSE x \in M : x.tx[1] = p
  <2>1. \A p \in Parts : Mines(p) => /\ Of(p) \in pool /\ Of(p).tx[1] = p
                                    /\ Of(p).tx[2] \in 1 .. MaxGen /\ Of(p).exp \in Nat
    BY DEF NetOK, Transactions
  <2>2. chain' = [p \in Parts |-> IF Mines(p)
                    THEN [gen |-> Of(p).tx[2], exp |-> Of(p).exp, deep |-> FALSE]
                    ELSE chain[p]]
    BY <1>6 DEF Block
  <2> HIDE DEF Of
  <2>3. chain' \in [Parts -> Blocks]
    BY <2>1, <2>2, RunAssumption DEF NetOK, Blocks
  <2>4. \A p \in Parts : chain[p].deep => ~Mines(p)
    BY DEF NetOK
  <2>5. \A p \in Parts : /\ chain'[p].deep => chain[p].deep /\ chain'[p].gen = chain[p].gen
                         /\ chain[p].deep => chain'[p].deep /\ chain'[p].gen = chain[p].gen
    BY <2>2, <2>4
  <2>6. \A x \in pool' : x \in pool /\ x \notin M
    BY <1>6 DEF Block
  <2>7. \A x \in pool' : x.tx[1] \in Parts /\ ~Mines(x.tx[1])
    BY <2>6 DEF NetOK, Transactions
  <2>8. \A x \in pool' : chain'[x.tx[1]].gen = 0
    BY <2>2, <2>6, <2>7 DEF NetOK
  <2>10. tip' \in Nat /\ tip' <= MaxTip /\ wire' = wire
    BY <1>6, RunAssumption DEF NetOK, Block
  <2>11. \A p \in Parts : chain'[p].deep => chain'[p].gen # 0
    BY <2>5 DEF NetOK
  <2>12. pool' \subseteq [tx : Transactions, exp : Nat]
    BY <2>6 DEF NetOK
  <2>13. \A x, y \in pool' : x.tx[1] = y.tx[1] => x = y
    BY <2>6 DEF NetOK
  <2>9. NetOK'
    BY <2>3, <2>8, <2>10, <2>11, <2>12, <2>13 DEF NetOK
  <2> QED
    BY <1>3, <1>6, <2>5, <2>9 DEF Block
<1>7. ASSUME NEW p \in Parts, Deepen(p) PROVE TypeInv'
  <2>1. chain' \in [Parts -> Blocks] /\ \A q \in Parts : chain'[q].gen = chain[q].gen
    BY <1>7 DEF Deepen, NetOK, Blocks
  <2>2. \A q \in Parts : chain'[q].deep <=> (chain[q].deep \/ q = p)
    BY <1>7 DEF Deepen, NetOK, Blocks
  <2>3. NetOK'
    BY <1>7, <2>1, <2>2 DEF Deepen, NetOK, Transactions
  <2> QED
    BY <1>3, <1>7, <2>1, <2>2, <2>3 DEF Deepen
<1>8. ASSUME NEW p \in Parts, Reorg(p) PROVE TypeInv'
  <2>1. /\ chain' = [chain EXCEPT ![p] = Unmined] /\ Unmined \in Blocks
        /\ Unmined.gen = 0 /\ ~Unmined.deep
    BY <1>8, RunAssumption DEF Reorg, Unmined, Blocks
  <2>2. \A x \in pool : x.tx[1] \in Parts /\ x.tx[1] # p
    BY <1>8 DEF Reorg, NetOK, Transactions
  <2>3. /\ chain' \in [Parts -> Blocks]
        /\ \A q \in Parts : q # p => chain'[q] = chain[q]
        /\ chain'[p].gen = 0 /\ ~chain'[p].deep
    BY <2>1 DEF NetOK
  <2>4. CASE pool' = pool
    <3>1. NetOK'
      BY <1>8, <2>2, <2>3, <2>4 DEF Reorg, NetOK
    <3> QED
      BY <1>3, <1>8, <2>3, <3>1 DEF Reorg
  <2>5. CASE /\ chain[p].gen # Outsider /\ chain[p].exp > tip
             /\ pool' = pool \union {[tx |-> <<p, chain[p].gen>>, exp |-> chain[p].exp]}
    <3>1. chain[p].gen \in 1 .. MaxGen /\ chain[p].exp \in Nat
      BY <1>8, <2>5, RunAssumption DEF Reorg, NetOK, Blocks
    <3>2. [tx |-> <<p, chain[p].gen>>, exp |-> chain[p].exp] \in [tx : Transactions, exp : Nat]
      BY <3>1 DEF Transactions
    <3>3. NetOK'
      BY <1>8, <2>2, <2>3, <2>5, <3>2 DEF Reorg, NetOK
    <3> QED
      BY <1>3, <1>8, <2>3, <3>3 DEF Reorg
  <2> QED
    BY <1>8, <2>4, <2>5 DEF Reorg
<1>9. ASSUME NEW p \in Parts, SpendOutside(p) PROVE TypeInv'
  <2>1. [gen |-> Outsider, exp |-> 0, deep |-> FALSE] \in Blocks
    BY DEF Blocks
  <2>2. /\ chain' \in [Parts -> Blocks]
        /\ \A q \in Parts : q # p => chain'[q] = chain[q]
        /\ ~chain'[p].deep
    BY <1>9, <2>1 DEF SpendOutside, NetOK
  <2>3. \A x \in pool : x.tx[1] \in Parts
    BY DEF NetOK, Transactions
  <2>4. NetOK'
    BY <1>9, <2>2, <2>3 DEF SpendOutside, NetOK
  <2> QED
    BY <1>3, <1>9, <2>2, <2>4 DEF SpendOutside, NetOK
<1> QED
  BY <1>4, <1>5, <1>6, <1>7, <1>8, <1>9 DEF Network

LEMMA SyncKeepsTypes == TypeInv /\ (LearnTip \/ Scan) => TypeInv'
<1> SUFFICES ASSUME TypeInv, LearnTip \/ Scan PROVE TypeInv'
  OBVIOUS
<1>1. UNCHANGED <<app, db, net>>
  BY DEF LearnTip, Scan
<1>2. AppOK' /\ NetOK'
  BY <1>1 DEF TypeInv, AppOK, NetOK, app, db, net, GoodRun, HasRow, With
<1>3. SyncOK'
  BY DEF LearnTip, Scan, Found, Transactions, TypeInv, SyncOK, NetOK, net
<1> QED
  BY <1>2, <1>3 DEF TypeInv

Operation ==
  (\E f \in {"migrate", "due"} : Begin(f)) \/ App \/ StopBegin \/ RetireUnbroadcast \/ Crash \/ SyncReconcile

LEMMA OperationKeepsNetwork == Operation => UNCHANGED <<known, seen, view, met, tip, chain, pool>>
BY DEF Operation, App, Begin, RetryStore, Policy, CountExpired, ExpireParts, Rebuild, PromoteChild,
       PromoteDone, CheckCanonical, SelectDue, MarkBroadcasting, Attempt, Send, AnswerAccepted,
       AnswerRejected, AnswerFailed, StoreAccepted, Record, Redraw, StopReconcile, StopAbandon,
       StopBegin, RetireUnbroadcast, Crash, SyncReconcile, sync, net

\* The transaction of a part that has a row.
LEMMA RowTransaction ==
  ASSUME NEW r, GoodRun(r), NEW p \in HasRow(r)
  PROVE  p \in Parts /\ r.row[p].gen \in 1 .. MaxGen /\ r.row[p].exp \in Nat
         /\ <<p, r.row[p].gen>> \in Transactions
BY DEF GoodRun, Runs, Rows, HasRow, With, Transactions

LEMMA OperationKeepsAppOK == TypeInv /\ Operation => AppOK'
<1> SUFFICES ASSUME TypeInv, Operation PROVE AppOK'
  OBVIOUS
<1>0. AppOK /\ GoodRun(run) /\ raw \subseteq Transactions /\ known \in Nat /\ seen \in Nat /\ dtip \in Nat
  BY DEF TypeInv, AppOK, SyncOK
<1>1. ASSUME Return, GoodRun(run'), raw' \subseteq Transactions PROVE AppOK'
  BY <1>1 DEF Return, AppOK, HasCur
<1>2. ASSUME NEW l, Goto(l), GoodRun(run'), raw' \subseteq Transactions,
             l \in HasCur => pc \in HasCur, l # "stop"
      PROVE  AppOK'
  BY <1>0, <1>2 DEF Goto, AppOK
<1>3. ASSUME NEW s, Reconciled(run, s, view) \/ SameBuilds(run, s) PROVE GoodRun(s)
  BY <1>3 DEF Reconciled, SameBuilds
<1>4. ASSUME NEW f, Begin(f) PROVE AppOK'
  BY <1>0, <1>4 DEF Begin, AppOK, HasCur, db
<1>5. CASE RetryStore
  <2>1. GoodRun(run')
    BY <1>0, <1>3, <1>5, ReconcileReconciles DEF RetryStore
  <2>2. raw' \subseteq Transactions
    <3>1. PICK S \in SUBSET Missing(run, raw) : raw' = raw \union {Tx(p) : p \in S}
      BY <1>5 DEF RetryStore
    <3>2. \A p \in S : p \in HasRow(run)
      BY <3>1 DEF Missing, HasRow, With
    <3>3. \A p \in S : Tx(p) \in Transactions
      BY <1>0, <3>2, RowTransaction DEF Tx
    <3> QED
      BY <1>0, <3>1, <3>3
  <2>3. Goto("policy") \/ Return
    BY <1>5 DEF RetryStore
  <2> QED
    BY <1>1, <1>2, <2>1, <2>2, <2>3 DEF HasCur
<1>6. CASE Policy
  <2>1. GoodRun(run') /\ raw' = raw
    BY <1>0, <1>6, RetireEffect DEF Policy
  <2>2. Return \/ Goto("expire") \/ Goto("expiry")
    BY <1>6 DEF Policy
  <2> QED
    BY <1>0, <1>1, <1>2, <2>1, <2>2 DEF HasCur
<1>7. CASE CountExpired
  <2>1. GoodRun(run') /\ raw' = raw
    BY <1>0, <1>3, <1>7, ReconcileReconciles DEF CountExpired
  <2>2. Goto("expire") \/ Goto("canonical")
    BY <1>7 DEF CountExpired
  <2> QED
    BY <1>0, <1>2, <2>1, <2>2 DEF HasCur
<1>8. CASE ExpireParts
  <2>1. GoodRun(run') /\ raw' = raw
    BY <1>0, <1>3, <1>8, MarkExpiredReconciles DEF ExpireParts
  <2>2. Goto("rebuild") \/ Return
    BY <1>8 DEF ExpireParts
  <2> QED
    BY <1>0, <1>1, <1>2, <2>1, <2>2 DEF HasCur
<1>9. CASE Rebuild
  <2> DEFINE P == With(run, "needs_resign")
  <2>1. CASE \E p \in P : view[p].gen # 0
    BY <1>0, <1>1, <1>9, <2>1 DEF Rebuild
  <2>2. CASE ~ \E p \in P : view[p].gen # 0
    <3>1. PICK s \in [P -> {dtip + d : d \in Delays}] :
               LET build == [p \in P |-> [sched |-> s[p], exp |-> Canonical(s[p]), target |-> dtip]]
               IN /\ Replaceable(run, P, build)
                  /\ run' = IF P = {} THEN run ELSE ReplaceResigned(run, P, build)
      BY <1>9, <2>2 DEF Rebuild
    <3> DEFINE build == [p \in P |-> [sched |-> s[p], exp |-> Canonical(s[p]), target |-> dtip]]
    <3>2. \A p \in P : s[p] \in Nat /\ Canonical(s[p]) \in Nat
      BY <1>0, CanonicalNat, DelaysNat
    <3>3. build \in [P -> [sched : Nat, exp : Nat, target : Nat]]
      BY <1>0, <3>2
    <3>4. \A p \in P : run.row[p].gen < MaxGen
      BY <1>9, <2>2 DEF Rebuild
    <3>5. P \in SUBSET Parts
      BY DEF With
    <3>6. GoodRun(ReplaceResigned(run, P, build))
      <4> HIDE DEF P, build
      <4>1. Replaceable(run, P, build)
        BY <3>1 DEF P, build
      <4> QED
        BY <1>0, <3>3, <3>4, <3>5, <4>1, ReplaceEffect
    <3>7. GoodRun(run')
      BY <1>0, <3>1, <3>6
    <3>8. pc' = "promote" /\ todo' = {} /\ UNCHANGED <<flow, cur, dtip, raw>>
      BY <1>9, <2>2 DEF Rebuild
    <3> QED
      BY <1>0, <3>7, <3>8 DEF AppOK, HasCur
  <2> QED
    BY <2>1, <2>2
<1>10. ASSUME NEW p \in Parts, PromoteChild(p) PROVE AppOK'
  <2>1. GoodRun(run')
    BY <1>0, <1>10, PromoteEffect DEF PromoteChild
  <2> QED
    BY <1>0, <1>10, <2>1 DEF PromoteChild, AppOK, HasCur
<1>11. CASE PromoteDone
  <2>1. run' = run /\ raw' = raw
    BY <1>11 DEF PromoteDone, db
  <2>2. Return => AppOK'
    BY <1>0, <1>1, <2>1
  <2>3. ~Return => AppOK'
    BY <1>0, <1>11, <2>1 DEF PromoteDone, AppOK, HasCur
  <2> QED
    BY <2>2, <2>3
<1>12. CASE CheckCanonical
  <2>1. GoodRun(run') /\ raw' = raw
    BY <1>0, <1>3, <1>12, MarkNoncanonicalReconciles DEF CheckCanonical
  <2>2. Goto("due") \/ Return
    BY <1>12 DEF CheckCanonical
  <2> QED
    BY <1>0, <1>1, <1>2, <2>1, <2>2 DEF HasCur
<1>13. CASE SelectDue
  <2>1. GoodRun(run') /\ raw' = raw
    BY <1>0, <1>3, <1>13, ReconcileReconciles DEF SelectDue
  <2>2. CASE Return
    BY <1>0, <1>1, <2>1, <2>2
  <2>3. CASE ~Return
    <3>1. PICK p \in DueParts(run', view, dtip) :
             pc' = "mark" /\ cur' = <<p, run'.row[p].gen>> /\ UNCHANGED <<flow, dtip, todo>>
      BY <1>13, <2>3 DEF SelectDue
    <3>2. p \in HasRow(run')
      BY DEF DueParts, HasRow, With
    <3>3. cur' \in Transactions
      BY <2>1, <3>1, <3>2, RowTransaction
    <3> QED
      BY <1>0, <2>1, <3>1, <3>3 DEF AppOK
  <2> QED
    BY <2>2, <2>3
<1>14. CASE MarkBroadcasting
  <2>1. GoodRun(run') /\ raw' = raw
    BY <1>0, <1>3, <1>14, SetPhaseSame DEF MarkBroadcasting, Phase, Terminal
  <2> QED
    BY <1>0, <1>2, <1>14, <2>1 DEF MarkBroadcasting, HasCur
<1>15. CASE Attempt
  <2>1. cur[1] \in Parts /\ pc \in HasCur
    BY <1>0, <1>15 DEF Attempt, AppOK, HasCur, Transactions
  <2>2. GoodRun(run') /\ raw' = raw
    BY <1>0, <1>15, <2>1, AttemptedEffect DEF Attempt
  <2>3. Goto("send") \/ Return
    BY <1>15 DEF Attempt
  <2> QED
    BY <1>0, <1>1, <1>2, <2>1, <2>2, <2>3
<1>16. CASE Send \/ AnswerAccepted
  <2>1. run' = run /\ raw' = raw /\ pc \in HasCur
    BY <1>16 DEF Send, AnswerAccepted, db, HasCur
  <2>2. Goto("answer") \/ Goto("storeTx")
    BY <1>16 DEF Send, AnswerAccepted
  <2> QED
    BY <1>0, <1>2, <2>1, <2>2
<1>17. CASE AnswerRejected
  BY <1>0, <1>1, <1>17, RetireEffect DEF AnswerRejected
<1>18. CASE AnswerFailed
  <2>1. GoodRun(run')
    BY <1>0, <1>3, <1>18, SetPhaseSame DEF AnswerFailed, Phase, Terminal
  <2> QED
    BY <1>0, <1>1, <1>18, <2>1 DEF AnswerFailed
<1>19. CASE StoreAccepted
  <2>1. cur \in Transactions /\ pc \in HasCur
    BY <1>0, <1>19 DEF StoreAccepted, AppOK, HasCur
  <2> QED
    BY <1>0, <1>2, <1>19, <2>1 DEF StoreAccepted
<1>20. CASE Record
  <2>1. GoodRun(run')
    BY <1>0, <1>3, <1>20, BroadcastedSame DEF Record
  <2> QED
    BY <1>0, <1>2, <1>20, <2>1 DEF Record, HasCur
<1>21. CASE Redraw
  <2>1. PICK draw \in [Overdue(run, dtip) -> {dtip + d : d \in Delays}] : run' = Reschedule(run, dtip, draw)
    BY <1>21 DEF Redraw
  <2>0. {dtip + d : d \in Delays} \subseteq Nat
    BY <1>0, DelaysNat
  <2>2. draw \in [Overdue(run, dtip) -> Nat]
    BY <2>0
  <2>3. GoodRun(run')
    BY <1>0, <1>3, <2>1, <2>2, RescheduleSame
  <2> QED
    BY <1>0, <1>1, <1>21, <2>3 DEF Redraw
<1>22. ASSUME NEW p \in Parts, StopReconcile(p) PROVE AppOK'
  <2>1. pc = "stop"
    BY <1>22 DEF StopReconcile
  <2>2. CASE OnNetwork(Tx(p))
    <3>1. GoodRun(run')
      BY <1>0, <1>3, <1>22, <2>2, BroadcastedSame DEF StopReconcile
    <3>2. raw' = raw \union {Tx(p)} /\ todo' = todo \ {p} /\ UNCHANGED <<pc, cur, dtip>>
      BY <1>22, <2>2 DEF StopReconcile
    <3>3. Tx(p) \in Transactions
      BY <1>0, <1>22, <2>1, RowTransaction DEF StopReconcile, AppOK, Tx
    <3>4. todo' \subseteq HasRow(run')
      <4>1. SameBuilds(run, run')
        BY <1>0, <1>22, <2>2, BroadcastedSame DEF StopReconcile
      <4> QED
        BY <1>0, <2>1, <3>2, <4>1 DEF AppOK, SameBuilds, HasRow, With
    <3> QED
      <4>1. todo' \subseteq Parts /\ raw' \subseteq Transactions
        BY <1>0, <3>2, <3>3 DEF AppOK
      <4> QED
        BY <1>0, <2>1, <3>1, <3>2, <3>4, <4>1 DEF AppOK, HasCur
  <2>3. CASE ~OnNetwork(Tx(p))
    <3>1. run' = run /\ raw' = raw
      BY <1>22, <2>3 DEF StopReconcile, db
    <3>2. CASE Return
      BY <1>0, <1>1, <3>1, <3>2
    <3>3. CASE ~Return
      <4>1. todo' = todo \ {p} /\ UNCHANGED <<pc, flow, cur, dtip>>
        BY <1>22, <2>3, <3>3 DEF StopReconcile
      <4> QED
        BY <1>0, <2>1, <3>1, <4>1 DEF AppOK, HasCur
    <3> QED
      BY <3>2, <3>3
  <2> QED
    BY <2>2, <2>3
<1>23. CASE StopAbandon
  <2>1. GoodRun(run') /\ raw' = raw
    BY <1>0, <1>23, AbandonEffect DEF StopAbandon
  <2> QED
    BY <1>0, <1>1, <1>23, <2>1 DEF StopAbandon
<1>24. CASE StopBegin
  <2>1. StopCandidates(run, raw) \subseteq HasRow(run) /\ HasRow(run) \subseteq Parts
    BY DEF StopCandidates, HasRow
  <2> QED
    BY <1>0, <1>24, <2>1 DEF StopBegin, AppOK, HasCur, db
<1>25. CASE RetireUnbroadcast
  BY <1>0, <1>25, RetireEffect DEF RetireUnbroadcast, AppOK, app
<1>26. CASE Crash
  BY <1>0, <1>1, <1>26 DEF Crash, db
<1>27. CASE SyncReconcile
  <2>1. GoodRun(run') /\ Reconciled(run, run', view)
    BY <1>0, <1>3, <1>27, ReconcileReconciles DEF SyncReconcile
  <2>2. HasRow(run') = HasRow(run)
    BY <2>1 DEF Reconciled, HasRow, With
  <2> QED
    BY <1>0, <1>27, <2>1, <2>2 DEF SyncReconcile, AppOK, app
<1> QED
  BY <1>4, <1>5, <1>6, <1>7, <1>8, <1>9, <1>10, <1>11, <1>12, <1>13, <1>14, <1>15, <1>16, <1>17,
     <1>18, <1>19, <1>20, <1>21, <1>22, <1>23, <1>24, <1>25, <1>26, <1>27 DEF Operation, App

LEMMA TypesHold == Spec => []TypeInv
<1>1. TypeInv /\ [Next]_vars => TypeInv'
  <2> SUFFICES ASSUME TypeInv, [Next]_vars PROVE TypeInv'
    OBVIOUS
  <2>1. CASE Operation
    <3>1. UNCHANGED <<known, seen, view, met, tip, chain, pool>> /\ AppOK'
      BY <2>1, OperationKeepsNetwork, OperationKeepsAppOK
    <3>2. wire' \subseteq [tx : Transactions, exp : Nat]
      <4>1. CASE Send
        <5>1. cur \in Transactions
          BY <4>1 DEF Send, TypeInv, AppOK, HasCur
        <5>2. cur[1] \in Parts
          BY <5>1 DEF Transactions
        <5>3. Exp(cur) \in Nat
          BY <5>2 DEF Exp, TypeInv, AppOK, GoodRun, Runs, Rows
        <5>4. [tx |-> cur, exp |-> Exp(cur)] \in [tx : Transactions, exp : Nat]
          BY <5>1, <5>3
        <5> QED
          BY <4>1, <5>4 DEF Send, TypeInv, NetOK
      <4>2. CASE wire' = wire
        BY <4>2 DEF TypeInv, NetOK
      <4> QED
        BY <2>1, <4>1, <4>2 DEF Operation, App, Begin, RetryStore, Policy, CountExpired, ExpireParts,
           Rebuild, PromoteChild, PromoteDone, CheckCanonical, SelectDue, MarkBroadcasting, Attempt,
           AnswerAccepted, AnswerRejected, AnswerFailed, StoreAccepted, Record, Redraw,
           StopReconcile, StopAbandon, StopBegin, RetireUnbroadcast, Crash, SyncReconcile, net
    <3> QED
      BY <3>1, <3>2 DEF TypeInv, NetOK, SyncOK
  <2>2. CASE LearnTip \/ Scan
    BY <2>2, SyncKeepsTypes
  <2>3. CASE Network
    BY <2>3, NetworkKeepsTypes
  <2>4. CASE UNCHANGED vars
    BY <2>4 DEF vars, app, db, sync, net, TypeInv, AppOK, NetOK, SyncOK, GoodRun, HasRow, With
  <2> QED
    BY <2>1, <2>2, <2>3, <2>4 DEF Next, Operation
<1> QED
  BY <1>1, TypeInvInit, PTL DEF Spec

\* The rows of the run, the raw transactions of the wallet and the heights keep their types.
THEOREM TypesAreKept == Spec => []TypeOK
<1>1. TypeInv => TypeOK
  <2> SUFFICES ASSUME TypeInv PROVE TypeOK
    OBVIOUS
  <2>1. run \in Runs
    BY DEF TypeInv, AppOK, GoodRun
  <2>2. /\ run.phase \in Phase /\ run.row \in [Parts -> Rows]
        /\ run.kid \in [Parts -> Nat] /\ run.kids \in BOOLEAN /\ run.locked \in BOOLEAN
    BY <2>1 DEF Runs
  <2> QED
    BY <2>2 DEF TypeInv, AppOK, NetOK, SyncOK, TypeOK, Rows, Transactions
<1> QED
  BY <1>1, TypesHold, PTL

-----------------------------------------------------------------------------
(* The builds the network holds, the reservation and completion *)

\* Build g of part p is mined, in the pool or on its way to it.
Live(p, g) == chain[p].gen = g \/ \E x \in pool \union wire : x.tx = <<p, g>>

(* The network holds no build the rows do not know: the builds of a part    *)
(* that has a row are at most the row's own, which was then marked as       *)
(* attempted; a part without a row was never sent, or the run was abandoned. *)
Recorded ==
  \A p \in Parts, g \in 1 .. MaxGen : Live(p, g) =>
     \/ /\ run.row[p].status # "none" /\ g <= run.row[p].gen
        /\ g = run.row[p].gen => run.row[p].tried
     \/ run.row[p].status = "none" /\ ~run.kids

(* What is about to be sent is the transaction of its row, and is marked. *)
Ready ==
  pc = "send" => /\ run.row[cur[1]].gen = cur[2] /\ run.row[cur[1]].tried
                 /\ run.row[cur[1]].status # "none"

Moved == \A p \in Parts : chain[p].deep /\ chain[p].gen # Outsider

(* Notes that were released are either out of the app's hands or moved. *)
Reserved == run.locked \/ (pc = "idle" /\ run.phase \in Terminal) \/ Moved

RunInv == Recorded /\ Ready /\ Reserved /\ CompleteMeansMigrated

LEMMA RunInvInit == Init => RunInv
BY RunAssumption DEF Init, RunInv, Recorded, Ready, Reserved, CompleteMeansMigrated, Live, Unmined, NoRow

LEMMA NetworkKeepsRunInv == TypeInv /\ RunInv /\ Network => RunInv'
<1> SUFFICES ASSUME TypeInv, RunInv, Network PROVE RunInv'
  OBVIOUS
<1>1. UNCHANGED <<run, pc, cur>>
  BY DEF Network, Deliver, Lose, Block, Deepen, Reorg, SpendOutside, app, db
<1>2. ASSUME NEW p \in Parts, NEW g \in 1 .. MaxGen, Live(p, g)' PROVE Live(p, g)
  <2>1. ASSUME NEW x \in wire, Deliver(x) \/ Lose(x) PROVE Live(p, g)
    BY <1>2, <2>1 DEF Deliver, Lose, Live
  <2>2. ASSUME NEW M \in SUBSET pool, Block(M) PROVE Live(p, g)
    <3>1. CASE \E x \in M : x.tx[1] = p
      <4> DEFINE x == CHOOSE x \in M : x.tx[1] = p
      <4>1. x \in pool /\ x.tx[1] = p /\ x.tx \in Transactions
        BY <3>1 DEF TypeInv, NetOK
      <4>2. chain'[p].gen = x.tx[2]
        BY <2>2, <3>1 DEF Block
      <4> HIDE DEF x
      <4>3. x.tx = <<p, x.tx[2]>>
        BY <4>1 DEF Transactions
      <4> QED
        BY <1>2, <2>2, <4>1, <4>2, <4>3 DEF Block, Live
    <3>2. CASE ~ \E x \in M : x.tx[1] = p
      BY <1>2, <2>2, <3>2 DEF Block, Live
    <3> QED
      BY <3>1, <3>2
  <2>3. ASSUME NEW q \in Parts, Deepen(q) PROVE Live(p, g)
    BY <1>2, <2>3 DEF Deepen, Live, TypeInv, NetOK, Blocks
  <2>4. ASSUME NEW q \in Parts, Reorg(q) PROVE Live(p, g)
    <3>1. chain' = [chain EXCEPT ![q] = Unmined] /\ wire' = wire
      BY <2>4 DEF Reorg
    <3>2. chain'[p].gen = g => chain[p].gen = g
      BY <3>1 DEF TypeInv, NetOK, Unmined
    <3>3. \A x \in pool' : x \in pool \/ x.tx = <<q, chain[q].gen>>
      BY <2>4 DEF Reorg
    <3> QED
      BY <1>2, <3>1, <3>2, <3>3 DEF Live
  <2>5. ASSUME NEW q \in Parts, SpendOutside(q) PROVE Live(p, g)
    BY <1>2, <2>5, RunAssumption DEF SpendOutside, Live, TypeInv, NetOK
  <2> QED
    BY <2>1, <2>2, <2>3, <2>4, <2>5 DEF Network
<1>3. ASSUME NEW p \in Parts, chain[p].deep PROVE chain'[p].deep /\ chain'[p].gen = chain[p].gen
  <2>1. chain[p].gen # 0 /\ \A x \in pool : x.tx[1] # p
    BY <1>3 DEF TypeInv, NetOK
  <2>2. ASSUME NEW M \in SUBSET pool, Block(M) PROVE chain'[p] = chain[p]
    BY <2>1, <2>2 DEF Block
  <2>3. ASSUME NEW q \in Parts, Deepen(q) PROVE chain'[p].deep /\ chain'[p].gen = chain[p].gen
    BY <1>3, <2>3 DEF Deepen, TypeInv, NetOK, Blocks
  <2>4. ASSUME NEW q \in Parts, Reorg(q) \/ SpendOutside(q) PROVE chain'[p] = chain[p]
    BY <1>3, <2>1, <2>4 DEF Reorg, SpendOutside, TypeInv, NetOK
  <2>5. ASSUME NEW x \in wire, Deliver(x) \/ Lose(x) PROVE chain'[p] = chain[p]
    BY <2>5 DEF Deliver, Lose
  <2> QED
    BY <1>3, <2>2, <2>3, <2>4, <2>5 DEF Network
<1>4. Recorded'
  BY <1>1, <1>2 DEF RunInv, Recorded
<1>5. Ready'
  BY <1>1 DEF RunInv, Ready
<1>6. Reserved'
  BY <1>1, <1>3 DEF RunInv, Reserved, Moved
<1>7. CompleteMeansMigrated'
  BY <1>1, <1>3 DEF RunInv, CompleteMeansMigrated
<1> QED
  BY <1>4, <1>5, <1>6, <1>7 DEF RunInv

\* A step of the app or of the sync engine that reconciles the run keeps the invariant.
LEMMA ReconciledKeepsRunInv ==
  ASSUME TypeInv, RunInv, UNCHANGED <<chain, pool, wire>>, Reconciled(run, run', view),
         pc' # "send" \/ UNCHANGED <<pc, cur>>,
         pc # "idle" \/ run.phase \notin Terminal
  PROVE  RunInv'
<1>1. \A p \in Parts : run.row[p].gen \in 0 .. MaxGen
  BY DEF TypeInv, AppOK, GoodRun, Runs, Rows
<1>2. ASSUME AllDeep(run', view)
      PROVE  \A p \in Parts : chain[p].deep /\ chain[p].gen = run'.row[p].gen /\ chain[p].gen # Outsider
  BY <1>1, <1>2, RunAssumption DEF AllDeep, TypeInv, SyncOK, Reconciled
<1>3. Recorded'
  BY DEF RunInv, Recorded, Live, Reconciled
<1>4. Ready'
  <2>1. pc = "send" => cur[1] \in Parts
    BY DEF TypeInv, AppOK, HasCur, Transactions
  <2> QED
    BY <2>1 DEF RunInv, Ready, Reconciled
<1>5. Reserved'
  BY <1>2 DEF RunInv, Reserved, Moved, Reconciled
<1>6. CompleteMeansMigrated'
  BY <1>2 DEF RunInv, CompleteMeansMigrated, Reconciled
<1> QED
  BY <1>3, <1>4, <1>5, <1>6 DEF RunInv

\* A step that gives the notes back ends the operation.
LEMMA ReleaseKeepsRunInv ==
  ASSUME TypeInv, RunInv, UNCHANGED <<chain, pool, wire>>, pc' = "idle",
         run'.phase \in {"failed_terminal", "abandoned"}, run'.kids => run.kids,
         \A p \in Parts : run'.row[p] = run.row[p] \/ (run'.row[p] = NoRow /\ ~run'.kids)
  PROVE  RunInv'
<1>1. Recorded'
  BY DEF RunInv, Recorded, Live, NoRow
<1> QED
  BY <1>1 DEF RunInv, Ready, Reserved, CompleteMeansMigrated, Terminal

LEMMA OperationKeepsRunInv == TypeInv /\ RunInv /\ Operation => RunInv'
<1> SUFFICES ASSUME TypeInv, RunInv, Operation PROVE RunInv'
  OBVIOUS
<1>0. GoodRun(run) /\ known \in Nat /\ seen \in Nat /\ dtip \in Nat
  BY DEF TypeInv, AppOK, SyncOK
<1>1. SameBuilds(run, run) /\ Reconciled(run, run, view)
  BY <1>0, SameIsReconciled DEF SameBuilds
<1>2. ASSUME Return PROVE pc' # "send" /\ pc' = "idle"
  BY <1>2 DEF Return
<1>3. ASSUME NEW l, Goto(l) PROVE pc' = l
  BY <1>3 DEF Goto
<1>4. ASSUME \/ \E f \in {"migrate", "due"} : Begin(f)
             \/ StopBegin \/ Crash \/ PromoteDone \/ AnswerAccepted \/ StoreAccepted
      PROVE  RunInv'
  <2>1. run' = run /\ UNCHANGED <<chain, pool, wire>> /\ pc' # "send"
    BY <1>2, <1>3, <1>4 DEF Begin, StopBegin, Crash, PromoteDone, AnswerAccepted, StoreAccepted, db, net
  <2>2. pc # "idle" \/ run.phase \notin Terminal
    BY <1>4 DEF Begin, StopBegin, Crash, PromoteDone, AnswerAccepted, StoreAccepted
  <2> QED
    BY <1>1, <2>1, <2>2, ReconciledKeepsRunInv
<1>5. ASSUME RetryStore \/ CountExpired \/ SelectDue \/ SyncReconcile PROVE RunInv'
  <2>1. Reconciled(run, run', view)
    BY <1>0, <1>5, ReconcileReconciles DEF RetryStore, CountExpired, SelectDue, SyncReconcile
  <2>2. UNCHANGED <<chain, pool, wire>> /\ (pc' # "send" \/ UNCHANGED <<pc, cur>>)
    BY <1>2, <1>3, <1>5 DEF RetryStore, CountExpired, SelectDue, SyncReconcile, net, app
  <2>3. pc # "idle" \/ run.phase \notin Terminal
    BY <1>5 DEF RetryStore, CountExpired, SelectDue, SyncReconcile
  <2> QED
    BY <2>1, <2>2, <2>3, ReconciledKeepsRunInv
<1>6. CASE ExpireParts \/ CheckCanonical
  <2>1. Reconciled(run, run', view)
    BY <1>0, <1>6, MarkExpiredReconciles, MarkNoncanonicalReconciles DEF ExpireParts, CheckCanonical
  <2>2. UNCHANGED <<chain, pool, wire>> /\ pc' # "send" /\ pc # "idle"
    BY <1>2, <1>3, <1>6 DEF ExpireParts, CheckCanonical, net
  <2> QED
    BY <2>1, <2>2, ReconciledKeepsRunInv
<1>7. CASE MarkBroadcasting \/ AnswerFailed
  <2>1. SameBuilds(run, run')
    BY <1>0, <1>7, SetPhaseSame DEF MarkBroadcasting, AnswerFailed, Phase, Terminal
  <2>2. UNCHANGED <<chain, pool, wire>> /\ pc' # "send" /\ pc # "idle"
    BY <1>2, <1>3, <1>7 DEF MarkBroadcasting, AnswerFailed, net
  <2> QED
    BY <2>1, <2>2, SameIsReconciled, ReconciledKeepsRunInv
<1>8. CASE Record
  <2>1. SameBuilds(run, run')
    BY <1>0, <1>8, BroadcastedSame DEF Record
  <2>2. UNCHANGED <<chain, pool, wire>> /\ pc' # "send" /\ pc # "idle"
    BY <1>3, <1>8 DEF Record, net
  <2> QED
    BY <2>1, <2>2, SameIsReconciled, ReconciledKeepsRunInv
<1>9. CASE Redraw
  <2>1. PICK draw \in [Overdue(run, dtip) -> {dtip + d : d \in Delays}] : run' = Reschedule(run, dtip, draw)
    BY <1>9 DEF Redraw
  <2>0. {dtip + d : d \in Delays} \subseteq Nat
    BY <1>0, DelaysNat
  <2>2. draw \in [Overdue(run, dtip) -> Nat]
    BY <2>0
  <2>3. SameBuilds(run, run')
    BY <1>0, <2>1, <2>2, RescheduleSame
  <2>4. UNCHANGED <<chain, pool, wire>> /\ pc' # "send" /\ pc # "idle"
    BY <1>2, <1>9 DEF Redraw, net
  <2> QED
    BY <2>3, <2>4, SameIsReconciled, ReconciledKeepsRunInv
<1>10. ASSUME NEW p \in Parts, StopReconcile(p) PROVE RunInv'
  <2>1. SameBuilds(run, run')
    BY <1>0, <1>1, <1>10, BroadcastedSame DEF StopReconcile, db
  <2>2. UNCHANGED <<chain, pool, wire>> /\ pc' # "send" /\ pc # "idle"
    BY <1>2, <1>10 DEF StopReconcile, net
  <2> QED
    BY <2>1, <2>2, SameIsReconciled, ReconciledKeepsRunInv
<1>11. CASE Policy
  <2>1. UNCHANGED <<chain, pool, wire>> /\ pc # "idle"
    BY <1>11 DEF Policy, net
  <2>2. CASE ExternallySpent(run, view) # {}
    BY <1>0, <1>2, <1>11, <2>1, <2>2, RetireEffect, ReleaseKeepsRunInv DEF Policy
  <2>3. CASE ExternallySpent(run, view) = {}
    BY <1>1, <1>3, <1>11, <2>1, <2>3, ReconciledKeepsRunInv DEF Policy
  <2> QED
    BY <2>2, <2>3
<1>12. CASE AnswerRejected
  BY <1>0, <1>2, <1>12, RetireEffect, ReleaseKeepsRunInv DEF AnswerRejected, net
<1>13. CASE RetireUnbroadcast
  BY <1>0, <1>13, RetireEffect, ReleaseKeepsRunInv DEF RetireUnbroadcast, net, app
<1>14. CASE StopAbandon
  <2>1. UNCHANGED <<chain, pool, wire>> /\ pc # "idle" /\ pc' = "idle"
    BY <1>2, <1>14 DEF StopAbandon, net
  <2>2. CASE run.phase \in Terminal
    BY <1>1, <1>14, <2>1, <2>2, ReconciledKeepsRunInv DEF StopAbandon
  <2>3. CASE run.phase \notin Terminal
    BY <1>0, <1>14, <2>1, <2>3, AbandonEffect, ReleaseKeepsRunInv DEF StopAbandon
  <2> QED
    BY <2>2, <2>3
<1>15. CASE Rebuild
  <2> DEFINE P == With(run, "needs_resign")
  <2>0. UNCHANGED <<chain, pool, wire>> /\ pc # "idle"
    BY <1>15 DEF Rebuild, net
  <2>1. CASE \E p \in P : view[p].gen # 0
    BY <1>1, <1>2, <1>15, <2>0, <2>1, ReconciledKeepsRunInv DEF Rebuild
  <2>2. CASE ~ \E p \in P : view[p].gen # 0
    <3>1. PICK s \in [P -> {dtip + d : d \in Delays}] :
               LET build == [p \in P |-> [sched |-> s[p], exp |-> Canonical(s[p]), target |-> dtip]]
               IN /\ Replaceable(run, P, build)
                  /\ run' = IF P = {} THEN run ELSE ReplaceResigned(run, P, build)
      BY <1>15, <2>2 DEF Rebuild
    <3> DEFINE build == [p \in P |-> [sched |-> s[p], exp |-> Canonical(s[p]), target |-> dtip]]
    <3>2. \A p \in P : s[p] \in Nat /\ Canonical(s[p]) \in Nat
      BY <1>0, CanonicalNat, DelaysNat
    <3>3. build \in [P -> [sched : Nat, exp : Nat, target : Nat]]
      BY <1>0, <3>2
    <3>4. \A p \in P : run.row[p].gen < MaxGen
      BY <1>15, <2>2 DEF Rebuild
    <3>5. P \in SUBSET Parts
      BY DEF With
    <3>8. pc' = "promote"
      BY <1>15, <2>2 DEF Rebuild
    <3>9. CASE P = {}
      BY <1>1, <2>0, <3>1, <3>8, <3>9, ReconciledKeepsRunInv
    <3>10. CASE P # {}
      <4> HIDE DEF P, build
      <4>1. Replaceable(run, P, build) /\ run' = ReplaceResigned(run, P, build)
        BY <3>1, <3>10 DEF P, build
      <4> DEFINE t == ReplaceResigned(run, P, build)
      <4>5. /\ GoodRun(t) /\ t.phase = "broadcast_scheduled" /\ t.locked = run.locked /\ t.kids = run.kids
            /\ \A p \in Parts \ P : t.row[p] = run.row[p]
            /\ \A p \in P : t.row[p].gen = run.row[p].gen + 1 /\ t.row[p].status = "scheduled"
                              /\ run.row[p].status # "none"
        BY <1>0, <3>3, <3>4, <3>5, <4>1, ReplaceEffect
      <4> HIDE DEF t
      <4>2. /\ run'.phase = "broadcast_scheduled" /\ run'.locked = run.locked /\ run'.kids = run.kids
            /\ \A p \in Parts \ P : run'.row[p] = run.row[p]
            /\ \A p \in P : run'.row[p].gen = run.row[p].gen + 1 /\ run'.row[p].status = "scheduled"
                              /\ run.row[p].status # "none"
        BY <4>1, <4>5 DEF t
      <4>3. \A p \in Parts : run.row[p].gen \in 0 .. MaxGen
        BY <1>0 DEF GoodRun, Runs, Rows
      <4>4. Recorded'
        BY <2>0, <3>5, <4>2, <4>3 DEF RunInv, Recorded, Live
      <4> QED
        BY <2>0, <3>8, <4>2, <4>4 DEF RunInv, Ready, Reserved, Moved, CompleteMeansMigrated
    <3> QED
      BY <3>9, <3>10
  <2> QED
    BY <2>1, <2>2
<1>16. ASSUME NEW p \in Parts, PromoteChild(p) PROVE RunInv'
  <2>1. UNCHANGED <<chain, pool, wire, pc>> /\ pc = "promote" /\ run' = Promote(run, p, seen)
    BY <1>16 DEF PromoteChild, net
  <2>2. run.kids /\ run.row[p].status = "none"
    BY <1>16 DEF PromoteChild, Unpromoted, With
  <2>3. /\ run'.phase = "broadcast_scheduled" /\ run'.locked = run.locked /\ run'.kids = run.kids
        /\ \A q \in Parts \ {p} : run'.row[q] = run.row[q]
        /\ run'.row[p].gen = 1 /\ run'.row[p].status = "scheduled"
    BY <1>0, <2>1, PromoteEffect
  <2>4. Recorded'
    BY <2>1, <2>2, <2>3 DEF RunInv, Recorded, Live
  <2> QED
    BY <2>1, <2>3, <2>4 DEF RunInv, Ready, Reserved, Moved, CompleteMeansMigrated
<1>17. CASE Attempt
  <2>1. pc = "attempt" /\ UNCHANGED <<chain, pool, wire>>
    BY <1>17 DEF Attempt, net
  <2>2. cur \in Transactions /\ cur[1] \in Parts
    BY <2>1 DEF TypeInv, AppOK, HasCur, Transactions
  <2>3. CASE run.row[cur[1]].status = "scheduled" /\ Tx(cur[1]) = cur
    <3>1. run' = MarkAttempted(run, cur[1]) /\ pc' = "send" /\ cur' = cur
      BY <1>17, <2>3 DEF Attempt, Goto
    <3>2. /\ run'.kids = run.kids /\ run'.locked = run.locked /\ run'.phase = run.phase
          /\ run'.row[cur[1]].tried
          /\ \A q \in Parts :
               /\ run'.row[q].gen = run.row[q].gen /\ run'.row[q].status = run.row[q].status
               /\ run.row[q].tried => run'.row[q].tried
      BY <1>0, <2>2, <3>1, AttemptedEffect
    <3>3. Recorded'
      BY <2>1, <3>2 DEF RunInv, Recorded, Live
    <3>4. run.row[cur[1]].gen = cur[2]
      BY <2>3 DEF Tx
    <3>5. Ready'
      BY <2>2, <2>3, <3>1, <3>2, <3>4 DEF Ready
    <3>6. Reserved'
      BY <2>1, <3>2 DEF RunInv, Reserved, Moved
    <3> QED
      BY <2>1, <3>2, <3>3, <3>5, <3>6 DEF RunInv, CompleteMeansMigrated
  <2>4. CASE ~(run.row[cur[1]].status = "scheduled" /\ Tx(cur[1]) = cur)
    <3>1. run' = run /\ pc' # "send"
      BY <1>2, <1>17, <2>4 DEF Attempt
    <3> QED
      BY <1>1, <2>1, <3>1, ReconciledKeepsRunInv
  <2> QED
    BY <2>3, <2>4
<1>18. CASE Send
  <2>1. /\ pc = "send" /\ pc' = "answer" /\ run' = run /\ UNCHANGED <<chain, pool>>
        /\ wire' = wire \union {[tx |-> cur, exp |-> Exp(cur)]}
    BY <1>3, <1>18 DEF Send, db
  <2>2. cur \in Transactions /\ cur[1] \in Parts
    BY <2>1 DEF TypeInv, AppOK, HasCur, Transactions
  <2>5. \A x \in wire' : x \in wire \/ x.tx = cur
    BY <2>1
  <2>3. \A p \in Parts, g \in 1 .. MaxGen : Live(p, g)' => Live(p, g) \/ cur = <<p, g>>
    BY <2>1, <2>5 DEF Live
  <2>4. Recorded'
    <3> SUFFICES ASSUME NEW p \in Parts, NEW g \in 1 .. MaxGen, Live(p, g)'
                 PROVE  \/ /\ run.row[p].status # "none" /\ g <= run.row[p].gen
                           /\ g = run.row[p].gen => run.row[p].tried
                        \/ run.row[p].status = "none" /\ ~run.kids
      BY <2>1 DEF Recorded
    <3>1. CASE Live(p, g)
      BY <3>1 DEF RunInv, Recorded
    <3>2. CASE cur = <<p, g>>
      BY <2>1, <3>2 DEF RunInv, Ready
    <3> QED
      BY <2>3, <3>1, <3>2
  <2> QED
    BY <2>1, <2>4 DEF RunInv, Ready, Reserved, Moved, CompleteMeansMigrated
<1> QED
  BY <1>4, <1>5, <1>6, <1>7, <1>8, <1>9, <1>10, <1>11, <1>12, <1>13, <1>14, <1>15, <1>16, <1>17,
     <1>18 DEF Operation, App

LEMMA RunInvHolds == Spec => []RunInv
<1>1. TypeInv /\ RunInv /\ [Next]_vars => RunInv'
  <2> SUFFICES ASSUME TypeInv, RunInv, [Next]_vars PROVE RunInv'
    OBVIOUS
  <2>1. CASE Operation
    BY <2>1, OperationKeepsRunInv
  <2>2. CASE LearnTip \/ Scan \/ UNCHANGED vars
    <3>1. UNCHANGED <<run, pc, chain, pool, wire, cur>>
      BY <2>2 DEF LearnTip, Scan, vars, app, db, net
    <3> QED
      BY <3>1 DEF RunInv, Recorded, Live, Ready, Reserved, Moved, CompleteMeansMigrated
  <2>3. CASE Network
    BY <2>3, NetworkKeepsRunInv
  <2> QED
    BY <2>1, <2>2, <2>3 DEF Next, Operation
<1> QED
  BY <1>1, RunInvInit, TypesHold, PTL DEF Spec

\* The row of any transaction a node could still mine was marked as attempted before the
\* transaction was sent, through every crash, restart, rebuild and reorganisation.
THEOREM AttemptsAreRecorded == Spec => []AttemptRecorded
<1>1. TypeInv /\ RunInv => AttemptRecorded
  <2> SUFFICES ASSUME TypeInv, RunInv, NEW p \in HasRow(run), CanBeMined(Tx(p))
               PROVE  run.row[p].tried
    BY DEF AttemptRecorded
  <2>1. p \in Parts /\ run.row[p].gen \in 1 .. MaxGen /\ run.row[p].status # "none"
    BY RowTransaction DEF TypeInv, AppOK, HasRow, With
  <2>2. Live(p, run.row[p].gen)
    BY DEF CanBeMined, OnNetwork, Tx, Live
  <2> QED
    BY <2>1, <2>2 DEF RunInv, Recorded
<1> QED
  BY <1>1, TypesHold, RunInvHolds, PTL

\* A run that says it is complete migrated every part, by the transaction of its own row, in a
\* block that can not leave the chain.
THEOREM CompleteRunsMigrated == Spec => []CompleteMeansMigrated
<1>1. RunInv => CompleteMeansMigrated
  BY DEF RunInv
<1> QED
  BY <1>1, RunInvHolds, PTL

-----------------------------------------------------------------------------
(* The run implements PartLedger *)

Minable(p) == \E g \in 1 .. MaxGen : CanBeMined(<<p, g>>)

LEMMA FateOf ==
  /\ DOMAIN Fate = Parts
  /\ \A p \in Parts :
       /\ Fate[p] = "moved" <=> chain[p].deep /\ chain[p].gen # Outsider
       /\ Fate[p] = "offered" <=> Minable(p) /\ ~(chain[p].deep /\ chain[p].gen # Outsider)
       /\ Fate[p] \in {"moved", "offered", "held"}
BY DEF Fate, Minable

LEMMA FateOfNext ==
  /\ DOMAIN Fate' = Parts
  /\ \A p \in Parts :
       /\ Fate'[p] = "moved" <=> chain'[p].deep /\ chain'[p].gen # Outsider
       /\ Fate'[p] = "offered" <=> Minable(p)' /\ ~(chain'[p].deep /\ chain'[p].gen # Outsider)
       /\ Fate'[p] \in {"moved", "offered", "held"}
BY DEF Fate, Minable

\* Nothing the network does makes a transaction minable.
LEMMA NetworkOffersNothing ==
  ASSUME TypeInv, Network, NEW p \in Parts, NEW g \in 1 .. MaxGen, CanBeMined(<<p, g>>)'
  PROVE  CanBeMined(<<p, g>>)
<1>1. ASSUME NEW x \in wire, Deliver(x) \/ Lose(x) PROVE CanBeMined(<<p, g>>)
  BY <1>1 DEF Deliver, Lose, CanBeMined, OnNetwork
<1>2. ASSUME NEW M \in SUBSET pool, Block(M) PROVE CanBeMined(<<p, g>>)
  <2>1. \A x \in wire : x.exp \in Nat
    BY DEF TypeInv, NetOK
  <2>2. (\E x \in wire' : x.tx = <<p, g>> /\ x.exp > tip') => CanBeMined(<<p, g>>)
    BY <1>2, <2>1 DEF Block, CanBeMined, TypeInv, NetOK
  <2>3. (\E x \in pool' : x.tx = <<p, g>>) => CanBeMined(<<p, g>>)
    BY <1>2 DEF Block, CanBeMined, OnNetwork
  <2>4. CASE chain'[p].gen = g
    <3>1. CASE \E x \in M : x.tx[1] = p
      <4> DEFINE x == CHOOSE x \in M : x.tx[1] = p
      <4>1. x \in pool /\ x.tx[1] = p /\ x.tx \in Transactions
        BY <3>1 DEF TypeInv, NetOK
      <4>2. chain'[p].gen = x.tx[2]
        BY <1>2, <3>1 DEF Block
      <4> HIDE DEF x
      <4>3. x.tx = <<p, g>>
        BY <2>4, <4>1, <4>2 DEF Transactions
      <4> QED
        BY <4>1, <4>3 DEF CanBeMined, OnNetwork
    <3>2. CASE ~ \E x \in M : x.tx[1] = p
      BY <1>2, <2>4, <3>2 DEF Block, CanBeMined, OnNetwork
    <3> QED
      BY <3>1, <3>2
  <2> QED
    BY <2>2, <2>3, <2>4 DEF CanBeMined, OnNetwork
<1>3. ASSUME NEW q \in Parts, Deepen(q) PROVE CanBeMined(<<p, g>>)
  <2>1. chain'[p].gen = chain[p].gen
    BY <1>3 DEF Deepen, TypeInv, NetOK, Blocks
  <2> QED
    BY <1>3, <2>1 DEF Deepen, CanBeMined, OnNetwork
<1>4. ASSUME NEW q \in Parts, Reorg(q) PROVE CanBeMined(<<p, g>>)
  <2>1. chain' = [chain EXCEPT ![q] = Unmined] /\ wire' = wire /\ tip' = tip
    BY <1>4 DEF Reorg
  <2>2. chain'[p].gen = g => chain[p].gen = g
    BY <2>1 DEF TypeInv, NetOK, Unmined
  <2>3. \A x \in pool' : x \in pool \/ x.tx = <<q, chain[q].gen>>
    BY <1>4 DEF Reorg
  <2> QED
    BY <2>1, <2>2, <2>3 DEF CanBeMined, OnNetwork
<1>5. ASSUME NEW q \in Parts, SpendOutside(q) PROVE CanBeMined(<<p, g>>)
  <2>1. chain'[p].gen = g => chain[p].gen = g
    BY <1>5, RunAssumption DEF SpendOutside, TypeInv, NetOK
  <2> QED
    BY <1>5, <2>1 DEF SpendOutside, CanBeMined, OnNetwork
<1> QED
  BY <1>1, <1>2, <1>3, <1>4, <1>5 DEF Network

LEMMA NetworkKeepsLedger ==
  ASSUME TypeInv, Network
  PROVE  [Ledger!Next]_<<Fate, run.locked>>
<1>1. run' = run
  BY DEF Network, Deliver, Lose, Block, Deepen, Reorg, SpendOutside, db
<1>2. \A p \in Parts : Minable(p)' => Minable(p)
  BY NetworkOffersNothing DEF Minable
<1>3. ASSUME \A p \in Parts : Fate'[p] # Fate[p] => Fate[p] = "offered" /\ Fate'[p] = "held"
      PROVE  Ledger!Next
  <2> DEFINE P == {p \in Parts : Fate'[p] # Fate[p]}
  <2>1. P \in SUBSET Parts /\ \A p \in P : Fate[p] = "offered"
    BY <1>3
  <2>2. Fate' = [p \in Parts |-> IF p \in P THEN "held" ELSE Fate[p]]
    <3>1. Fate' = [p \in Parts |-> Fate'[p]]
      BY DEF Fate
    <3>2. \A p \in Parts : Fate'[p] = IF p \in P THEN "held" ELSE Fate[p]
      BY <1>3
    <3> HIDE DEF P
    <3> QED
      BY <3>1, <3>2
  <2> HIDE DEF P
  <2>3. Ledger!Lapse(P)
    BY <1>1, <2>1, <2>2 DEF Ledger!Lapse
  <2> QED
    BY <2>1, <2>3 DEF Ledger!Next
<1>4. ASSUME \A p \in Parts : (chain'[p].deep /\ chain'[p].gen # Outsider)
                            <=> (chain[p].deep /\ chain[p].gen # Outsider)
      PROVE  Ledger!Next
  BY <1>2, <1>3, <1>4, FateOf, FateOfNext
<1>5. ASSUME NEW q \in Parts, Deepen(q) PROVE [Ledger!Next]_<<Fate, run.locked>>
  <2>1. /\ \A p \in Parts : chain'[p].gen = chain[p].gen /\ (p # q => chain'[p] = chain[p])
        /\ chain[q].gen # 0 /\ ~chain[q].deep /\ chain'[q].deep
        /\ UNCHANGED <<tip, pool, wire>>
    BY <1>5 DEF Deepen, TypeInv, NetOK, Blocks
  <2>2. \A p \in Parts : Minable(p)' <=> Minable(p)
    BY <2>1 DEF Minable, CanBeMined, OnNetwork
  <2>3. \A p \in Parts : p # q => Fate'[p] = Fate[p]
    BY <2>1, <2>2, FateOf, FateOfNext
  <2>4. CASE chain[q].gen = Outsider
    <3>1. Fate'[q] = Fate[q]
      BY <2>1, <2>2, <2>4, FateOf, FateOfNext
    <3>2. \A p \in Parts : Fate'[p] = Fate[p]
      BY <2>3, <3>1
    <3> QED
      BY <1>3, <3>2
  <2>5. CASE chain[q].gen # Outsider
    <3>1. chain[q].gen \in 1 .. MaxGen
      BY <2>1, <2>5 DEF TypeInv, NetOK, Blocks
    <3>2. Minable(q)
      BY <3>1 DEF Minable, CanBeMined, OnNetwork
    <3>3. Fate[q] = "offered" /\ Fate'[q] = "moved"
      BY <2>1, <2>5, <3>2, FateOf, FateOfNext
    <3>4. Fate' = [Fate EXCEPT ![q] = "moved"]
      <4>1. Fate' = [p \in Parts |-> Fate'[p]] /\ Fate = [p \in Parts |-> Fate[p]]
        BY DEF Fate
      <4> QED
        BY <2>3, <3>3, <4>1
    <3>5. Ledger!Move(q)
      BY <1>1, <3>3, <3>4 DEF Ledger!Move
    <3> QED
      BY <3>5 DEF Ledger!Next
  <2> QED
    BY <2>4, <2>5
<1>6. ASSUME NEW x \in wire, Deliver(x) \/ Lose(x) PROVE Ledger!Next
  BY <1>4, <1>6 DEF Deliver, Lose
<1>7. ASSUME NEW M \in SUBSET pool, Block(M) PROVE Ledger!Next
  <2>1. \A p \in Parts : chain'[p] = chain[p] \/ (~chain'[p].deep /\ ~chain[p].deep)
    BY <1>7 DEF Block, TypeInv, NetOK
  <2> QED
    BY <1>4, <2>1
<1>8. ASSUME NEW q \in Parts, Reorg(q) \/ SpendOutside(q) PROVE Ledger!Next
  <2>1. \A p \in Parts : chain'[p] = chain[p] \/ (~chain'[p].deep /\ ~chain[p].deep)
    BY <1>8 DEF Reorg, SpendOutside, Unmined, TypeInv, NetOK
  <2> QED
    BY <1>4, <2>1
<1> QED
  BY <1>5, <1>6, <1>7, <1>8 DEF Network

(* What an operation may do to the run: reconcile it; give its notes back,  *)
(* and stop; write new builds, which the network does not hold yet; or mark *)
(* an attempt.                                                              *)
Effect ==
  \/ Reconciled(run, run', view)
  \/ /\ pc' = "idle" /\ run'.locked = FALSE /\ run'.phase \in Terminal
     /\ run'.phase = "abandoned" => StopAbandon
     /\ \A p \in Parts : run'.row[p] = run.row[p] \/ run'.row[p] = NoRow
  \/ /\ pc' = "promote" /\ run'.locked = run.locked /\ run'.phase = "broadcast_scheduled"
     /\ \A p \in Parts : \/ run'.row[p] = run.row[p]
                         \/ run'.row[p].status = "scheduled" /\ ~Live(p, run'.row[p].gen)
  \/ /\ pc' = "send" /\ run'.locked = run.locked /\ run'.phase = run.phase
     /\ \A p \in Parts : /\ run'.row[p].gen = run.row[p].gen /\ run'.row[p].exp = run.row[p].exp
                         /\ run'.row[p].status = run.row[p].status

LEMMA OperationEffect == TypeInv /\ RunInv /\ Operation => Effect
<1> SUFFICES ASSUME TypeInv, RunInv, Operation PROVE Effect
  OBVIOUS
<1>0. GoodRun(run) /\ seen \in Nat /\ dtip \in Nat
  BY DEF TypeInv, AppOK, SyncOK
<1>1. ASSUME SameBuilds(run, run') PROVE Effect
  BY <1>1, SameIsReconciled DEF Effect
<1>2. ASSUME run' = run PROVE Effect
  <2>1. SameBuilds(run, run)
    BY <1>0 DEF SameBuilds
  <2> QED
    BY <1>1, <1>2, <2>1
<1>3. ASSUME pc' = "idle", run' = Retire(run) PROVE Effect
  BY <1>0, <1>3, RetireEffect DEF Effect, Terminal
<1>4. CASE RetryStore \/ CountExpired \/ SelectDue \/ SyncReconcile
  BY <1>0, <1>4, ReconcileReconciles DEF RetryStore, CountExpired, SelectDue, SyncReconcile, Effect
<1>5. CASE ExpireParts \/ CheckCanonical
  BY <1>0, <1>5, MarkExpiredReconciles, MarkNoncanonicalReconciles DEF ExpireParts, CheckCanonical, Effect
<1>6. CASE MarkBroadcasting \/ AnswerFailed \/ Record
  BY <1>0, <1>1, <1>6, SetPhaseSame, BroadcastedSame
     DEF MarkBroadcasting, AnswerFailed, Record, Phase, Terminal
<1>7. CASE Redraw
  <2>1. PICK draw \in [Overdue(run, dtip) -> {dtip + d : d \in Delays}] : run' = Reschedule(run, dtip, draw)
    BY <1>7 DEF Redraw
  <2>2. {dtip + d : d \in Delays} \subseteq Nat
    BY <1>0, DelaysNat
  <2>3. draw \in [Overdue(run, dtip) -> Nat]
    BY <2>2
  <2> QED
    BY <1>0, <1>1, <2>1, <2>3, RescheduleSame
<1>8. CASE Policy \/ AnswerRejected
  BY <1>2, <1>3, <1>8 DEF Policy, AnswerRejected, Return
<1>9. CASE RetireUnbroadcast
  BY <1>3, <1>9 DEF RetireUnbroadcast, app
<1>10. CASE StopAbandon
  <2>1. pc' = "idle"
    BY <1>10 DEF StopAbandon, Return
  <2>2. CASE run.phase \in Terminal
    BY <1>2, <1>10, <2>2 DEF StopAbandon
  <2>3. CASE run.phase \notin Terminal
    BY <1>0, <1>10, <2>1, <2>3, AbandonEffect DEF StopAbandon, Effect, GoodRun, Runs, Terminal
  <2> QED
    BY <2>2, <2>3
<1>11. CASE Rebuild
  <2>1. CASE run' = run
    BY <1>2, <2>1
  <2>2. CASE run' # run
    <3>1. pc' = "promote"
      BY <1>11, <2>2 DEF Rebuild
    <3> DEFINE P == With(run, "needs_resign")
    <3>2. PICK build : run' = ReplaceResigned(run, P, build)
      BY <1>11, <2>2 DEF Rebuild
    <3>3. /\ run'.locked = run.locked /\ run'.phase = "broadcast_scheduled"
          /\ \A p \in Parts : \/ run'.row[p] = run.row[p]
                              \/ /\ run'.row[p].status = "scheduled" /\ run'.row[p].gen = run.row[p].gen + 1
                                 /\ run.row[p].status = "needs_resign" /\ run.row[p].gen < MaxGen
      BY <1>0, <1>11, <2>2, <3>2 DEF Rebuild, ReplaceResigned, SetPhase, GoodRun, Runs, Rows, With, Phase
    <3>4. \A p \in Parts : run.row[p].gen \in 0 .. MaxGen
      BY <1>0 DEF GoodRun, Runs, Rows
    <3>5. \A p \in Parts : run.row[p].status = "needs_resign" /\ run.row[p].gen < MaxGen
                           => ~Live(p, run.row[p].gen + 1)
      BY <3>4, RunAssumption DEF RunInv, Recorded
    <3> QED
      BY <3>1, <3>3, <3>5 DEF Effect
  <2> QED
    BY <2>1, <2>2
<1>12. ASSUME NEW p \in Parts, PromoteChild(p) PROVE Effect
  <2>1. pc' = "promote" /\ run' = Promote(run, p, seen) /\ run.kids /\ run.row[p].status = "none"
    BY <1>12 DEF PromoteChild, Unpromoted, With
  <2> DEFINE t == Promote(run, p, seen)
  <2>2. /\ t.phase = "broadcast_scheduled" /\ t.locked = run.locked
        /\ \A q \in Parts \ {p} : t.row[q] = run.row[q]
        /\ t.row[p].gen = 1 /\ t.row[p].status = "scheduled"
    BY <1>0, PromoteEffect
  <2>3. ~Live(p, 1)
    BY <2>1, RunAssumption DEF RunInv, Recorded
  <2> HIDE DEF t
  <2> QED
    BY <2>1, <2>2, <2>3 DEF Effect, t
<1>13. CASE Attempt
  <2>1. CASE run' = run
    BY <1>2, <2>1
  <2>2. CASE run' # run
    <3>1. run' = MarkAttempted(run, cur[1]) /\ pc' = "send" /\ pc = "attempt"
      BY <1>13, <2>2 DEF Attempt, Goto
    <3>2. cur[1] \in Parts
      BY <3>1 DEF TypeInv, AppOK, HasCur, Transactions
    <3> QED
      BY <1>0, <3>1, <3>2, AttemptedEffect DEF Effect
  <2> QED
    BY <2>1, <2>2
<1>14. ASSUME NEW p \in Parts, StopReconcile(p) PROVE Effect
  BY <1>0, <1>1, <1>2, <1>14, BroadcastedSame DEF StopReconcile, db
<1>15. CASE \/ \E f \in {"migrate", "due"} : Begin(f)
            \/ StopBegin \/ Crash \/ PromoteDone \/ Send \/ AnswerAccepted \/ StoreAccepted
  BY <1>2, <1>15 DEF Begin, StopBegin, Crash, PromoteDone, Send, AnswerAccepted, StoreAccepted, db
<1> QED
  BY <1>4, <1>5, <1>6, <1>7, <1>8, <1>9, <1>10, <1>11, <1>12, <1>13, <1>14, <1>15 DEF Operation, App

LEMMA OperationKeepsLedger ==
  ASSUME TypeInv, TypeInv', RunInv, Operation
  PROVE  [Ledger!Next]_<<Fate, run.locked>>
<1>1. UNCHANGED <<tip, chain, pool>>
  BY OperationKeepsNetwork
<1>2. ASSUME UNCHANGED wire PROVE [Ledger!Next]_<<Fate, run.locked>>
  <2>1. Fate' = Fate
    BY <1>1, <1>2 DEF Fate, CanBeMined, OnNetwork
  <2>2. run.locked \in BOOLEAN
    BY DEF TypeInv, AppOK, GoodRun, Runs
  <2>4. run'.locked \in BOOLEAN
    BY DEF TypeInv, AppOK, GoodRun, Runs
  <2>3. run'.locked = run.locked \/ (run.locked /\ run'.locked = FALSE)
    BY <2>2, <2>4, OperationEffect DEF Effect, Reconciled
  <2> QED
    BY <2>1, <2>3 DEF Ledger!Next, Ledger!Release
<1>3. CASE Send
  <2>1. /\ pc = "send" /\ run' = run
        /\ wire' = wire \union {[tx |-> cur, exp |-> Exp(cur)]}
    BY <1>3 DEF Send, db
  <2>2. cur \in Transactions
    BY <2>1 DEF TypeInv, AppOK, HasCur
  <2> DEFINE q == cur[1]
  <2>3. q \in Parts
    BY <2>2 DEF Transactions
  <2>4. \A x \in wire' : x \in wire \/ x.tx = cur
    BY <2>1
  <2>5. \A p \in Parts, g \in 1 .. MaxGen :
          /\ CanBeMined(<<p, g>>) => CanBeMined(<<p, g>>)'
          /\ CanBeMined(<<p, g>>)' => CanBeMined(<<p, g>>) \/ cur = <<p, g>>
    BY <1>1, <2>1, <2>4 DEF CanBeMined, OnNetwork
  <2>11. \A p, g : cur = <<p, g>> => p = q
    OBVIOUS
  <2> HIDE DEF q
  <2>6. /\ \A p \in Parts : Minable(p) => Minable(p)'
        /\ \A p \in Parts : p # q => (Minable(p)' => Minable(p))
    BY <2>5, <2>11 DEF Minable
  <2>7. \A p \in Parts : p # q => Fate'[p] = Fate[p]
    BY <1>1, <2>6, FateOf, FateOfNext
  <2>8. Fate' = [p \in Parts |-> Fate'[p]] /\ Fate = [p \in Parts |-> Fate[p]]
    BY DEF Fate
  <2>9. CASE Fate'[q] = Fate[q]
    <3>1. Fate' = Fate
      BY <2>7, <2>8, <2>9
    <3> QED
      BY <2>1, <3>1
  <2>10. CASE Fate'[q] # Fate[q]
    <3>1. Fate[q] = "held" /\ Fate'[q] = "offered"
      BY <1>1, <2>3, <2>6, <2>10, FateOf, FateOfNext
    <3>2. run.locked
      <4>1. ~Moved
        BY <2>3, <3>1, FateOf DEF Moved
      <4> QED
        BY <2>1, <4>1 DEF RunInv, Reserved
    <3>3. Fate' = [Fate EXCEPT ![q] = "offered"]
      BY <2>7, <2>8, <3>1
    <3>4. Ledger!Offer(q)
      BY <2>1, <3>1, <3>2, <3>3 DEF Ledger!Offer
    <3> QED
      BY <2>3, <3>4 DEF Ledger!Next
  <2> QED
    BY <2>9, <2>10
<1> QED
  BY <1>2, <1>3 DEF Operation, App, Begin, RetryStore, Policy, CountExpired, ExpireParts,
     Rebuild, PromoteChild, PromoteDone, CheckCanonical, SelectDue, MarkBroadcasting, Attempt,
     AnswerAccepted, AnswerRejected, AnswerFailed, StoreAccepted, Record, Redraw,
     StopReconcile, StopAbandon, StopBegin, RetireUnbroadcast, Crash, SyncReconcile, net

\* The run implements PartLedger: no step of the app, the sync engine or the network offers a
\* note the run has released, and a note that was moved is never offered again.
THEOREM RunKeepsLedger == Spec => KeepsLedger
<1>1. Init => Ledger!Init
  <2> SUFFICES ASSUME Init PROVE Ledger!Init
    OBVIOUS
  <2>1. \A p \in Parts : ~chain[p].deep /\ chain[p].gen = 0
    BY DEF Init, Unmined
  <2>2. \A p \in Parts : ~Minable(p)
    BY <2>1 DEF Init, Minable, CanBeMined, OnNetwork
  <2>3. Fate = [p \in Parts |-> "held"]
    BY <2>1, <2>2 DEF Fate, Minable
  <2> QED
    BY <2>3 DEF Init, Ledger!Init
<1>2. TypeInv /\ TypeInv' /\ RunInv /\ [Next]_vars => [Ledger!Next]_<<Fate, run.locked>>
  <2> SUFFICES ASSUME TypeInv, TypeInv', RunInv, [Next]_vars PROVE [Ledger!Next]_<<Fate, run.locked>>
    OBVIOUS
  <2>1. CASE Operation
    BY <2>1, OperationKeepsLedger
  <2>2. CASE Network
    BY <2>2, NetworkKeepsLedger
  <2>3. CASE LearnTip \/ Scan \/ UNCHANGED vars
    <3>1. UNCHANGED <<run, tip, chain, pool, wire>>
      BY <2>3 DEF LearnTip, Scan, vars, db, net
    <3>2. Fate' = Fate
      BY <3>1 DEF Fate, CanBeMined, OnNetwork
    <3> QED
      BY <3>1, <3>2
  <2> QED
    BY <2>1, <2>2, <2>3 DEF Next, Operation
<1> QED
  BY <1>1, <1>2, TypesHold, RunInvHolds, PTL DEF Spec, KeepsLedger, Ledger!Spec

-----------------------------------------------------------------------------
(* Stopping gives up no live transaction *)

(* A message on the wire carries the expiry of its row; what the wallet     *)
(* sees mined is in the history of what it met, and so is every confirmed   *)
(* part; and a live part the stopping operation is done with is one whose   *)
(* transaction the wallet has stored or met.  A block that leaves the chain *)
(* while the stop asks the network takes a confirmed part back to scheduled *)
(* behind it, which is why the history is needed.                           *)
ExpiryKept ==
  \A p \in Parts : run.row[p].status # "none" =>
     \A x \in wire : x.tx = Tx(p) => x.exp = run.row[p].exp
ConfirmedMet == \A p \in Parts : run.row[p].status = "confirmed" => Tx(p) \in met
ViewMet == \A p \in Parts : view[p].gen \in 1 .. MaxGen => <<p, view[p].gen>> \in met
Stopping ==
  pc = "stop" => \A p \in Parts :
     run.row[p].status \in {"scheduled", "broadcasted"} /\ p \notin todo /\ CanBeMined(Tx(p))
       => Tx(p) \in raw \union met
StopInv == ExpiryKept /\ ConfirmedMet /\ ViewMet /\ Stopping

LEMMA StopInvInit == Init => StopInv
BY DEF Init, StopInv, ExpiryKept, ConfirmedMet, ViewMet, Stopping, Unmined, NoRow

LEMMA NetworkKeepsStopInv ==
  ASSUME TypeInv, StopInv, Network
  PROVE  StopInv'
<1>1. UNCHANGED <<run, pc, todo, raw, view, met>>
  BY DEF Network, Deliver, Lose, Block, Deepen, Reorg, SpendOutside, app, db, sync
<1>2. wire' \subseteq wire
  BY DEF Network, Deliver, Lose, Block, Deepen, Reorg, SpendOutside
<1>3. ExpiryKept'
  BY <1>1, <1>2 DEF StopInv, ExpiryKept, Tx
<1>4. (ConfirmedMet /\ ViewMet)'
  BY <1>1 DEF StopInv, ConfirmedMet, ViewMet, Tx
<1>5. Stopping'
  <2>1. \A p \in Parts : run.row[p].status # "none" => run.row[p].gen \in 1 .. MaxGen
    BY DEF TypeInv, AppOK, GoodRun, Runs, Rows
  <2>2. \A p \in Parts : run.row[p].status # "none" /\ CanBeMined(Tx(p))' => CanBeMined(Tx(p))
    BY <1>1, <2>1, NetworkOffersNothing DEF Tx
  <2>3. \A p \in Parts : Tx(p)' = Tx(p)
    BY <1>1 DEF Tx
  <2> QED
    BY <1>1, <2>2, <2>3 DEF StopInv, Stopping
<1> QED
  BY <1>3, <1>4, <1>5 DEF StopInv

LEMMA OperationKeepsMet ==
  ASSUME TypeInv, RunInv, StopInv, Operation
  PROVE  (ExpiryKept /\ ConfirmedMet /\ ViewMet)'
<1>1. UNCHANGED <<view, chain, met>> /\ Effect
  BY OperationKeepsNetwork, OperationEffect
<1>2. \A x \in wire' : \/ x \in wire
                      \/ /\ pc = "send" /\ run' = run /\ x.tx = Tx(cur[1])
                         /\ x.exp = run.row[cur[1]].exp /\ cur[1] \in Parts
  <2>1. CASE Send
    <3>1. cur \in Transactions
      BY <2>1 DEF Send, TypeInv, AppOK, HasCur
    <3>2. cur[1] \in Parts /\ cur = <<cur[1], cur[2]>>
      BY <3>1 DEF Transactions
    <3>3. cur = Tx(cur[1])
      BY <2>1, <3>2 DEF Send, RunInv, Ready, Tx
    <3> QED
      BY <2>1, <3>2, <3>3 DEF Send, Exp, db
  <2>2. CASE wire' = wire
    BY <2>2
  <2> QED
    BY <2>1, <2>2 DEF Operation, App, Begin, RetryStore, Policy, CountExpired, ExpireParts,
       Rebuild, PromoteChild, PromoteDone, CheckCanonical, SelectDue, MarkBroadcasting, Attempt,
       AnswerAccepted, AnswerRejected, AnswerFailed, StoreAccepted, Record, Redraw,
       StopReconcile, StopAbandon, StopBegin, RetireUnbroadcast, Crash, SyncReconcile, net
<1>3. ViewMet'
  BY <1>1 DEF StopInv, ViewMet
<1>4. ConfirmedMet'
  <2> SUFFICES ASSUME NEW p \in Parts, run'.row[p].status = "confirmed"
               PROVE  <<p, run'.row[p].gen>> \in met
    BY <1>1 DEF ConfirmedMet, Tx
  <2>1. CASE run.row[p].status = "confirmed" /\ run'.row[p].gen = run.row[p].gen
    BY <2>1 DEF StopInv, ConfirmedMet, Tx
  <2>2. CASE Mined(run, view, p) /\ run'.row[p].gen = run.row[p].gen
    <3>1. run.row[p].gen \in 1 .. MaxGen
      BY <2>2 DEF TypeInv, AppOK, GoodRun, Runs, Rows, Mined
    <3> QED
      BY <2>2, <3>1 DEF StopInv, ViewMet, Mined
  <2> QED
    BY <1>1, <2>1, <2>2 DEF Effect, Reconciled, NoRow
<1>5. ExpiryKept'
  <2> SUFFICES ASSUME NEW p \in Parts, run'.row[p].status # "none", NEW x \in wire', x.tx = Tx(p)'
               PROVE  x.exp = run'.row[p].exp
    BY DEF ExpiryKept
  <2>1. x.tx = <<p, run'.row[p].gen>>
    BY DEF Tx
  <2>2. CASE run' = run
    <3>1. CASE x \in wire
      BY <2>1, <2>2, <3>1 DEF StopInv, ExpiryKept, Tx
    <3>2. CASE x.tx = Tx(cur[1]) /\ x.exp = run.row[cur[1]].exp
      BY <2>1, <2>2, <3>2 DEF Tx
    <3> QED
      BY <1>2, <3>1, <3>2
  <2>3. CASE x \in wire
    <3>1. CASE /\ run'.row[p].gen = run.row[p].gen /\ run'.row[p].exp = run.row[p].exp
               /\ run.row[p].status # "none"
      BY <2>1, <2>3, <3>1 DEF StopInv, ExpiryKept, Tx
    <3>2. CASE ~Live(p, run'.row[p].gen)
      BY <2>1, <2>3, <3>2 DEF Live
    <3> QED
      BY <1>1, <3>1, <3>2 DEF Effect, Reconciled, NoRow
  <2> QED
    BY <1>2, <2>2, <2>3
<1> QED
  BY <1>3, <1>4, <1>5

\* Reconciling a run confirms parts, or takes back what was confirmed.
LEMMA ReconcileOnlyConfirms ==
  ASSUME NEW r, GoodRun(r), NEW v
  PROVE  \A p \in Parts : \/ Reconcile(r, v).row[p] = r.row[p]
                         \/ Reconcile(r, v).row[p].status = "confirmed"
                         \/ /\ r.row[p].status = "confirmed"
                            /\ Reconcile(r, v).row[p].gen = r.row[p].gen
<1> DEFINE s == ConfirmRows(r, v)
           t == ResumeRun(s)
<1>1. GoodRun(s)
  BY ConfirmReconciles DEF Reconciled
<1>2. \A p \in Parts : \/ s.row[p] = r.row[p] \/ s.row[p].status = "confirmed"
                       \/ r.row[p].status = "confirmed" /\ s.row[p].gen = r.row[p].gen
  <2>2. r.row \in [Parts -> Rows] /\ r \in Runs
    BY DEF GoodRun, Runs
  <2> QED
    BY <2>2 DEF ConfirmRows, Runs, Rows, With
<1> HIDE DEF s
<1>3. t.row = s.row /\ GoodRun(t)
  BY <1>1, ResumeSame DEF ResumeRun, SetPhase, GoodRun, Runs, SameBuilds
<1> HIDE DEF t
<1>4. CompleteRun(t, v).row = t.row
  BY <1>3 DEF CompleteRun, GoodRun, Runs
<1> QED
  BY <1>2, <1>3, <1>4 DEF Reconcile, s, t

LEMMA OperationKeepsStopping ==
  ASSUME TypeInv, TypeInv', RunInv, StopInv, Operation
  PROVE  Stopping'
<1> SUFFICES ASSUME pc' = "stop", NEW p \in Parts, p \notin todo',
                    run'.row[p].status \in {"scheduled", "broadcasted"}, CanBeMined(Tx(p))'
             PROVE  Tx(p)' \in raw' \union met'
  BY DEF Stopping
<1>0. GoodRun(run) /\ UNCHANGED <<tip, chain, pool, met>>
  BY OperationKeepsNetwork DEF TypeInv, AppOK
<1>1. ASSUME run'.row[p] = run.row[p], wire' = wire
      PROVE  Tx(p)' = Tx(p) /\ CanBeMined(Tx(p))
  <2>1. Tx(p)' = Tx(p)
    BY <1>1 DEF Tx
  <2>2. CanBeMined(Tx(p))' <=> CanBeMined(Tx(p))
    BY <1>0, <1>1, <2>1 DEF CanBeMined, OnNetwork
  <2> QED
    BY <2>1, <2>2
<1>2. CASE StopBegin
  <2>1. run' = run /\ raw' = raw /\ wire' = wire /\ todo' = StopCandidates(run, raw)
    BY <1>2 DEF StopBegin, db, net
  <2>2. Tx(p)' = Tx(p) /\ CanBeMined(Tx(p))
    BY <1>1, <2>1
  <2>3. run.row[p].gen \in 1 .. MaxGen /\ Live(p, run.row[p].gen)
    BY <1>0, <2>1, <2>2 DEF GoodRun, Runs, Rows, Live, CanBeMined, OnNetwork, Tx
  <2>4. run.row[p].tried
    BY <2>1, <2>3 DEF RunInv, Recorded
  <2>5. run.row[p].status # "scheduled" /\ Tx(p) \in raw
    BY <2>1, <2>4 DEF StopCandidates, HasRow, With, Tx
  <2> QED
    BY <2>1, <2>2, <2>5
<1>3. ASSUME NEW q \in Parts, StopReconcile(q) PROVE Tx(p)' \in raw' \union met'
  <2>1. pc = "stop" /\ wire' = wire /\ q \in todo
    BY <1>3 DEF StopReconcile, net
  <2>2. CASE OnNetwork(Tx(q))
    <3>1. /\ raw' = raw \union {Tx(q)} /\ run' = MarkBroadcasted(run, q, run.row[q].gen)
          /\ todo' = todo \ {q}
      BY <1>3, <2>2 DEF StopReconcile
    <3>2. CASE p = q
      <4>1. SameBuilds(run, run')
        BY <1>0, <3>1, BroadcastedSame
      <4>2. Tx(p)' = Tx(p)
        BY <4>1 DEF SameBuilds, Tx
      <4> QED
        BY <3>1, <3>2, <4>2
    <3>3. CASE p # q
      <4>1. run'.row[p] = run.row[p]
        BY <1>0, <3>1, <3>3 DEF MarkBroadcasted, UpdateRunAfterBroadcast, SetPhase, SetStatus, GoodRun, Runs
      <4>2. Tx(p)' = Tx(p) /\ CanBeMined(Tx(p))
        BY <1>1, <2>1, <4>1
      <4>3. p \notin todo
        BY <3>1, <3>3
      <4> QED
        BY <1>0, <2>1, <3>1, <4>1, <4>2, <4>3 DEF StopInv, Stopping
    <3> QED
      BY <3>2, <3>3
  <2>3. CASE ~OnNetwork(Tx(q))
    <3>1. run' = run /\ raw' = raw /\ tip >= run.row[q].exp /\ todo' = todo \ {q}
      BY <1>3, <2>3 DEF StopReconcile, Return, db
    <3>2. Tx(p)' = Tx(p) /\ CanBeMined(Tx(p))
      BY <1>1, <2>1, <3>1
    <3>3. p # q
      <4> SUFFICES ASSUME p = q PROVE FALSE
        OBVIOUS
      <4>1. PICK x \in wire : x.tx = Tx(q) /\ x.exp > tip
        BY <2>3, <3>2 DEF CanBeMined
      <4>2. x.exp = run.row[q].exp
        BY <3>1, <4>1 DEF StopInv, ExpiryKept
      <4>3. tip \in Nat /\ run.row[q].exp \in Nat
        BY <1>0 DEF TypeInv, NetOK, GoodRun, Runs, Rows
      <4> QED
        BY <3>1, <4>1, <4>2, <4>3
    <3> QED
      BY <1>0, <2>1, <3>1, <3>2, <3>3 DEF StopInv, Stopping
  <2> QED
    BY <2>2, <2>3
<1>4. CASE SyncReconcile
  <2>1. pc = "stop" /\ todo' = todo /\ raw' = raw /\ wire' = wire /\ run' = Reconcile(run, view)
    BY <1>4 DEF SyncReconcile, app, net
  <2>2. CASE run'.row[p] = run.row[p]
    <3>1. Tx(p)' = Tx(p) /\ CanBeMined(Tx(p))
      BY <1>1, <2>1, <2>2
    <3> QED
      BY <1>0, <2>1, <2>2, <3>1 DEF StopInv, Stopping
  <2>3. CASE run.row[p].status = "confirmed" /\ run'.row[p].gen = run.row[p].gen
    BY <1>0, <2>3 DEF StopInv, ConfirmedMet, Tx
  <2> QED
    BY <1>0, <2>1, <2>2, <2>3, ReconcileOnlyConfirms
<1> QED
  BY <1>2, <1>3, <1>4 DEF Operation, App, Begin, RetryStore, Policy, CountExpired, ExpireParts,
     Rebuild, PromoteChild, PromoteDone, CheckCanonical, SelectDue, MarkBroadcasting, Attempt, Send,
     AnswerAccepted, AnswerRejected, AnswerFailed, StoreAccepted, Record, Redraw,
     StopAbandon, RetireUnbroadcast, Crash, Goto, Return, app

\* A stop gives up no live transaction of a part whose row is still scheduled or broadcasted:
\* when the notes are released, one that can still be mined is known to the wallet, which has
\* stored it or met it in a block, whatever blocks came and left while the stop asked the network.
THEOREM StopsStoreLive == Spec => StopStoresLive
<1>1. TypeInv /\ TypeInv' /\ RunInv /\ StopInv /\ [Next]_vars => StopInv'
  <2> SUFFICES ASSUME TypeInv, TypeInv', RunInv, StopInv, [Next]_vars PROVE StopInv'
    OBVIOUS
  <2>1. CASE Operation
    BY <2>1, OperationKeepsMet, OperationKeepsStopping DEF StopInv
  <2>2. CASE Network
    BY <2>2, NetworkKeepsStopInv
  <2>3. CASE LearnTip \/ Scan \/ UNCHANGED vars
    <3>1. /\ UNCHANGED <<run, raw, pc, todo, tip, chain, pool, wire>> /\ met \subseteq met'
          /\ \/ view' = view
             \/ view' = chain /\ Found \subseteq met'
      BY <2>3 DEF LearnTip, Scan, vars, app, db, net, sync
    <3>2. (ExpiryKept /\ Stopping)'
      BY <3>1 DEF StopInv, ExpiryKept, Stopping, Tx, CanBeMined, OnNetwork
    <3>4. ConfirmedMet'
      BY <3>1 DEF StopInv, ConfirmedMet, Tx
    <3>5. ViewMet'
      <4>1. CASE view' = view
        BY <3>1, <4>1 DEF StopInv, ViewMet
      <4>2. CASE view' = chain /\ Found \subseteq met'
        BY <4>2 DEF ViewMet, Found
      <4> QED
        BY <3>1, <4>1, <4>2
    <3> QED
      BY <3>2, <3>4, <3>5 DEF StopInv
  <2> QED
    BY <2>1, <2>2, <2>3 DEF Next, Operation
<1>2. TypeInv /\ RunInv /\ StopInv /\ [Next]_vars => [StopStoresLiveStep]_vars
  <2> SUFFICES ASSUME TypeInv, RunInv, StopInv, Next,
                      run.phase \notin Terminal, run'.phase = "abandoned",
                      NEW p \in With(run, "scheduled") \union With(run, "broadcasted"), CanBeMined(Tx(p))
               PROVE  Tx(p) \in raw \union met
    BY DEF StopStoresLiveStep
  <2>1. Operation
    BY DEF Next, Operation, LearnTip, Scan, Network, Deliver, Lose, Block, Deepen, Reorg, SpendOutside,
           db, Terminal
  <2>2. StopAbandon
    BY <2>1, OperationEffect DEF Effect, Reconciled, Terminal
  <2>3. pc = "stop" /\ p \notin todo /\ p \in Parts
    BY <2>2 DEF StopAbandon, With
  <2> QED
    BY <2>3 DEF StopInv, Stopping, With
<1> QED
  BY <1>1, <1>2, StopInvInit, TypesHold, RunInvHolds, PTL DEF Spec, StopStoresLive
=============================================================================
