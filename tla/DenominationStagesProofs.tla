---------------------- MODULE DenominationStagesProofs ----------------------
(***************************************************************************)
(* Theorems about DenominationStages, for any graph of stages and any      *)
(* bounds: the rows keep their types and the CHECK constraints of          *)
(* stages.rs, and no transaction a node could mine belongs to a row that   *)
(* is not marked as attempted.                                             *)
(*                                                                         *)
(* The marker is cleared when the endpoint rejects a submission, although  *)
(* an older submission of the same stage, with another proof, may still be *)
(* on the wire.  That this is harmless rests on the order in which proofs  *)
(* are made: the identity of a block never returns, so a proof the chain   *)
(* still accepts is one on the inclusions the wallet knows (Current), and  *)
(* therefore the one the row was proved with last (Agree).                 *)
(***************************************************************************)
EXTENDS DenominationStages, TLAPS

Identities == 0..MaxId
Inclusion == [id : Identities, deep : BOOLEAN]
Message == [tx : Stages, proof : [Stages -> Identities]]
Phases == Released \union {"waiting_denom_confirmations", "ready_to_migrate", "broadcast_scheduled"}
Working == {"send", "answer", "store", "mark", "promote", "insert"}

\* the CHECK constraints of a row
RowOK(r) ==
  /\ r \in Rows
  /\ r.status = "awaiting_inputs" => ~r.raw
  /\ r.status \in {"pending", "broadcasted"} => r.raw
  /\ r.status = "confirmed" <=> r.conf # 0

RunOK(e) ==
  /\ e \in [stage : [Stages -> Rows], phase : Phases, nf : SUBSET Terminals,
             child : [Terminals -> Identities]]
  /\ \A s \in Stages : RowOK(e.stage[s])

AppOK ==
  /\ drv = [pc |-> drv.pc, lap |-> drv.lap, todo |-> drv.todo, cur |-> drv.cur,
            proof |-> drv.proof, tip |-> drv.tip, late |-> drv.late]
  /\ drv.todo \subseteq Stages /\ drv.proof \in [Stages -> Identities] /\ drv.tip \in Nat
  /\ drv.pc \in Working => drv.cur \in Stages
  /\ drv.pc = "insert" => drv.cur \in Terminals
  /\ plan = [drv |-> plan.drv, sync |-> plan.sync]
  /\ plan.drv.ids \in [Stages -> Identities] /\ plan.sync.ids \in [Stages -> Identities]

ChainOK(c) == c \in [Stages -> Inclusion] /\ \A s \in Stages : c[s].deep => c[s].id # 0

WorldOK ==
  /\ ChainOK(chain) /\ ChainOK(view)
  /\ pool \subseteq Message /\ wire \subseteq Message
  /\ known \in Nat /\ seen \in Nat /\ tip \in Nat /\ ids \in Identities

TypeInv == RunOK(d) /\ AppOK /\ WorldOK

Sent == pool \union wire
Proofs == {drv.proof} \union {d.stage[s].proof : s \in Stages} \union {x.proof : x \in Sent}

\* Identities are given out in order.
Fresh(f) == \A p \in Stages : f[p] <= ids
\* What the chain has under the identity a proof names, the wallet has seen there.
Current(f) == \A p \in Stages : chain[p].id = f[p] /\ f[p] # 0 => view[p].id = f[p]
KnownInv ==
  /\ \A p \in Stages : chain[p].id <= ids /\ view[p].id <= ids
  /\ \A f \in Proofs : Fresh(f) /\ Current(f)

SameProof(f, x) == \A p \in Parents[x.tx] : f[p] = x.proof[p]
\* Two submissions that the chain accepts have the same proof, and so has the next one.
SameRowProof(x) == d.stage[x.tx].status = "pending" => SameProof(d.stage[x.tx].proof, x)
SameDrvProof(x) == drv.pc \in {"send", "answer", "promote"} /\ drv.cur = x.tx => SameProof(drv.proof, x)
\* A stage that is still pending when it is sent is sent with the proof of its row.
Carried == drv.pc = "send" /\ d.stage[drv.cur].status = "pending" => d.stage[drv.cur].proof = drv.proof
Agree == Carried /\ \A x \in Sent : Provable(x) => SameRowProof(x) /\ SameDrvProof(x)

Known(s) == d.stage[s].att = 1 \/ d.stage[s].status = "deleted"
Marked ==
  /\ \A s \in Stages : Live(s) => Known(s)
  /\ drv.pc = "send" => Known(drv.cur)

\* What an update of the rows leaves alone, other than a promotion or a rejection.
TameRow(r, q) ==
  /\ q.proof \in {r.proof, NoProof}
  /\ q.status = "pending" => r.status = "pending" /\ q.proof = r.proof
  /\ r.att = 1 \/ r.status = "deleted" => q.att = 1 \/ q.status = "deleted"
Tame(e, g) == \A s \in Stages : TameRow(e.stage[s], g.stage[s])

Inv == TypeInv /\ KnownInv /\ Agree /\ Marked

-----------------------------------------------------------------------------
(* The updates of the rows *)

LEMMA NoProofType == NoProof \in [Stages -> Identities] /\ \A s \in Stages : NoProof[s] = 0
BY StagesAssumption, SMT DEF NoProof, Identities

LEMMA MaxOfThree ==
  ASSUME NEW a \in Nat, NEW b \in Nat, NEW c \in Nat
  PROVE  Max({a, b, c}) \in Nat
<1>1. \E x \in {a, b, c} : \A y \in {a, b, c} : x >= y
  BY SMT
<1> QED BY <1>1, SMT DEF Max

LEMMA MaxOfTwo ==
  ASSUME NEW a \in Nat, NEW b \in Nat
  PROVE  Max({a, b}) \in Nat
<1>1. \E x \in {a, b} : \A y \in {a, b} : x >= y
  BY SMT
<1> QED BY <1>1, SMT DEF Max

\* A run whose rows are replaced.
LEMMA NewRows ==
  ASSUME NEW e, RunOK(e), NEW G, G \in [Stages -> Rows],
         \A s \in Stages : RowOK(G[s]) /\ TameRow(e.stage[s], G[s])
  PROVE  RunOK([e EXCEPT !.stage = G]) /\ Tame(e, [e EXCEPT !.stage = G])
<1> DEFINE g == [e EXCEPT !.stage = G]
<1>1. g \in [stage : [Stages -> Rows], phase : Phases, nf : SUBSET Terminals,
             child : [Terminals -> Identities]] /\ g.stage = G
  BY SMT DEF RunOK
<1> QED BY <1>1, SMT DEF RunOK, Tame

LEMMA SameRow ==
  ASSUME NEW e, RunOK(e), NEW s \in Stages
  PROVE  RowOK(e.stage[s]) /\ TameRow(e.stage[s], e.stage[s])
BY SMT DEF RunOK, TameRow

LEMMA LaterHeight ==
  ASSUME NEW r, RowOK(r), NEW m \in Nat
  PROVE  RowOK([r EXCEPT !.nb = m]) /\ TameRow(r, [r EXCEPT !.nb = m])
<1> DEFINE q == [r EXCEPT !.nb = m]
<1>1. r \in Rows
  BY DEF RowOK
<1>2. q \in Rows
  BY <1>1, SMT DEF Rows
<1>3. /\ q.status = r.status /\ (q.raw <=> r.raw) /\ q.proof = r.proof /\ q.att = r.att
      /\ q.conf = r.conf
  BY <1>1, SMT DEF Rows
<1> HIDE DEF q
<1>4. TameRow(r, q)
  BY <1>3, Zenon DEF TameRow
<1>5. q.status = "confirmed" <=> q.conf # 0
  BY <1>3, Zenon DEF RowOK
<1>6. /\ q.status = "awaiting_inputs" => ~q.raw
      /\ q.status \in {"pending", "broadcasted"} => q.raw
  BY <1>3, Zenon DEF RowOK
<1>7. RowOK(q)
  BY <1>2, <1>5, <1>6, Zenon DEF RowOK
<1> QED BY <1>4, <1>7 DEF q

LEMMA RedrawKeeps ==
  ASSUME NEW e, RunOK(e), NEW h \in Nat, NEW draw \in [Stages -> Nat]
  PROVE  RunOK(Redraw(e, h, draw)) /\ Tame(e, Redraw(e, h, draw))
<1> DEFINE F(s) == IF s \in Unsubmitted(e)
                   THEN [e.stage[s] EXCEPT !.nb = Max({h + draw[s], Sched[s], e.stage[s].nb})]
                   ELSE e.stage[s]
<1>1. ASSUME NEW s \in Stages
      PROVE  RowOK(F(s)) /\ TameRow(e.stage[s], F(s))
  <2>1. h + draw[s] \in Nat /\ Sched[s] \in Nat /\ e.stage[s].nb \in Nat
    BY StagesAssumption, SMT DEF RunOK, Rows
  <2>2. ASSUME NEW a \in Nat, NEW b \in Nat, NEW c \in Nat
        PROVE  \E m \in Nat : m = Max({a, b, c})
    BY MaxOfThree
  <2>3. PICK m \in Nat : m = Max({h + draw[s], Sched[s], e.stage[s].nb})
    BY <2>1, <2>2
  <2>4. F(s) = IF s \in Unsubmitted(e) THEN [e.stage[s] EXCEPT !.nb = m] ELSE e.stage[s]
    BY <2>3
  <2>5. RowOK([e.stage[s] EXCEPT !.nb = m]) /\ TameRow(e.stage[s], [e.stage[s] EXCEPT !.nb = m])
    BY LaterHeight DEF RunOK
  <2> QED BY <2>4, <2>5, SameRow
<1>2. CASE ~Spaced
  BY <1>2, SameRow DEF Redraw, Tame
<1>3. CASE Spaced
  <2> DEFINE G == [s \in Stages |-> F(s)]
  <2>1. \A s \in Stages : G[s] = F(s)
    OBVIOUS
  <2> HIDE DEF F
  <2>2. G \in [Stages -> Rows] /\ \A s \in Stages : RowOK(G[s]) /\ TameRow(e.stage[s], G[s])
    BY <1>1, <2>1 DEF RowOK
  <2>3. Redraw(e, h, draw) = [e EXCEPT !.stage = G]
    BY <1>3 DEF Redraw, F
  <2> HIDE DEF G
  <2> QED BY <2>2, <2>3, NewRows
<1> QED BY <1>2, <1>3

RowsOf(St, Id, Pf) ==
  [status : St, raw : BOOLEAN, proof : Pf, att : {0, 1}, nb : Nat, conf : Id]

LEMMA RowSet == Rows = RowsOf(Status, Identities, [Stages -> Identities])
BY DEF Rows, RowsOf, Identities

LEMMA RowMembers ==
  /\ {"awaiting_inputs", "pending", "broadcasted", "confirmed", "deleted"} \subseteq Status
  /\ 0 \in Identities /\ NoProof \in [Stages -> Identities]
  /\ TRUE \in BOOLEAN /\ FALSE \in BOOLEAN /\ 0 \in {0, 1} /\ 1 \in {0, 1} /\ 0 # 1
BY NoProofType, StagesAssumption DEF Status, Identities

\* What an update of a row changes and what it keeps.
\* reset_denomination_stage_exact
LEMMA RowReset ==
  ASSUME NEW r, RowOK(r), r.status # "deleted",
         NEW q, q = [r EXCEPT !.status = "awaiting_inputs", !.raw = FALSE, !.proof = NoProof, !.conf = 0]
  PROVE  RowOK(q) /\ TameRow(r, q)
<1>1. PICK St, Id, Pf : St = Status /\ Id = Identities /\ Pf = [Stages -> Identities]
  OBVIOUS
<1>2. r \in RowsOf(St, Id, Pf) /\ "awaiting_inputs" \in St /\ NoProof \in Pf /\ 0 \in Id
  BY <1>1, RowSet, RowMembers DEF RowOK
<1>3. q \in RowsOf(St, Id, Pf)
  BY <1>2 DEF RowsOf
<1>4. q.status = "awaiting_inputs"
  BY <1>2 DEF RowsOf
<1>5. ~q.raw
  BY <1>2 DEF RowsOf
<1>6. q.proof = NoProof
  BY <1>2 DEF RowsOf
<1>7. q.att = r.att
  BY <1>2 DEF RowsOf
<1>8. q.conf = 0
  BY <1>2 DEF RowsOf
<1>9. q \in Rows
  BY <1>1, <1>3, RowSet
<1> QED BY <1>4, <1>5, <1>6, <1>7, <1>8, <1>9, RowMembers, Zenon DEF RowOK, TameRow

\* replace_denomination_stage_confirmation_identity
LEMMA RowConfirmed ==
  ASSUME NEW r, RowOK(r), NEW i \in Identities, i # 0, r.status # "deleted",
         NEW q, q = [r EXCEPT !.status = "confirmed", !.conf = i]
  PROVE  RowOK(q) /\ TameRow(r, q)
<1>1. PICK St, Id, Pf : St = Status /\ Id = Identities /\ Pf = [Stages -> Identities]
  OBVIOUS
<1>2. r \in RowsOf(St, Id, Pf) /\ "confirmed" \in St /\ i \in Id
  BY <1>1, RowSet, RowMembers DEF RowOK
<1>3. q \in RowsOf(St, Id, Pf)
  BY <1>2 DEF RowsOf
<1>4. q.status = "confirmed"
  BY <1>2 DEF RowsOf
<1>5. q.raw <=> r.raw
  BY <1>2 DEF RowsOf
<1>6. q.proof = r.proof
  BY <1>2 DEF RowsOf
<1>7. q.att = r.att
  BY <1>2 DEF RowsOf
<1>8. q.conf = i
  BY <1>2 DEF RowsOf
<1>9. q \in Rows
  BY <1>1, <1>3, RowSet
<1> QED BY <1>4, <1>5, <1>6, <1>7, <1>8, <1>9, RowMembers, Zenon DEF RowOK, TameRow

\* transition_stage to broadcasted
LEMMA RowBroadcasted ==
  ASSUME NEW r, RowOK(r), r.status = "pending",
         NEW q, q = [r EXCEPT !.status = "broadcasted"]
  PROVE  RowOK(q) /\ TameRow(r, q)
<1>1. PICK St, Id, Pf : St = Status /\ Id = Identities /\ Pf = [Stages -> Identities]
  OBVIOUS
<1>2. r \in RowsOf(St, Id, Pf) /\ "broadcasted" \in St
  BY <1>1, RowSet, RowMembers DEF RowOK
<1>3. q \in RowsOf(St, Id, Pf)
  BY <1>2 DEF RowsOf
<1>4. q.status = "broadcasted"
  BY <1>2 DEF RowsOf
<1>5. q.raw <=> r.raw
  BY <1>2 DEF RowsOf
<1>6. q.proof = r.proof
  BY <1>2 DEF RowsOf
<1>7. q.att = r.att
  BY <1>2 DEF RowsOf
<1>8. q.conf = r.conf
  BY <1>2 DEF RowsOf
<1>9. q \in Rows
  BY <1>1, <1>3, RowSet
<1> QED BY <1>4, <1>5, <1>6, <1>7, <1>8, <1>9, RowMembers, Zenon DEF RowOK, TameRow

\* mark_denomination_broadcast_attempted
LEMMA RowAttempted ==
  ASSUME NEW r, RowOK(r),
         NEW q, q = [r EXCEPT !.att = 1]
  PROVE  RowOK(q) /\ TameRow(r, q)
<1>1. PICK St, Id, Pf : St = Status /\ Id = Identities /\ Pf = [Stages -> Identities]
  OBVIOUS
<1>2. r \in RowsOf(St, Id, Pf) /\ 1 \in {0, 1}
  BY <1>1, RowSet, RowMembers DEF RowOK
<1>3. q \in RowsOf(St, Id, Pf)
  BY <1>2 DEF RowsOf
<1>4. q.status = r.status
  BY <1>2 DEF RowsOf
<1>5. q.raw <=> r.raw
  BY <1>2 DEF RowsOf
<1>6. q.proof = r.proof
  BY <1>2 DEF RowsOf
<1>7. q.att = 1
  BY <1>2 DEF RowsOf
<1>8. q.conf = r.conf
  BY <1>2 DEF RowsOf
<1>9. q \in Rows
  BY <1>1, <1>3, RowSet
<1> QED BY <1>4, <1>5, <1>6, <1>7, <1>8, <1>9, RowMembers, Zenon DEF RowOK, TameRow

\* clear_denomination_broadcast_attempted
LEMMA RowCleared ==
  ASSUME NEW r, RowOK(r),
         NEW q, q = [r EXCEPT !.att = 0]
  PROVE  RowOK(q)
<1>1. PICK St, Id, Pf : St = Status /\ Id = Identities /\ Pf = [Stages -> Identities]
  OBVIOUS
<1>2. r \in RowsOf(St, Id, Pf) /\ 0 \in {0, 1}
  BY <1>1, RowSet, RowMembers DEF RowOK
<1>3. q \in RowsOf(St, Id, Pf)
  BY <1>2 DEF RowsOf
<1>4. q.status = r.status
  BY <1>2 DEF RowsOf
<1>5. q.raw <=> r.raw
  BY <1>2 DEF RowsOf
<1>6. q.proof = r.proof
  BY <1>2 DEF RowsOf
<1>7. q.att = 0
  BY <1>2 DEF RowsOf
<1>8. q.conf = r.conf
  BY <1>2 DEF RowsOf
<1>9. q \in Rows
  BY <1>1, <1>3, RowSet
<1> QED BY <1>4, <1>5, <1>6, <1>7, <1>8, <1>9, RowMembers, Zenon DEF RowOK

\* promote_awaiting_denomination_stage
LEMMA RowPromoted ==
  ASSUME NEW r, RowOK(r), r.status = "awaiting_inputs", NEW f \in [Stages -> Identities],
         NEW q, q = [r EXCEPT !.status = "pending", !.raw = TRUE, !.proof = f]
  PROVE  RowOK(q)
<1>1. PICK St, Id, Pf : St = Status /\ Id = Identities /\ Pf = [Stages -> Identities]
  OBVIOUS
<1>2. r \in RowsOf(St, Id, Pf) /\ "pending" \in St /\ f \in Pf
  BY <1>1, RowSet, RowMembers DEF RowOK
<1>3. q \in RowsOf(St, Id, Pf)
  BY <1>2 DEF RowsOf
<1>4. q.status = "pending"
  BY <1>2 DEF RowsOf
<1>5. q.raw
  BY <1>2 DEF RowsOf
<1>6. q.proof = f
  BY <1>2 DEF RowsOf
<1>7. q.att = r.att
  BY <1>2 DEF RowsOf
<1>8. q.conf = r.conf
  BY <1>2 DEF RowsOf
<1>9. q \in Rows
  BY <1>1, <1>3, RowSet
<1> QED BY <1>4, <1>5, <1>6, <1>7, <1>8, <1>9, RowMembers, Zenon DEF RowOK

\* a mined stage without its bytes takes them from the wallet
LEMMA RowRecovered ==
  ASSUME NEW r, RowOK(r), NEW i \in Identities, i # 0, r.status = "awaiting_inputs",
         NEW q, q = [r EXCEPT !.status = "confirmed", !.raw = TRUE, !.proof = NoProof, !.conf = i]
  PROVE  RowOK(q) /\ TameRow(r, q)
<1>1. PICK St, Id, Pf : St = Status /\ Id = Identities /\ Pf = [Stages -> Identities]
  OBVIOUS
<1>2. r \in RowsOf(St, Id, Pf) /\ "confirmed" \in St /\ NoProof \in Pf /\ i \in Id
  BY <1>1, RowSet, RowMembers DEF RowOK
<1>3. q \in RowsOf(St, Id, Pf)
  BY <1>2 DEF RowsOf
<1>4. q.status = "confirmed"
  BY <1>2 DEF RowsOf
<1>5. q.raw
  BY <1>2 DEF RowsOf
<1>6. q.proof = NoProof
  BY <1>2 DEF RowsOf
<1>7. q.att = r.att
  BY <1>2 DEF RowsOf
<1>8. q.conf = i
  BY <1>2 DEF RowsOf
<1>9. q \in Rows
  BY <1>1, <1>3, RowSet
<1> QED BY <1>4, <1>5, <1>6, <1>7, <1>8, <1>9, RowMembers, Zenon DEF RowOK, TameRow

-----------------------------------------------------------------------------
(* The updates of the run *)

RunSet == [stage : [Stages -> Rows], phase : Phases, nf : SUBSET Terminals,
           child : [Terminals -> Identities]]

LEMMA TameTrans ==
  ASSUME NEW e, NEW f, NEW g, Tame(e, f), Tame(f, g)
  PROVE  Tame(e, g)
<1> SUFFICES ASSUME NEW s \in Stages
             PROVE  TameRow(e.stage[s], g.stage[s])
  BY DEF Tame
<1>1. TameRow(e.stage[s], f.stage[s]) /\ TameRow(f.stage[s], g.stage[s])
  BY DEF Tame
<1> QED BY <1>1, Zenon DEF TameRow

LEMMA SameRows ==
  ASSUME NEW e, RunOK(e), NEW g \in RunSet, g.stage = e.stage
  PROVE  RunOK(g) /\ Tame(e, g)
<1>1. \A s \in Stages : RowOK(g.stage[s]) /\ TameRow(e.stage[s], g.stage[s])
  BY SameRow
<1> QED BY <1>1 DEF RunOK, RunSet, Tame

LEMMA NewRun ==
  ASSUME NEW e, RunOK(e), NEW g \in RunSet,
         \A s \in Stages : RowOK(g.stage[s]) /\ TameRow(e.stage[s], g.stage[s])
  PROVE  RunOK(g) /\ Tame(e, g)
BY DEF RunOK, RunSet, Tame

LEMMA Unchanged ==
  ASSUME NEW e, RunOK(e)
  PROVE  RunOK(e) /\ Tame(e, e)
BY SameRow DEF Tame

LEMMA PhaseSet ==
  ASSUME NEW e, RunOK(e), NEW p \in Phases
  PROVE  RunOK([e EXCEPT !.phase = p]) /\ Tame(e, [e EXCEPT !.phase = p])
<1> DEFINE g == [e EXCEPT !.phase = p]
<1>1. g \in RunSet /\ g.stage = e.stage
  BY DEF RunOK, RunSet
<1> QED BY <1>1, SameRows

LEMMA MarkWaitingKeeps ==
  ASSUME NEW e, RunOK(e)
  PROVE  RunOK(MarkWaiting(e)) /\ Tame(e, MarkWaiting(e))
<1>1. "waiting_denom_confirmations" \in Phases
  BY DEF Phases
<1> QED BY <1>1, PhaseSet, Unchanged DEF MarkWaiting

LEMMA RetireKeeps ==
  ASSUME NEW e, RunOK(e)
  PROVE  RunOK(Retire(e)) /\ Tame(e, Retire(e))
<1>1. "failed_terminal" \in Phases
  BY DEF Phases, Released
<1> QED BY <1>1, PhaseSet, Unchanged DEF Retire

LEMMA ResetChildrenKeeps ==
  ASSUME NEW e, RunOK(e), NEW mined, NEW A
  PROVE  RunOK(ResetChildren(e, mined, A)) /\ Tame(e, ResetChildren(e, mined, A))
<1> DEFINE lost == {s \in A \intersect Terminals : s \notin mined}
           G == [s \in Terminals |-> IF s \in lost THEN 0 ELSE e.child[s]]
           w == "waiting_denom_confirmations"
           g == [e EXCEPT !.child = G, !.nf = e.nf \ lost, !.phase = w]
<1>1. CASE e.phase \in Released \/ lost = {}
  BY <1>1, Unchanged DEF ResetChildren
<1>2. CASE ~(e.phase \in Released \/ lost = {})
  <2>1. G \in [Terminals -> Identities] /\ w \in Phases /\ e.nf \ lost \in SUBSET Terminals
    BY RowMembers DEF RunOK, Phases
  <2>2. ResetChildren(e, mined, A) = g
    BY <1>2 DEF ResetChildren
  <2> HIDE DEF G, w, lost
  <2>3. g \in RunSet /\ g.stage = e.stage
    BY <2>1 DEF RunOK, RunSet
  <2> QED BY <2>2, <2>3, SameRows
<1> QED BY <1>1, <1>2

LEMMA ResetRow ==
  ASSUME NEW e, RunOK(e), NEW s \in Stages
  PROVE  ResetStage(e, s).stage[s] =
           [e.stage[s] EXCEPT !.status = "awaiting_inputs", !.raw = FALSE, !.proof = NoProof,
                              !.conf = 0]
BY DEF RunOK, ResetStage

LEMMA UpdateStagesKeeps ==
  ASSUME NEW e, RunOK(e), NEW q, q.ids \in [Stages -> Identities],
         NEW h \in Nat, NEW draw \in [Stages -> Nat]
  PROVE  RunOK(UpdateStages(e, q, h, draw)) /\ Tame(e, UpdateStages(e, q, h, draw))
<1> DEFINE resets == {s \in q.invalid : e.stage[s].status # "deleted"}
           idents == {s \in Stages \ q.invalid : q.ids[s] # 0 /\ e.stage[s].status # "deleted"}
           F(s) == CASE s \in resets -> ResetStage(e, s).stage[s]
                     [] s \in idents -> RecordIdentity(e, s, q.ids[s]).stage[s]
                     [] OTHER -> e.stage[s]
           G == [s \in Stages |-> F(s)]
           d1 == [e EXCEPT !.stage = G]
<1>1. ASSUME NEW s \in Stages
      PROVE  RowOK(F(s)) /\ TameRow(e.stage[s], F(s))
  <2>0. RowOK(e.stage[s])
    BY DEF RunOK
  <2>1. CASE s \in resets
    <3>1. e.stage[s].status # "deleted" /\ F(s) = ResetStage(e, s).stage[s]
      BY <2>1
    <3>2. F(s) = [e.stage[s] EXCEPT !.status = "awaiting_inputs", !.raw = FALSE,
                                    !.proof = NoProof, !.conf = 0]
      BY <3>1, ResetRow
    <3> HIDE DEF F
    <3> QED BY <2>0, <3>1, <3>2, RowReset
  <2>2. CASE s \notin resets /\ s \in idents
    <3>1. /\ e.stage[s].status # "deleted" /\ q.ids[s] # 0 /\ q.ids[s] \in Identities
          /\ F(s) = RecordIdentity(e, s, q.ids[s]).stage[s]
      BY <2>2
    <3> HIDE DEF F
    <3>2. PICK i \in Identities : i = q.ids[s]
      BY <3>1
    <3>3. F(s) = [e.stage[s] EXCEPT !.status = "confirmed", !.conf = i]
      <4>1. F(s) = RecordIdentity(e, s, i).stage[s]
        BY <3>1, <3>2
      <4>2. RecordIdentity(e, s, i).stage[s] = [e.stage[s] EXCEPT !.status = "confirmed", !.conf = i]
        BY DEF RunOK, RecordIdentity
      <4> QED BY <4>1, <4>2
    <3> QED BY <2>0, <3>1, <3>2, <3>3, RowConfirmed
  <2>3. CASE s \notin resets /\ s \notin idents
    <3>1. F(s) = e.stage[s]
      BY <2>3
    <3> QED BY <3>1, SameRow
  <2> QED BY <2>1, <2>2, <2>3
<1>2. \A s \in Stages : G[s] = F(s)
  OBVIOUS
<1>3. UpdateStages(e, q, h, draw) = IF \E s \in q.recovered : e.stage[s].status = "pending"
                                    THEN Redraw(d1, h, draw) ELSE d1
  BY DEF UpdateStages
<1> HIDE DEF F
<1>4. G \in [Stages -> Rows] /\ \A s \in Stages : RowOK(G[s]) /\ TameRow(e.stage[s], G[s])
  BY <1>1, <1>2 DEF RowOK
<1>5. RunOK(d1) /\ Tame(e, d1)
  <2> HIDE DEF G
  <2> QED BY <1>4, NewRows
<1> HIDE DEF d1
<1>6. RunOK(Redraw(d1, h, draw)) /\ Tame(d1, Redraw(d1, h, draw))
  BY <1>5, RedrawKeeps
<1> QED BY <1>3, <1>5, <1>6, TameTrans

LEMMA ConfirmKeeps ==
  ASSUME NEW e, RunOK(e), NEW v, ChainOK(v)
  PROVE  RunOK(Confirm(e, v)) /\ Tame(e, Confirm(e, v))
<1> DEFINE first == IF Blocked(e, v) = {} THEN N + 1 ELSE Min(Blocked(e, v))
           F(s) == IF s < first /\ e.stage[s].status \in {"pending", "broadcasted"}
                   THEN RecordIdentity(e, s, v[s].id).stage[s] ELSE e.stage[s]
           G == [s \in Stages |-> F(s)]
           d1 == [e EXCEPT !.nf = Terminals, !.stage = G]
<1>1. CASE ~AllTrusted(e, v)
  BY <1>1, Unchanged DEF Confirm
<1>2. CASE AllTrusted(e, v)
  <2>1. ASSUME NEW s \in Stages
        PROVE  RowOK(F(s)) /\ TameRow(e.stage[s], F(s))
    <3>0. RowOK(e.stage[s])
      BY DEF RunOK
    <3>1. CASE s < first /\ e.stage[s].status \in {"pending", "broadcasted"}
      <4>1. e.stage[s].status # "deleted" /\ F(s) = RecordIdentity(e, s, v[s].id).stage[s]
        BY <3>1
      <4> HIDE DEF F
      <4>2. v[s].deep
        BY <1>2, <4>1 DEF AllTrusted
      <4>3. v[s].id # 0 /\ v[s].id \in Identities
        BY <4>2 DEF ChainOK, Inclusion
      <4>4. PICK i \in Identities : i = v[s].id
        BY <4>3
      <4>5. F(s) = RecordIdentity(e, s, i).stage[s]
        BY <4>1, <4>4
      <4>6. RecordIdentity(e, s, i).stage[s] =
              [e.stage[s] EXCEPT !.status = "confirmed", !.conf = i]
        BY DEF RunOK, RecordIdentity
      <4>7. F(s) = [e.stage[s] EXCEPT !.status = "confirmed", !.conf = i]
        BY <4>5, <4>6
      <4> QED BY <3>0, <4>1, <4>3, <4>4, <4>7, RowConfirmed
    <3>2. CASE ~(s < first /\ e.stage[s].status \in {"pending", "broadcasted"})
      <4>1. F(s) = e.stage[s]
        BY <3>2
      <4> QED BY <4>1, SameRow
    <3> QED BY <3>1, <3>2
  <2>2. \A s \in Stages : G[s] = F(s)
    OBVIOUS
  <2>3. Confirm(e, v) = IF first = N + 1 THEN [d1 EXCEPT !.phase = "ready_to_migrate"] ELSE d1
    BY <1>2 DEF Confirm, ConfirmStages
  <2> HIDE DEF F
  <2>4. G \in [Stages -> Rows] /\ \A s \in Stages : RowOK(G[s]) /\ TameRow(e.stage[s], G[s])
    BY <2>1, <2>2 DEF RowOK
  <2>5. RunOK(d1) /\ Tame(e, d1)
    <3> HIDE DEF G
    <3>1. d1 \in RunSet /\ d1.stage = G
      BY <2>4 DEF RunOK, RunSet
    <3> HIDE DEF d1
    <3> QED BY <2>4, <3>1, NewRun
  <2> HIDE DEF d1, first
  <2>6. "ready_to_migrate" \in Phases
    BY DEF Phases
  <2>7. RunOK([d1 EXCEPT !.phase = "ready_to_migrate"]) /\ Tame(d1, [d1 EXCEPT !.phase = "ready_to_migrate"])
    BY <2>5, <2>6, PhaseSet
  <2> QED BY <2>3, <2>5, <2>7, TameTrans
<1> QED BY <1>1, <1>2

LEMMA NewStage ==
  ASSUME NEW s \in Stages
  PROVE  RowOK(InsertStage(s)) /\ InsertStage(s).proof = NoProof
<1> DEFINE q == InsertStage(s)
<1>1. PICK St, Id, Pf : St = Status /\ Id = Identities /\ Pf = [Stages -> Identities]
  OBVIOUS
<1>2. /\ "pending" \in St /\ "awaiting_inputs" \in St /\ 0 \in Id /\ NoProof \in Pf
  BY <1>1, RowMembers
<1>3. q \in RowsOf(St, Id, Pf)
  BY <1>2 DEF RowsOf, InsertStage
<1>4. q.status = IF Parents[s] = {} THEN "pending" ELSE "awaiting_inputs"
  BY DEF InsertStage
<1>5. q.raw <=> Parents[s] = {}
  BY DEF InsertStage
<1>6. q.proof = NoProof
  BY DEF InsertStage
<1>7. q.conf = 0
  BY DEF InsertStage
<1>8. q \in Rows
  BY <1>1, <1>3, RowSet
<1> HIDE DEF q
<1>9. RowOK(q)
  BY <1>4, <1>5, <1>7, <1>8, Zenon DEF RowOK
<1> QED BY <1>6, <1>9 DEF q

\* discard_unsubmitted_preparation_stages
LEMMA RowDiscarded ==
  ASSUME NEW s \in Stages, NEW r, RowOK(r), r.status # "deleted",
         NEW q, q = [InsertStage(s) EXCEPT !.status = "deleted", !.raw = FALSE]
  PROVE  RowOK(q) /\ TameRow(r, q)
<1>1. PICK St, Id, Pf : St = Status /\ Id = Identities /\ Pf = [Stages -> Identities]
  OBVIOUS
<1>2. "deleted" \in St /\ 0 \in Id /\ NoProof \in Pf
  BY <1>1, RowMembers
<1>3. q \in RowsOf(St, Id, Pf)
  BY <1>2 DEF RowsOf, InsertStage
<1>4. q.status = "deleted"
  BY DEF InsertStage
<1>5. ~q.raw
  BY DEF InsertStage
<1>6. q.proof = NoProof
  BY DEF InsertStage
<1>7. q.conf = 0
  BY DEF InsertStage
<1>8. q \in Rows
  BY <1>1, <1>3, RowSet
<1> QED BY <1>4, <1>5, <1>6, <1>7, <1>8, Zenon DEF RowOK, TameRow

LEMMA DiscardKeeps ==
  ASSUME NEW e, RunOK(e)
  PROVE  RunOK(Discard(e)) /\ Tame(e, Discard(e))
<1> DEFINE F(s) == IF s \in Unsubmitted(e)
                   THEN [InsertStage(s) EXCEPT !.status = "deleted", !.raw = FALSE]
                   ELSE e.stage[s]
           G == [s \in Stages |-> F(s)]
<1>1. ASSUME NEW s \in Stages
      PROVE  RowOK(F(s)) /\ TameRow(e.stage[s], F(s))
  <2>0. RowOK(e.stage[s])
    BY DEF RunOK
  <2>1. CASE s \in Unsubmitted(e)
    <3>1. /\ e.stage[s].status # "deleted"
          /\ F(s) = [InsertStage(s) EXCEPT !.status = "deleted", !.raw = FALSE]
      BY <2>1 DEF Unsubmitted, With
    <3> HIDE DEF F
    <3> QED BY <2>0, <3>1, RowDiscarded
  <2>2. CASE s \notin Unsubmitted(e)
    <3>1. F(s) = e.stage[s]
      BY <2>2
    <3> QED BY <3>1, SameRow
  <2> QED BY <2>1, <2>2
<1>2. \A s \in Stages : G[s] = F(s)
  OBVIOUS
<1>3. Discard(e) = [e EXCEPT !.stage = G]
  BY DEF Discard
<1> HIDE DEF F
<1>4. G \in [Stages -> Rows] /\ \A s \in Stages : RowOK(G[s]) /\ TameRow(e.stage[s], G[s])
  BY <1>1, <1>2 DEF RowOK
<1> HIDE DEF G
<1> QED BY <1>3, <1>4, NewRows

\* A run of which one row is replaced.
LEMMA OneRow ==
  ASSUME NEW e, RunOK(e), NEW s \in Stages, NEW q, RowOK(q)
  PROVE  /\ RunOK([e EXCEPT !.stage[s] = q])
         /\ [e EXCEPT !.stage[s] = q].stage[s] = q
         /\ \A t \in Stages \ {s} : [e EXCEPT !.stage[s] = q].stage[t] = e.stage[t]
         /\ TameRow(e.stage[s], q) => Tame(e, [e EXCEPT !.stage[s] = q])
<1> DEFINE g == [e EXCEPT !.stage[s] = q]
<1>1. g \in RunSet
  BY DEF RunOK, RunSet, RowOK
<1>2. g.stage[s] = q
  BY DEF RunOK
<1>3. \A t \in Stages \ {s} : g.stage[t] = e.stage[t]
  BY DEF RunOK
<1> HIDE DEF g
<1>4. \A t \in Stages : RowOK(g.stage[t])
  BY <1>2, <1>3 DEF RunOK
<1>5. RunOK(g)
  BY <1>1, <1>4 DEF RunOK, RunSet
<1>6. TameRow(e.stage[s], q) => Tame(e, g)
  BY <1>2, <1>3, SameRow DEF Tame
<1> QED BY <1>2, <1>3, <1>5, <1>6 DEF g

LEMMA PromoteStageKeeps ==
  ASSUME NEW e, RunOK(e), NEW s \in Stages, NEW f \in [Stages -> Identities],
         e.stage[s].status = "awaiting_inputs"
  PROVE  /\ RunOK(PromoteStage(e, s, f))
         /\ PromoteStage(e, s, f).stage[s].status = "pending"
         /\ PromoteStage(e, s, f).stage[s].proof = f
         /\ PromoteStage(e, s, f).stage[s].att = e.stage[s].att
         /\ \A t \in Stages \ {s} : PromoteStage(e, s, f).stage[t] = e.stage[t]
<1> DEFINE q == [e.stage[s] EXCEPT !.status = "pending", !.raw = TRUE, !.proof = f]
<1>1. RowOK(e.stage[s]) /\ e.stage[s] \in Rows
  BY DEF RunOK, RowOK
<1>2. q.status = "pending" /\ q.proof = f /\ q.att = e.stage[s].att
  BY <1>1 DEF Rows
<1>3. PromoteStage(e, s, f) = [e EXCEPT !.stage[s] = q]
  BY DEF PromoteStage, RunOK
<1>4. RowOK(q)
  BY <1>1, RowPromoted
<1> HIDE DEF q
<1> QED BY <1>2, <1>3, <1>4, OneRow

LEMMA MarkAttemptedKeeps ==
  ASSUME NEW e, RunOK(e), NEW s \in Stages
  PROVE  /\ RunOK(MarkAttempted(e, s)) /\ Tame(e, MarkAttempted(e, s))
         /\ MarkAttempted(e, s).stage[s].att = 1
<1> DEFINE q == [e.stage[s] EXCEPT !.att = 1]
<1>1. RowOK(e.stage[s]) /\ e.stage[s] \in Rows
  BY DEF RunOK, RowOK
<1>2. q.att = 1
  BY <1>1 DEF Rows
<1>3. MarkAttempted(e, s) = [e EXCEPT !.stage[s] = q]
  BY DEF MarkAttempted, RunOK
<1>4. RowOK(q) /\ TameRow(e.stage[s], q)
  BY <1>1, RowAttempted
<1> HIDE DEF q
<1> QED BY <1>2, <1>3, <1>4, OneRow

LEMMA ClearAttemptedKeeps ==
  ASSUME NEW e, RunOK(e), NEW s \in Stages
  PROVE  /\ RunOK(ClearAttempted(e, s))
         /\ \A t \in Stages \ {s} : ClearAttempted(e, s).stage[t] = e.stage[t]
         /\ ClearAttempted(e, s).stage[s].status = e.stage[s].status
         /\ ClearAttempted(e, s).stage[s].proof = e.stage[s].proof
         /\ e.stage[s].status # "pending" => ClearAttempted(e, s) = e
<1> DEFINE q == [e.stage[s] EXCEPT !.att = 0]
<1>1. RowOK(e.stage[s]) /\ e.stage[s] \in Rows
  BY DEF RunOK, RowOK
<1>2. q.status = e.stage[s].status /\ q.proof = e.stage[s].proof
  BY <1>1 DEF Rows
<1>3. ClearAttempted(e, s) = IF e.stage[s].status = "pending" THEN [e EXCEPT !.stage[s] = q] ELSE e
  BY DEF ClearAttempted, RunOK
<1>4. RowOK(q)
  BY <1>1, RowCleared
<1> HIDE DEF q
<1> QED BY <1>2, <1>3, <1>4, OneRow

LEMMA MarkBroadcastedKeeps ==
  ASSUME NEW e, RunOK(e), NEW s \in Stages
  PROVE  RunOK(MarkBroadcasted(e, s)) /\ Tame(e, MarkBroadcasted(e, s))
<1> DEFINE q == [e.stage[s] EXCEPT !.status = "broadcasted"]
<1>1. RowOK(e.stage[s])
  BY DEF RunOK
<1>2. CASE e.stage[s].status = "pending"
  <2>1. MarkBroadcasted(e, s) = [e EXCEPT !.stage[s] = q]
    BY <1>2 DEF MarkBroadcasted, RunOK
  <2>2. RowOK(q) /\ TameRow(e.stage[s], q)
    BY <1>1, <1>2, RowBroadcasted
  <2> HIDE DEF q
  <2> QED BY <2>1, <2>2, OneRow
<1>3. CASE e.stage[s].status # "pending"
  BY <1>3, Unchanged DEF MarkBroadcasted
<1> QED BY <1>2, <1>3

\* the rows that Recover writes
Recovered(e, v, found) ==
  [e EXCEPT !.stage = [s \in Stages |->
     IF s \in found
     THEN RecordIdentity(PromoteStage(e, s, NoProof), s, v[s].id).stage[s]
     ELSE e.stage[s]]]

LEMMA RecoverKeeps ==
  ASSUME NEW e, RunOK(e), NEW v, ChainOK(v), NEW found,
         \A s \in found : s \in Stages /\ e.stage[s].status = "awaiting_inputs" /\ v[s].id # 0
  PROVE  RunOK(Recovered(e, v, found)) /\ Tame(e, Recovered(e, v, found))
<1> DEFINE F(s) == IF s \in found
                   THEN RecordIdentity(PromoteStage(e, s, NoProof), s, v[s].id).stage[s]
                   ELSE e.stage[s]
           G == [s \in Stages |-> F(s)]
<1>1. ASSUME NEW s \in Stages
      PROVE  RowOK(F(s)) /\ TameRow(e.stage[s], F(s))
  <2>0. RowOK(e.stage[s])
    BY DEF RunOK
  <2>1. CASE s \in found
    <3>1. /\ e.stage[s].status = "awaiting_inputs" /\ v[s].id # 0
          /\ F(s) = RecordIdentity(PromoteStage(e, s, NoProof), s, v[s].id).stage[s]
      BY <2>1
    <3> HIDE DEF F
    <3>2. PICK i \in Identities : i = v[s].id
      BY DEF ChainOK, Inclusion
    <3>3. PICK w : w = PromoteStage(e, s, NoProof)
      OBVIOUS
    <3>4. RunOK(w)
      BY <3>1, <3>3, RowMembers, PromoteStageKeeps
    <3>5. F(s) = RecordIdentity(w, s, i).stage[s]
      BY <3>1, <3>2, <3>3
    <3>6. RecordIdentity(w, s, i).stage[s] = [w.stage[s] EXCEPT !.status = "confirmed", !.conf = i]
      BY <3>4 DEF RunOK, RecordIdentity
    <3>7. w.stage[s] = [e.stage[s] EXCEPT !.status = "pending", !.raw = TRUE, !.proof = NoProof]
      BY <3>3 DEF RunOK, PromoteStage
    <3>8. [w.stage[s] EXCEPT !.status = "confirmed", !.conf = i] =
            [e.stage[s] EXCEPT !.status = "confirmed", !.raw = TRUE, !.proof = NoProof, !.conf = i]
      BY <2>0, <3>7 DEF RowOK, Rows
    <3>9. F(s) = [e.stage[s] EXCEPT !.status = "confirmed", !.raw = TRUE, !.proof = NoProof, !.conf = i]
      BY <3>5, <3>6, <3>8
    <3> QED BY <2>0, <3>1, <3>2, <3>9, RowRecovered
  <2>2. CASE s \notin found
    <3>1. F(s) = e.stage[s]
      BY <2>2
    <3> QED BY <3>1, SameRow
  <2> QED BY <2>1, <2>2
<1>2. \A s \in Stages : G[s] = F(s)
  OBVIOUS
<1>3. Recovered(e, v, found) = [e EXCEPT !.stage = G]
  BY DEF Recovered
<1> HIDE DEF F
<1>4. G \in [Stages -> Rows] /\ \A s \in Stages : RowOK(G[s]) /\ TameRow(e.stage[s], G[s])
  BY <1>1, <1>2 DEF RowOK
<1> HIDE DEF G
<1> QED BY <1>3, <1>4, NewRows

\* what a reconciler reads of the chain
LEMMA PlanType ==
  ASSUME NEW e, RunOK(e), NEW v, ChainOK(v)
  PROVE  ReadPlan(e, v).ids \in [Stages -> Identities]
<1>1. \A s \in Stages : v[s].id \in Identities
  BY DEF ChainOK, Inclusion
<1> QED BY <1>1, RowMembers DEF ReadPlan

-----------------------------------------------------------------------------
(* Steps of the app, and of the world *)

LEMMA NoProofKnown ==
  ASSUME TypeInv
  PROVE  Fresh(NoProof) /\ Current(NoProof)
<1>1. ids \in Nat
  BY StagesAssumption, SMT DEF TypeInv, WorldOK, Identities
<1> QED BY <1>1, NoProofType, SMT DEF Fresh, Current

\* A step that changes neither the world nor a proof, and submits nothing.
LEMMA AppStep ==
  ASSUME Inv, RunOK(d'), AppOK', UNCHANGED <<wallet, net>>, Tame(d, d'),
         drv'.proof \in {drv.proof, NoProof},
         drv' = drv \/ drv'.pc \notin {"send", "answer", "promote"}
  PROVE  Inv'
<1>0. /\ known' = known /\ seen' = seen /\ view' = view
      /\ tip' = tip /\ chain' = chain /\ pool' = pool /\ wire' = wire /\ ids' = ids
  BY DEF wallet, net
<1>1. TypeInv'
  BY <1>0 DEF Inv, TypeInv, WorldOK, ChainOK, RunOK
<1>2. KnownInv'
  <2>1. \A f \in Proofs' : f \in Proofs \/ f = NoProof
    <3>1. \A s \in Stages : d'.stage[s].proof \in {d.stage[s].proof, NoProof}
      BY DEF Tame, TameRow
    <3> QED BY <1>0, <3>1 DEF Proofs, Sent
  <2>2. \A f \in Proofs' : Fresh(f) /\ Current(f)
    BY <2>1, NoProofKnown DEF Inv, KnownInv
  <2> QED BY <1>0, <2>2 DEF Inv, KnownInv, Fresh, Current
<1>3. Agree'
  <2>1. Carried'
    <3> SUFFICES ASSUME drv'.pc = "send", d'.stage[drv'.cur].status = "pending"
                 PROVE  d'.stage[drv'.cur].proof = drv'.proof
      BY DEF Carried
    <3>1. drv' = drv
      OBVIOUS
    <3>2. drv.cur \in Stages
      BY <3>1 DEF Inv, TypeInv, AppOK, Working
    <3> QED BY <3>1, <3>2 DEF Inv, Agree, Carried, Tame, TameRow
  <2>2. ASSUME NEW x \in Sent', Provable(x)'
        PROVE  SameRowProof(x)' /\ SameDrvProof(x)'
    <3>1. x \in Sent /\ Provable(x)
      BY <1>0, <2>2 DEF Sent, Provable
    <3>2. x.tx \in Stages
      BY <3>1 DEF Inv, TypeInv, WorldOK, Sent, Message
    <3>3. SameRowProof(x) /\ SameDrvProof(x)
      BY <3>1 DEF Inv, Agree
    <3>4. SameRowProof(x)'
      BY <3>2, <3>3 DEF SameRowProof, SameProof, Tame, TameRow
    <3>5. SameDrvProof(x)'
      BY <3>3 DEF SameDrvProof, SameProof
    <3> QED BY <3>4, <3>5
  <2> QED BY <2>1, <2>2 DEF Agree
<1>4. Marked'
  <2>1. \A s \in Stages : Known(s) => Known(s)'
    BY DEF Known, Tame, TameRow
  <2>2. \A s \in Stages : Live(s)' => Live(s)
    BY <1>0 DEF Live, Valid, Provable, PastExpiry
  <2>3. drv'.pc = "send" => drv' = drv /\ drv.cur \in Stages
    BY DEF Inv, TypeInv, AppOK, Working
  <2> QED BY <2>1, <2>2, <2>3 DEF Inv, Marked, Known
<1> QED BY <1>1, <1>2, <1>3, <1>4 DEF Inv

\* A step of the wallet's scan or of the network: what may be mined was so before.
LEMMA WorldStep ==
  ASSUME Inv, TypeInv', KnownInv', d' = d, drv' = drv,
         \A x \in Sent' : x \in Sent \/ Parents[x.tx] = {},
         \A x \in Sent : Provable(x)' => Provable(x),
         \A s \in Stages : Live(s)' => Live(s)
  PROVE  Inv'
<1>1. Agree'
  <2>1. Carried'
    BY DEF Inv, Agree, Carried
  <2>2. ASSUME NEW x \in Sent', Provable(x)'
        PROVE  SameRowProof(x)' /\ SameDrvProof(x)'
    <3>1. CASE Parents[x.tx] = {}
      BY <3>1 DEF SameRowProof, SameDrvProof, SameProof
    <3>2. CASE Parents[x.tx] # {}
      <4>1. x \in Sent /\ Provable(x)
        BY <2>2, <3>2
      <4> QED BY <4>1 DEF Inv, Agree, SameRowProof, SameDrvProof, SameProof
    <3> QED BY <3>1, <3>2
  <2> QED BY <2>1, <2>2 DEF Agree
<1>2. Marked'
  BY DEF Inv, Marked, Known
<1> QED BY <1>1, <1>2 DEF Inv

\* The driver goes to another step, or ends.
LEMMA GotoType ==
  ASSUME AppOK, NEW l, Goto(l), UNCHANGED plan,
         l \in Working => drv.pc \in Working, l # "insert"
  PROVE  AppOK' /\ drv'.pc = l /\ drv'.proof = drv.proof /\ drv'.cur = drv.cur
<1>1. /\ drv'.pc = l /\ drv'.lap = drv.lap /\ drv'.todo = drv.todo /\ drv'.cur = drv.cur
      /\ drv'.proof = drv.proof /\ drv'.tip = drv.tip /\ drv'.late = drv.late
  BY DEF Goto, AppOK
<1>2. drv' = [pc |-> drv'.pc, lap |-> drv'.lap, todo |-> drv'.todo, cur |-> drv'.cur,
              proof |-> drv'.proof, tip |-> drv'.tip, late |-> drv'.late]
  BY DEF Goto, AppOK
<1>3. /\ drv.todo \subseteq Stages /\ drv.proof \in [Stages -> Identities] /\ drv.tip \in Nat
      /\ drv.pc \in Working => drv.cur \in Stages
      /\ plan = [drv |-> plan.drv, sync |-> plan.sync]
      /\ plan.drv.ids \in [Stages -> Identities] /\ plan.sync.ids \in [Stages -> Identities]
  BY DEF AppOK
<1> QED BY <1>1, <1>2, <1>3 DEF AppOK

LEMMA IdleType ==
  /\ Idle = [pc |-> Idle.pc, lap |-> Idle.lap, todo |-> Idle.todo, cur |-> Idle.cur,
             proof |-> Idle.proof, tip |-> Idle.tip, late |-> Idle.late]
  /\ Idle.pc = "idle" /\ Idle.todo = {} /\ Idle.proof = NoProof /\ Idle.tip = 0
BY DEF Idle

LEMMA ReturnType ==
  ASSUME AppOK, Return, UNCHANGED plan
  PROVE  AppOK' /\ drv'.pc = "idle" /\ drv'.proof = NoProof
<1>1. /\ drv' = [pc |-> drv'.pc, lap |-> drv'.lap, todo |-> drv'.todo, cur |-> drv'.cur,
                 proof |-> drv'.proof, tip |-> drv'.tip, late |-> drv'.late]
      /\ drv'.pc = "idle" /\ drv'.todo = {} /\ drv'.proof = NoProof /\ drv'.tip = 0
  BY IdleType DEF Return
<1>2. "idle" \notin Working /\ "idle" # "insert"
  BY DEF Working
<1>3. 0 \in Nat
  OBVIOUS
<1>4. /\ plan = [drv |-> plan.drv, sync |-> plan.sync]
      /\ plan.drv.ids \in [Stages -> Identities] /\ plan.sync.ids \in [Stages -> Identities]
  BY DEF AppOK
<1> QED BY <1>1, <1>2, <1>3, <1>4, NoProofType DEF AppOK

LEMMA GotoStep ==
  ASSUME Inv, RunOK(d'), Tame(d, d'), NEW l, Goto(l),
         l \notin {"send", "answer", "promote", "insert"}, l \in Working => drv.pc \in Working,
         UNCHANGED plan, UNCHANGED wallet, UNCHANGED net
  PROVE  Inv'
<1>1. AppOK' /\ drv'.pc = l /\ drv'.proof = drv.proof
  BY GotoType DEF Inv, TypeInv
<1> QED BY <1>1, AppStep

LEMMA ReturnStep ==
  ASSUME Inv, RunOK(d'), Tame(d, d'), Return,
         UNCHANGED plan, UNCHANGED wallet, UNCHANGED net
  PROVE  Inv'
<1>1. AppOK' /\ drv'.pc = "idle" /\ drv'.proof = NoProof
  BY ReturnType DEF Inv, TypeInv
<1> QED BY <1>1, AppStep

\* A step of the sync engine's reconciliation, or of a reader of the plan.
LEMMA PlanSet ==
  ASSUME AppOK, NEW q, q.ids \in [Stages -> Identities], NEW a \in {"drv", "sync"},
         plan' = [plan EXCEPT ![a] = q], UNCHANGED drv
  PROVE  AppOK'
<1>1. plan = [drv |-> plan.drv, sync |-> plan.sync]
  BY DEF AppOK
<1>2. plan' = [drv |-> plan'.drv, sync |-> plan'.sync]
  BY <1>1
<1>3. plan'.drv \in {plan.drv, q} /\ plan'.sync \in {plan.sync, q}
  BY <1>1
<1> QED BY <1>2, <1>3 DEF AppOK

LEMMA StagesStepKeeps ==
  ASSUME Inv, NEW a \in {"drv", "sync"}, StagesStep(a)
  PROVE  RunOK(d') /\ Tame(d, d')
<1>1. PICK f \in [Stages -> Delays] :
        d' = IF d.phase \in Released THEN d ELSE UpdateStages(d, plan[a], known, f)
  BY DEF StagesStep
<1>2. f \in [Stages -> Nat]
  BY StagesAssumption
<1>3. RunOK(d) /\ known \in Nat
  BY DEF Inv, TypeInv, WorldOK
<1>4. PICK q : q = plan[a]
  OBVIOUS
<1>5. q.ids \in [Stages -> Identities]
  BY <1>4 DEF Inv, TypeInv, AppOK
<1>6. RunOK(UpdateStages(d, q, known, f)) /\ Tame(d, UpdateStages(d, q, known, f))
  BY <1>2, <1>3, <1>5, UpdateStagesKeeps
<1>7. RunOK(d) /\ Tame(d, d)
  BY <1>3, Unchanged
<1> QED BY <1>1, <1>4, <1>6, <1>7

LEMMA ChildrenKeeps ==
  ASSUME Inv, NEW a, Children(a)
  PROVE  RunOK(d') /\ Tame(d, d')
BY ResetChildrenKeeps DEF Children, Inv, TypeInv

LEMMA PhaseStepKeeps ==
  ASSUME Inv, NEW a, PhaseStep(a)
  PROVE  RunOK(d') /\ Tame(d, d')
<1>1. RunOK(d)
  BY DEF Inv, TypeInv
<1> QED BY <1>1, Unchanged, MarkWaitingKeeps DEF PhaseStep

LEMMA SyncStepKeeps ==
  ASSUME Inv, SyncStep
  PROVE  Inv'
<1>0. /\ RunOK(d) /\ AppOK /\ ChainOK(view)
      /\ UNCHANGED drv /\ UNCHANGED wallet /\ UNCHANGED net
  BY DEF Inv, TypeInv, WorldOK, SyncStep
<1>1. ASSUME RunOK(d'), Tame(d, d'), AppOK'
      PROVE  Inv'
  BY <1>0, <1>1, AppStep
<1>2. ASSUME UNCHANGED plan
      PROVE  AppOK'
  BY <1>0, <1>2 DEF AppOK
<1>3. CASE Read("sync") /\ d' = d
  <2>1. AppOK'
    BY <1>0, <1>3, PlanType, PlanSet DEF Read
  <2> QED BY <1>0, <1>1, <1>3, <2>1, Unchanged
<1>4. CASE Children("sync") /\ UNCHANGED plan
  BY <1>1, <1>2, <1>4, ChildrenKeeps
<1>5. CASE StagesStep("sync") /\ UNCHANGED plan
  BY <1>1, <1>2, <1>5, StagesStepKeeps
<1>6. CASE PhaseStep("sync") /\ UNCHANGED plan
  BY <1>1, <1>2, <1>6, PhaseStepKeeps
<1>7. CASE d' = Confirm(d, view) /\ plan' = [plan EXCEPT !.sync = NoPlan]
  <2>1. NoPlan.ids \in [Stages -> Identities]
    BY NoProofType DEF NoPlan
  <2>2. AppOK'
    BY <1>0, <1>7, <2>1, PlanSet
  <2> QED BY <1>0, <1>1, <1>7, <2>2, ConfirmKeeps
<1> QED BY <1>3, <1>4, <1>5, <1>6, <1>7 DEF SyncStep

LEMMA ReadStep ==
  ASSUME Inv, UNCHANGED <<d, wallet, net>>, Read("drv"),
         NEW w \in Nat, drv' = [drv EXCEPT !.pc = "children", !.lap = w] \/ Goto("children")
  PROVE  Inv'
<1>0. RunOK(d) /\ AppOK /\ ChainOK(view)
  BY DEF Inv, TypeInv, WorldOK
<1>1. /\ drv' = [pc |-> drv'.pc, lap |-> drv'.lap, todo |-> drv'.todo, cur |-> drv'.cur,
                 proof |-> drv'.proof, tip |-> drv'.tip, late |-> drv'.late]
      /\ drv'.pc = "children" /\ drv'.todo = drv.todo /\ drv'.proof = drv.proof
      /\ drv'.tip = drv.tip
  BY <1>0 DEF Goto, AppOK
<1>2. PICK q : q = ReadPlan(d, view)
  OBVIOUS
<1>3. q.ids \in [Stages -> Identities] /\ plan' = [plan EXCEPT !.drv = q]
  BY <1>0, <1>2, PlanType DEF Read
<1>4. plan = [drv |-> plan.drv, sync |-> plan.sync]
  BY <1>0 DEF AppOK
<1>5. /\ plan' = [drv |-> plan'.drv, sync |-> plan'.sync]
      /\ plan'.drv = q /\ plan'.sync = plan.sync
  BY <1>3, <1>4
<1>6. "children" \notin Working /\ "children" # "insert"
  BY DEF Working
<1>7. AppOK'
  BY <1>0, <1>1, <1>3, <1>5, <1>6 DEF AppOK
<1>8. RunOK(d') /\ Tame(d, d')
  BY <1>0, Unchanged
<1> QED BY <1>1, <1>7, <1>8, AppStep

LEMMA BeginKeeps ==
  ASSUME Inv, Begin
  PROVE  Inv'
BY ReadStep DEF Begin

LEMMA ReadyCheckKeeps ==
  ASSUME Inv, ReadyCheck
  PROVE  Inv'
BY ReadStep DEF ReadyCheck

LEMMA DrvReconcileKeeps ==
  ASSUME Inv, DrvReconcile
  PROVE  Inv'
<1>0. UNCHANGED plan /\ UNCHANGED wallet /\ UNCHANGED net
  BY DEF DrvReconcile, Keep
<1>1. CASE Children("drv") /\ Goto("stages")
  BY <1>0, <1>1, ChildrenKeeps, GotoStep DEF Working
<1>2. CASE StagesStep("drv") /\ Goto("phase")
  BY <1>0, <1>2, StagesStepKeeps, GotoStep DEF Working
<1>3. CASE PhaseStep("drv") /\ Goto(IF drv.lap = 1 THEN "recover" ELSE "confirm")
  <2>1. PICK l \in {"recover", "confirm"} : Goto(l)
    BY <1>3
  <2> QED BY <1>0, <1>3, <2>1, PhaseStepKeeps, GotoStep DEF Working
<1> QED BY <1>1, <1>2, <1>3 DEF DrvReconcile

LEMMA RecoverStepKeeps ==
  ASSUME Inv, Recover
  PROVE  Inv'
<1> DEFINE found == {s \in With(d, "awaiting_inputs") : view[s].id # 0}
<1>0. RunOK(d) /\ ChainOK(view) /\ UNCHANGED plan /\ UNCHANGED wallet /\ UNCHANGED net
  BY DEF Inv, TypeInv, WorldOK, Recover, Keep
<1>1. CASE found \subseteq raw
  <2>1. d' = Recovered(d, view, found) /\ Goto("expiry")
    BY <1>1 DEF Recover, Recovered
  <2>2. \A s \in found : s \in Stages /\ d.stage[s].status = "awaiting_inputs" /\ view[s].id # 0
    BY DEF With
  <2> HIDE DEF found
  <2>3. RunOK(d') /\ Tame(d, d')
    BY <1>0, <2>1, <2>2, RecoverKeeps
  <2> QED BY <1>0, <2>1, <2>3, GotoStep DEF Working
<1>2. CASE ~(found \subseteq raw)
  <2>1. d' = d /\ Return
    BY <1>2 DEF Recover
  <2> QED BY <1>0, <2>1, Unchanged, ReturnStep
<1> QED BY <1>1, <1>2

LEMMA RetireExpiredKeeps ==
  ASSUME Inv, RetireExpired
  PROVE  Inv'
<1>0. RunOK(d) /\ UNCHANGED plan /\ UNCHANGED wallet /\ UNCHANGED net
  BY DEF Inv, TypeInv, RetireExpired, Keep
<1>1. CASE d' = Retire(d) /\ Return
  BY <1>0, <1>1, RetireKeeps, ReturnStep
<1>2. CASE d' = d /\ Goto("select")
  BY <1>0, <1>2, Unchanged, GotoStep DEF Working
<1> QED BY <1>1, <1>2 DEF RetireExpired

LEMMA SelectDueKeeps ==
  ASSUME Inv, SelectDue
  PROVE  Inv'
<1>0. /\ RunOK(d) /\ AppOK /\ RunOK(d') /\ Tame(d, d')
      /\ UNCHANGED plan /\ UNCHANGED wallet /\ UNCHANGED net
  BY Unchanged DEF Inv, TypeInv, SelectDue, Keep
<1>1. CASE Return
  BY <1>0, <1>1, ReturnStep
<1>2. CASE Goto("finalize")
  BY <1>0, <1>2, GotoStep DEF Working
<1>3. CASE Goto("ready")
  BY <1>0, <1>3, GotoStep DEF Working
<1>4. CASE \E T \in SUBSET Stages : \E h \in Nat :
             drv' = [drv EXCEPT !.pc = "attempt", !.todo = T, !.tip = h]
  <2>1. PICK T \in SUBSET Stages, h \in Nat :
          drv' = [drv EXCEPT !.pc = "attempt", !.todo = T, !.tip = h]
    BY <1>4
  <2>2. /\ drv' = [pc |-> drv'.pc, lap |-> drv'.lap, todo |-> drv'.todo, cur |-> drv'.cur,
                   proof |-> drv'.proof, tip |-> drv'.tip, late |-> drv'.late]
        /\ drv'.pc = "attempt" /\ drv'.todo = T /\ drv'.proof = drv.proof /\ drv'.tip = h
    BY <1>0, <2>1 DEF AppOK
  <2>3. "attempt" \notin Working /\ "attempt" # "insert"
    BY DEF Working
  <2>4. AppOK'
    BY <1>0, <2>2, <2>3 DEF AppOK
  <2> QED BY <1>0, <2>2, <2>4, AppStep
<1>5. Return \/ Goto("finalize") \/ Goto("ready")
      \/ \E T \in SUBSET Stages : \E h \in Nat :
             drv' = [drv EXCEPT !.pc = "attempt", !.todo = T, !.tip = h]
  <2>1. CASE Return
    BY <2>1
  <2>2. CASE NothingDue
    BY <2>2 DEF NothingDue, Goto
  <2>3. CASE ~Return /\ ~NothingDue
    <3>1. PICK h : h = Max({known, tip})
      OBVIOUS
    <3>2. known \in Nat /\ tip \in Nat
      BY DEF Inv, TypeInv, WorldOK
    <3>3. h \in Nat
      BY <3>1, <3>2, MaxOfTwo
    <3>4. PICK due : due = {s \in With(d, "pending") : Ready(d, s, h)}
      OBVIOUS
    <3>5. \E T \in (IF Spaced THEN {{s} : s \in due} ELSE {due}) :
            drv' = [drv EXCEPT !.pc = "attempt", !.todo = T, !.tip = h]
      BY <2>3, <3>1, <3>4 DEF SelectDue
    <3>6. due \subseteq Stages
      BY <3>4 DEF With
    <3> QED BY <3>3, <3>5, <3>6
  <2> QED BY <2>1, <2>2, <2>3
<1> QED BY <1>1, <1>2, <1>3, <1>4, <1>5

LEMMA StoreSentKeeps ==
  ASSUME Inv, StoreSent
  PROVE  Inv'
<1>0. /\ RunOK(d') /\ Tame(d, d') /\ drv.pc \in Working
      /\ UNCHANGED plan /\ UNCHANGED wallet /\ UNCHANGED net
  BY Unchanged DEF Inv, TypeInv, StoreSent, Keep, Working
<1>1. CASE Goto("mark")
  BY <1>0, <1>1, GotoStep
<1>2. CASE Return
  BY <1>0, <1>2, ReturnStep
<1> QED BY <1>1, <1>2 DEF StoreSent

LEMMA MarkSentKeeps ==
  ASSUME Inv, MarkSent
  PROVE  Inv'
<1>0. /\ RunOK(d) /\ AppOK /\ drv.cur \in Stages /\ drv.tip \in Nat
      /\ UNCHANGED plan /\ UNCHANGED wallet /\ UNCHANGED net
  BY DEF Inv, TypeInv, AppOK, MarkSent, Keep, Working
<1>1. CASE ~MayBroadcast(d, drv.cur)
  BY <1>0, <1>1, Unchanged, ReturnStep DEF MarkSent
<1>2. CASE MayBroadcast(d, drv.cur)
  <2>1. PICK f \in [Stages -> Delays] :
          d' = IF Spaced /\ drv.late THEN Redraw(MarkBroadcasted(d, drv.cur), drv.tip, f)
               ELSE MarkBroadcasted(d, drv.cur)
    BY <1>2 DEF MarkSent
  <2>2. f \in [Stages -> Nat]
    BY StagesAssumption
  <2>3. PICK e : e = MarkBroadcasted(d, drv.cur)
    OBVIOUS
  <2>4. RunOK(e) /\ Tame(d, e)
    BY <1>0, <2>3, MarkBroadcastedKeeps
  <2>5. RunOK(Redraw(e, drv.tip, f)) /\ Tame(e, Redraw(e, drv.tip, f))
    BY <1>0, <2>2, <2>4, RedrawKeeps
  <2>6. RunOK(d') /\ Tame(d, d')
    BY <2>1, <2>3, <2>4, <2>5, TameTrans
  <2>7. CASE Return
    BY <1>0, <2>6, <2>7, ReturnStep
  <2>8. CASE Goto("attempt")
    BY <1>0, <2>6, <2>8, GotoStep DEF Working
  <2> QED BY <1>2, <2>7, <2>8 DEF MarkSent
<1> QED BY <1>1, <1>2

LEMMA FinalizeDoneKeeps ==
  ASSUME Inv, FinalizeDone
  PROVE  Inv'
<1>0. RunOK(d') /\ Tame(d, d') /\ UNCHANGED plan /\ UNCHANGED wallet /\ UNCHANGED net
  BY Unchanged DEF Inv, TypeInv, FinalizeDone, Keep
<1>1. CASE Goto("expiry")
  BY <1>0, <1>1, GotoStep DEF Working
<1>2. CASE Return
  BY <1>0, <1>2, ReturnStep
<1> QED BY <1>1, <1>2 DEF FinalizeDone

LEMMA DrvConfirmKeeps ==
  ASSUME Inv, DrvConfirm
  PROVE  Inv'
<1>0. /\ RunOK(d) /\ ChainOK(view) /\ d' = Confirm(d, view)
      /\ UNCHANGED plan /\ UNCHANGED wallet /\ UNCHANGED net
  BY DEF Inv, TypeInv, WorldOK, DrvConfirm, Keep
<1>1. RunOK(d') /\ Tame(d, d')
  BY <1>0, ConfirmKeeps
<1>2. CASE Goto("prove")
  BY <1>0, <1>1, <1>2, GotoStep DEF Working
<1>3. CASE Return
  BY <1>0, <1>1, <1>3, ReturnStep
<1> QED BY <1>2, <1>3 DEF DrvConfirm

LEMMA InsertChildKeeps ==
  ASSUME Inv, InsertChild
  PROVE  Inv'
<1>0. /\ RunOK(d) /\ drv.cur \in Terminals /\ drv.proof \in [Stages -> Identities]
      /\ Goto("prove") /\ UNCHANGED plan /\ UNCHANGED wallet /\ UNCHANGED net
  BY DEF Inv, TypeInv, AppOK, InsertChild, Keep
<1>1. RunOK(d') /\ Tame(d, d')
  <2>1. CASE d.phase \in Released
    BY <1>0, <2>1, Unchanged DEF InsertChild
  <2>2. CASE d.phase \notin Released
    <3>1. PICK i \in Identities : i = drv.proof[drv.cur]
      BY <1>0, StagesAssumption
    <3>2. PICK p \in Phases : p = "broadcast_scheduled"
      BY DEF Phases
    <3>3. d' = [d EXCEPT !.child[drv.cur] = i, !.phase = p]
      BY <2>2, <3>1, <3>2 DEF InsertChild
    <3>4. d' \in RunSet /\ d'.stage = d.stage
      BY <1>0, <3>3 DEF RunOK, RunSet
    <3> QED BY <1>0, <3>4, SameRows
  <2> QED BY <2>1, <2>2
<1> QED BY <1>0, <1>1, GotoStep DEF Working

LEMMA ChildrenDoneKeeps ==
  ASSUME Inv, ChildrenDone
  PROVE  Inv'
BY Unchanged, ReturnStep DEF Inv, TypeInv, ChildrenDone, Keep

-----------------------------------------------------------------------------
(* The steps that prove, submit, and settle a submission *)

\* A step that leaves the world alone keeps what is known of the proofs.
LEMMA KnownStep ==
  ASSUME Inv, UNCHANGED <<wallet, net>>, Fresh(drv'.proof), Current(drv'.proof),
         \A s \in Stages : d'.stage[s].proof \in Proofs
  PROVE  KnownInv'
<1>1. view' = view /\ chain' = chain /\ pool' = pool /\ wire' = wire /\ ids' = ids
  BY DEF wallet, net
<1>2. \A f \in Proofs' : f \in Proofs \/ f = drv'.proof
  BY <1>1 DEF Proofs, Sent
<1>3. \A f \in Proofs' : Fresh(f) /\ Current(f)
  BY <1>2 DEF Inv, KnownInv
<1> QED BY <1>1, <1>3 DEF Inv, KnownInv, Fresh, Current

\* The driver works on a stage.
LEMMA WorkType ==
  ASSUME AppOK, NEW l, NEW s \in Stages, NEW f \in [Stages -> Identities], UNCHANGED plan,
         drv'.pc = l, drv'.cur = s, drv'.proof = f, drv'.todo \subseteq drv.todo,
         drv'.tip = drv.tip, l = "insert" => s \in Terminals,
         drv' = [pc |-> drv'.pc, lap |-> drv'.lap, todo |-> drv'.todo, cur |-> drv'.cur,
                 proof |-> drv'.proof, tip |-> drv'.tip, late |-> drv'.late]
  PROVE  AppOK'
<1>1. /\ drv.todo \subseteq Stages /\ drv.tip \in Nat
      /\ plan = [drv |-> plan.drv, sync |-> plan.sync]
      /\ plan.drv.ids \in [Stages -> Identities] /\ plan.sync.ids \in [Stages -> Identities]
  BY DEF AppOK
<1> QED BY <1>1 DEF AppOK

LEMMA AttemptKeeps ==
  ASSUME Inv, NEW s \in Stages, Attempt(s)
  PROVE  Inv'
<1>0. /\ RunOK(d) /\ AppOK /\ WorldOK /\ UNCHANGED plan /\ UNCHANGED wallet /\ UNCHANGED net
  BY DEF Inv, TypeInv, Attempt, Keep
<1>1. CASE d.stage[s].status # "pending"
  BY <1>0, <1>1, Unchanged, ReturnStep DEF Attempt
<1>2. CASE d.stage[s].status = "pending"
  <2>1. /\ d' = MarkAttempted(d, s)
        /\ drv' = [drv EXCEPT !.pc = "send", !.cur = s, !.todo = drv.todo \ {s},
                              !.proof = d.stage[s].proof, !.late = EffectiveHeight(d, s) < drv.tip]
    BY <1>2 DEF Attempt
  <2>2. RunOK(d') /\ Tame(d, d') /\ d'.stage[s].att = 1
    BY <1>0, <2>1, MarkAttemptedKeeps
  <2>3. PICK f, late, todo : /\ f = d.stage[s].proof /\ todo = drv.todo \ {s}
                             /\ late = (EffectiveHeight(d, s) < drv.tip)
    OBVIOUS
  <2>4. drv' = [drv EXCEPT !.pc = "send", !.cur = s, !.todo = todo, !.proof = f, !.late = late]
    BY <2>1, <2>3
  <2>5. /\ drv' = [pc |-> drv'.pc, lap |-> drv'.lap, todo |-> drv'.todo, cur |-> drv'.cur,
                   proof |-> drv'.proof, tip |-> drv'.tip, late |-> drv'.late]
        /\ drv'.pc = "send" /\ drv'.todo = todo /\ drv'.cur = s /\ drv'.proof = f
        /\ drv'.tip = drv.tip
    BY <1>0, <2>4 DEF AppOK
  <2>6. f \in [Stages -> Identities] /\ f \in Proofs
    BY <1>0, <2>3, RowSet DEF RunOK, RowOK, RowsOf, Proofs
  <2>7. AppOK'
    BY <1>0, <2>3, <2>5, <2>6, WorkType
  <2>8. TypeInv'
    BY <1>0, <2>2, <2>7 DEF TypeInv, WorldOK, ChainOK, RunOK, wallet, net
  <2>9. KnownInv'
    <3>2. \A t \in Stages : d'.stage[t].proof = d.stage[t].proof
      BY <1>0, <2>1 DEF MarkAttempted, RunOK, Rows
    <3>3. \A t \in Stages : d'.stage[t].proof \in Proofs
      BY <3>2 DEF Proofs
    <3> QED BY <1>0, <2>5, <2>6, <3>3, KnownStep DEF Inv, KnownInv
  <2>10. chain' = chain /\ pool' = pool /\ wire' = wire /\ tip' = tip
    BY <1>0 DEF net
  <2>11. Agree'
    <3>1. Carried'
      BY <2>2, <2>3, <2>5 DEF Carried, Tame, TameRow
    <3>2. ASSUME NEW x \in Sent', Provable(x)'
          PROVE  SameRowProof(x)' /\ SameDrvProof(x)'
      <4>1. x \in Sent /\ Provable(x) /\ x.tx \in Stages
        BY <1>0, <2>10, <3>2 DEF Sent, Provable, WorldOK, Message
      <4>2. SameRowProof(x)
        BY <4>1 DEF Inv, Agree
      <4>3. SameRowProof(x)'
        BY <2>2, <4>1, <4>2 DEF SameRowProof, SameProof, Tame, TameRow
      <4>4. SameDrvProof(x)'
        BY <1>2, <2>3, <2>5, <4>2 DEF SameRowProof, SameDrvProof, SameProof
      <4> QED BY <4>3, <4>4
    <3> QED BY <3>1, <3>2 DEF Agree
  <2>12. Marked'
    <3>1. \A t \in Stages : Known(t) => Known(t)'
      BY <2>2 DEF Known, Tame, TameRow
    <3>2. \A t \in Stages : Live(t)' => Live(t)
      BY <2>10 DEF Live, Valid, Provable, PastExpiry
    <3> QED BY <2>2, <2>5, <3>1, <3>2 DEF Inv, Marked, Known
  <2> QED BY <2>8, <2>9, <2>11, <2>12 DEF Inv
<1> QED BY <1>1, <1>2

LEMMA SendKeeps ==
  ASSUME Inv, Send
  PROVE  Inv'
<1> DEFINE y == [tx |-> drv.cur, proof |-> drv.proof]
<1>0. /\ RunOK(d) /\ AppOK /\ WorldOK /\ d' = d /\ drv.pc = "send"
      /\ drv.cur \in Stages /\ drv.proof \in [Stages -> Identities]
      /\ UNCHANGED plan /\ UNCHANGED wallet /\ Goto("answer")
      /\ wire' = wire \union {y} /\ tip' = tip /\ chain' = chain /\ pool' = pool /\ ids' = ids
  BY DEF Inv, TypeInv, AppOK, Send, Keep, Working
<1>1. y \in Message /\ y.tx = drv.cur /\ y.proof = drv.proof
  BY <1>0 DEF Message
<1> HIDE DEF y
<1>2. AppOK' /\ drv'.pc = "answer" /\ drv'.proof = drv.proof /\ drv'.cur = drv.cur
  BY <1>0, GotoType DEF Working
<1>3. TypeInv'
  BY <1>0, <1>1, <1>2 DEF TypeInv, WorldOK, ChainOK, RunOK, wallet
<1>4. Sent' = Sent \union {y}
  BY <1>0 DEF Sent
<1>5. KnownInv'
  <2>1. \A f \in Proofs' : f \in Proofs
    BY <1>0, <1>1, <1>2, <1>4 DEF Proofs
  <2> QED BY <1>0, <2>1 DEF Inv, KnownInv, Fresh, Current, wallet
<1>6. Agree'
  <2>1. Carried'
    BY <1>2 DEF Carried
  <2>2. ASSUME NEW x \in Sent', Provable(x)'
        PROVE  SameRowProof(x)' /\ SameDrvProof(x)'
    <3>1. CASE x = y
      <4>1. SameDrvProof(x)'
        BY <1>1, <1>2, <3>1 DEF SameDrvProof, SameProof
      <4>2. SameRowProof(x)'
        BY <1>0, <1>1, <3>1 DEF Inv, Agree, Carried, SameRowProof, SameProof
      <4> QED BY <4>1, <4>2
    <3>2. CASE x # y
      <4>1. x \in Sent /\ Provable(x)
        BY <1>0, <1>4, <2>2, <3>2 DEF Provable
      <4>2. SameRowProof(x) /\ SameDrvProof(x)
        BY <4>1 DEF Inv, Agree
      <4> QED BY <1>0, <1>2, <4>2 DEF SameRowProof, SameDrvProof, SameProof
    <3> QED BY <3>1, <3>2
  <2> QED BY <2>1, <2>2 DEF Agree
<1>7. Marked'
  <2>1. ASSUME NEW s \in Stages, Live(s)'
        PROVE  Live(s) \/ s = drv.cur
    BY <1>0, <1>1, <1>4, <2>1 DEF Live, Valid, Provable, PastExpiry, Sent
  <2> QED BY <1>0, <1>2, <2>1 DEF Inv, Marked, Known
<1> QED BY <1>3, <1>5, <1>6, <1>7 DEF Inv

LEMMA AnswerKeeps ==
  ASSUME Inv, Answer
  PROVE  Inv'
<1> DEFINE y == [tx |-> drv.cur, proof |-> drv.proof]
<1>0. /\ RunOK(d) /\ AppOK /\ WorldOK /\ drv.pc = "answer" /\ drv.pc \in Working
      /\ drv.cur \in Stages /\ UNCHANGED plan /\ UNCHANGED wallet /\ UNCHANGED net
  BY DEF Inv, TypeInv, AppOK, Answer, Keep, Working
<1>1. CASE d' = d /\ Goto("store")
  BY <1>0, <1>1, Unchanged, GotoStep DEF Working
<1>2. CASE d' = d /\ Return
  BY <1>0, <1>2, Unchanged, ReturnStep
<1>3. CASE /\ ~OnNetwork(drv.cur) /\ ~Valid(y)
           /\ d' = ClearAttempted(d, drv.cur) /\ Return
  <2>1. AppOK' /\ drv'.pc = "idle" /\ drv'.proof = NoProof
    BY <1>0, <1>3, ReturnType
  <2>2. PICK e : e = d'
    OBVIOUS
  <2>3. /\ RunOK(e)
        /\ \A t \in Stages : /\ e.stage[t].status = d.stage[t].status
                             /\ e.stage[t].proof = d.stage[t].proof
        /\ \A t \in Stages \ {drv.cur} : e.stage[t] = d.stage[t]
    BY <1>0, <1>3, <2>2, ClearAttemptedKeeps
  <2>4. TypeInv'
    BY <1>0, <2>1, <2>2, <2>3 DEF TypeInv, WorldOK, ChainOK, RunOK, wallet, net
  <2>5. KnownInv'
    <3>1. \A t \in Stages : d'.stage[t].proof \in Proofs
      BY <2>2, <2>3 DEF Proofs
    <3>2. Fresh(drv'.proof) /\ Current(drv'.proof)
      BY <2>1, NoProofKnown DEF Inv
    <3> QED BY <1>0, <3>1, <3>2, KnownStep
  <2>6. chain' = chain /\ pool' = pool /\ wire' = wire /\ tip' = tip
    BY <1>0 DEF net
  <2>7. Agree'
    <3>1. Carried'
      BY <2>1 DEF Carried
    <3>2. ASSUME NEW x \in Sent', Provable(x)'
          PROVE  SameRowProof(x)' /\ SameDrvProof(x)'
      <4>1. x \in Sent /\ Provable(x) /\ x.tx \in Stages
        BY <1>0, <2>6, <3>2 DEF Sent, Provable, WorldOK, Message
      <4>2. SameRowProof(x)
        BY <4>1 DEF Inv, Agree
      <4>3. SameRowProof(x)'
        BY <2>2, <2>3, <4>1, <4>2 DEF SameRowProof, SameProof
      <4> QED BY <2>1, <4>3 DEF SameDrvProof
    <3> QED BY <3>1, <3>2 DEF Agree
  <2>8. ~Live(drv.cur)
    <3> SUFFICES ASSUME NEW x \in wire, x.tx = drv.cur, Valid(x)
                 PROVE  FALSE
      BY <1>3 DEF Live, OnNetwork
    <3>1. Provable(x) /\ x \in Sent
      BY DEF Valid, Sent
    <3>2. SameProof(drv.proof, x)
      BY <1>0, <3>1 DEF Inv, Agree, SameDrvProof
    <3>3. Valid(y)
      BY <3>2 DEF Valid, Provable, SameProof
    <3> QED BY <1>3, <3>3
  <2>9. Marked'
    <3>1. \A t \in Stages : Live(t)' => Live(t) /\ t # drv.cur
      BY <2>6, <2>8 DEF Live, Valid, Provable, PastExpiry
    <3> QED BY <2>1, <2>2, <2>3, <3>1 DEF Inv, Marked, Known
  <2> QED BY <2>4, <2>5, <2>7, <2>9 DEF Inv
<1> QED BY <1>1, <1>2, <1>3 DEF Answer

\* What is proved on what the wallet has seen.
LEMMA SeenProof ==
  ASSUME Inv, NEW f, \A p \in Stages : f[p] \in {0, view[p].id}
  PROVE  Fresh(f) /\ Current(f)
<1>1. ids \in Nat /\ \A p \in Stages : view[p].id \in Nat /\ view[p].id <= ids
  BY StagesAssumption DEF Inv, TypeInv, KnownInv, WorldOK, ChainOK, Inclusion, Identities
<1> QED BY <1>1 DEF Fresh, Current

LEMMA ProveKeeps ==
  ASSUME Inv, NEW s \in Stages, Prove(s)
  PROVE  Inv'
<1>1. PICK f : f = ProofOf(s)
  OBVIOUS
<1>2. \A p \in Stages : f[p] = IF p \in Parents[s] THEN view[p].id ELSE 0
  BY <1>1 DEF ProofOf
<1>3. f \in [Stages -> Identities]
  BY <1>1, RowMembers DEF ProofOf, Inv, TypeInv, WorldOK, ChainOK, Inclusion
<1>4. /\ RunOK(d) /\ AppOK /\ WorldOK /\ d' = d
      /\ UNCHANGED plan /\ UNCHANGED wallet /\ UNCHANGED net
      /\ drv' = [drv EXCEPT !.pc = "promote", !.cur = s, !.proof = f]
  BY <1>1 DEF Inv, TypeInv, Prove, Keep
<1>5. /\ drv' = [pc |-> drv'.pc, lap |-> drv'.lap, todo |-> drv'.todo, cur |-> drv'.cur,
                 proof |-> drv'.proof, tip |-> drv'.tip, late |-> drv'.late]
      /\ drv'.pc = "promote" /\ drv'.todo = drv.todo /\ drv'.cur = s /\ drv'.proof = f
      /\ drv'.tip = drv.tip
  BY <1>4 DEF AppOK
<1>6. AppOK'
  BY <1>3, <1>4, <1>5, WorkType
<1>7. TypeInv'
  BY <1>4, <1>6 DEF TypeInv, WorldOK, ChainOK, RunOK, wallet, net
<1>8. Fresh(f) /\ Current(f)
  BY <1>2, SeenProof
<1>9. KnownInv'
  BY <1>4, <1>5, <1>8, KnownStep DEF Proofs
<1>10. chain' = chain /\ pool' = pool /\ wire' = wire /\ tip' = tip
  BY <1>4 DEF net
<1>11. Agree'
  <2>1. Carried'
    BY <1>5 DEF Carried
  <2>2. ASSUME NEW x \in Sent', Provable(x)'
        PROVE  SameRowProof(x)' /\ SameDrvProof(x)'
    <3>1. x \in Sent /\ Provable(x)
      BY <1>10, <2>2 DEF Sent, Provable
    <3>2. SameRowProof(x)'
      BY <1>4, <3>1 DEF Inv, Agree, SameRowProof, SameProof
    <3>3. SameDrvProof(x)'
      <4> SUFFICES ASSUME x.tx = s, NEW p \in Parents[s]
                   PROVE  f[p] = x.proof[p]
        BY <1>5 DEF SameDrvProof, SameProof
      <4>1. chain[p].id # 0 /\ chain[p].id = x.proof[p] /\ p \in Stages
        BY <3>1, StagesAssumption DEF Provable
      <4>2. Current(x.proof)
        BY <3>1 DEF Inv, KnownInv, Proofs
      <4> QED BY <1>2, <4>1, <4>2 DEF Current
    <3> QED BY <3>2, <3>3
  <2> QED BY <2>1, <2>2 DEF Agree
<1>12. Marked'
  BY <1>4, <1>5, <1>10 DEF Inv, Marked, Known, Live, Valid, Provable, PastExpiry
<1> QED BY <1>7, <1>9, <1>11, <1>12 DEF Inv

LEMMA PromoteKeeps ==
  ASSUME Inv, Promote
  PROVE  Inv'
<1>0. /\ RunOK(d) /\ AppOK /\ WorldOK /\ drv.pc = "promote" /\ drv.pc \in Working
      /\ drv.cur \in Stages /\ drv.proof \in [Stages -> Identities]
      /\ UNCHANGED plan /\ UNCHANGED wallet /\ UNCHANGED net
  BY DEF Inv, TypeInv, AppOK, Promote, Keep, Working
<1>1. CASE ~Promotable(d, drv.cur)
  BY <1>0, <1>1, Unchanged, ReturnStep DEF Promote
<1>2. CASE Promotable(d, drv.cur)
  <2>1. /\ d' = PromoteStage(d, drv.cur, drv.proof)
        /\ drv' = [drv EXCEPT !.pc = "finalize", !.lap = 2]
        /\ d.stage[drv.cur].status = "awaiting_inputs"
    BY <1>2 DEF Promote, Promotable
  <2>2. PICK e : e = d'
    OBVIOUS
  <2>3. /\ RunOK(e)
        /\ e.stage[drv.cur].status = "pending" /\ e.stage[drv.cur].proof = drv.proof
        /\ e.stage[drv.cur].att = d.stage[drv.cur].att
        /\ \A t \in Stages \ {drv.cur} : e.stage[t] = d.stage[t]
    BY <1>0, <2>1, <2>2, PromoteStageKeeps
  <2>4. /\ drv' = [pc |-> drv'.pc, lap |-> drv'.lap, todo |-> drv'.todo, cur |-> drv'.cur,
                   proof |-> drv'.proof, tip |-> drv'.tip, late |-> drv'.late]
        /\ drv'.pc = "finalize" /\ drv'.todo = drv.todo /\ drv'.cur = drv.cur
        /\ drv'.proof = drv.proof /\ drv'.tip = drv.tip
    BY <1>0, <2>1 DEF AppOK
  <2>5. AppOK'
    BY <1>0, <2>4, WorkType
  <2>6. TypeInv'
    BY <1>0, <2>2, <2>3, <2>5 DEF TypeInv, WorldOK, ChainOK, RunOK, wallet, net
  <2>7. KnownInv'
    <3>1. \A t \in Stages : d'.stage[t].proof \in Proofs
      BY <2>2, <2>3 DEF Proofs
    <3>2. Fresh(drv'.proof) /\ Current(drv'.proof)
      BY <2>4 DEF Inv, KnownInv, Proofs
    <3> QED BY <1>0, <3>1, <3>2, KnownStep
  <2>8. chain' = chain /\ pool' = pool /\ wire' = wire /\ tip' = tip
    BY <1>0 DEF net
  <2>9. Agree'
    <3>1. Carried'
      BY <2>4 DEF Carried
    <3>2. ASSUME NEW x \in Sent', Provable(x)'
          PROVE  SameRowProof(x)' /\ SameDrvProof(x)'
      <4>1. x \in Sent /\ Provable(x) /\ x.tx \in Stages
        BY <1>0, <2>8, <3>2 DEF Sent, Provable, WorldOK, Message
      <4>2. SameRowProof(x) /\ SameDrvProof(x)
        BY <4>1 DEF Inv, Agree
      <4>3. SameRowProof(x)'
        BY <1>0, <2>2, <2>3, <4>1, <4>2 DEF SameRowProof, SameDrvProof, SameProof
      <4> QED BY <2>4, <4>3 DEF SameDrvProof
    <3> QED BY <3>1, <3>2 DEF Agree
  <2>10. Marked'
    <3>1. \A t \in Stages : Known(t) => Known(t)'
      BY <2>1, <2>2, <2>3 DEF Known
    <3>2. \A t \in Stages : Live(t)' => Live(t)
      BY <2>8 DEF Live, Valid, Provable, PastExpiry
    <3> QED BY <2>4, <3>1, <3>2 DEF Inv, Marked
  <2> QED BY <2>6, <2>7, <2>9, <2>10 DEF Inv
<1> QED BY <1>1, <1>2

LEMMA ProveChildKeeps ==
  ASSUME Inv, NEW s \in Terminals, ProveChild(s)
  PROVE  Inv'
<1>1. PICK f : f = [NoProof EXCEPT ![s] = view[s].id]
  OBVIOUS
<1>2. s \in Stages
  BY StagesAssumption
<1>3. f \in [Stages -> Identities] /\ \A p \in Stages : f[p] \in {0, view[p].id}
  BY <1>1, <1>2, NoProofType DEF Inv, TypeInv, WorldOK, ChainOK, Inclusion
<1>4. /\ RunOK(d) /\ AppOK /\ WorldOK /\ d' = d
      /\ UNCHANGED plan /\ UNCHANGED wallet /\ UNCHANGED net
      /\ drv' = [drv EXCEPT !.pc = "insert", !.cur = s, !.proof = f]
  BY <1>1 DEF Inv, TypeInv, ProveChild, Keep
<1>5. /\ drv' = [pc |-> drv'.pc, lap |-> drv'.lap, todo |-> drv'.todo, cur |-> drv'.cur,
                 proof |-> drv'.proof, tip |-> drv'.tip, late |-> drv'.late]
      /\ drv'.pc = "insert" /\ drv'.todo = drv.todo /\ drv'.cur = s /\ drv'.proof = f
      /\ drv'.tip = drv.tip
  BY <1>4 DEF AppOK
<1>6. AppOK'
  BY <1>2, <1>3, <1>4, <1>5, WorkType
<1>7. TypeInv'
  BY <1>4, <1>6 DEF TypeInv, WorldOK, ChainOK, RunOK, wallet, net
<1>8. Fresh(f) /\ Current(f)
  BY <1>3, SeenProof
<1>9. KnownInv'
  BY <1>4, <1>5, <1>8, KnownStep DEF Proofs
<1>10. chain' = chain /\ pool' = pool /\ wire' = wire /\ tip' = tip
  BY <1>4 DEF net
<1>11. Agree'
  <2>1. Carried'
    BY <1>5 DEF Carried
  <2>2. ASSUME NEW x \in Sent', Provable(x)'
        PROVE  SameRowProof(x)' /\ SameDrvProof(x)'
    BY <1>4, <1>5, <1>10, <2>2 DEF Inv, Agree, Sent, Provable, SameRowProof, SameDrvProof, SameProof
  <2> QED BY <2>1, <2>2 DEF Agree
<1>12. Marked'
  BY <1>4, <1>5, <1>10 DEF Inv, Marked, Known, Live, Valid, Provable, PastExpiry
<1> QED BY <1>7, <1>9, <1>11, <1>12 DEF Inv

\* The driver stops for the user, and settles its candidates one at a time.
LEMMA StopType ==
  ASSUME AppOK, UNCHANGED plan, drv'.pc = "stop", drv'.todo \subseteq Stages,
         drv'.proof \in {drv.proof, NoProof}, drv'.tip \in {drv.tip, 0},
         drv' = [pc |-> drv'.pc, lap |-> drv'.lap, todo |-> drv'.todo, cur |-> drv'.cur,
                 proof |-> drv'.proof, tip |-> drv'.tip, late |-> drv'.late]
  PROVE  AppOK'
<1>1. "stop" \notin Working /\ "stop" # "insert"
  BY DEF Working
<1>2. /\ drv.proof \in [Stages -> Identities] /\ drv.tip \in Nat
      /\ plan = [drv |-> plan.drv, sync |-> plan.sync]
      /\ plan.drv.ids \in [Stages -> Identities] /\ plan.sync.ids \in [Stages -> Identities]
  BY DEF AppOK
<1>3. drv'.proof \in [Stages -> Identities] /\ drv'.tip \in Nat
  BY <1>2, NoProofType
<1> QED BY <1>1, <1>2, <1>3 DEF AppOK

LEMMA StopBeginKeeps ==
  ASSUME Inv, StopBegin
  PROVE  Inv'
<1>1. PICK T : T = {s \in With(d, "pending") : d.stage[s].att = 1 /\ d.phase # "abandoned"}
  OBVIOUS
<1>2. T \in SUBSET Stages
  BY <1>1 DEF With
<1>3. /\ drv' = [Idle EXCEPT !.pc = "stop", !.todo = T] /\ d' = d /\ RunOK(d) /\ AppOK
      /\ UNCHANGED plan /\ UNCHANGED wallet /\ UNCHANGED net
  BY <1>1 DEF Inv, TypeInv, StopBegin, Keep
<1>4. /\ drv' = [pc |-> drv'.pc, lap |-> drv'.lap, todo |-> drv'.todo, cur |-> drv'.cur,
                 proof |-> drv'.proof, tip |-> drv'.tip, late |-> drv'.late]
      /\ drv'.pc = "stop" /\ drv'.todo = T /\ drv'.proof = NoProof /\ drv'.tip = 0
  BY <1>3 DEF Idle
<1>5. AppOK'
  BY <1>2, <1>3, <1>4, StopType
<1> QED BY <1>3, <1>4, <1>5, Unchanged, AppStep

LEMMA StopReconcileKeeps ==
  ASSUME Inv, NEW s \in Stages, StopReconcile(s)
  PROVE  Inv'
<1>1. /\ RunOK(d) /\ AppOK /\ drv.pc = "stop"
      /\ UNCHANGED plan /\ UNCHANGED wallet /\ UNCHANGED net
  BY DEF Inv, TypeInv, StopReconcile, Keep
<1>2. RunOK(d') /\ Tame(d, d')
  BY <1>1, MarkBroadcastedKeeps, Unchanged DEF StopReconcile
<1>3. CASE Return
  BY <1>1, <1>2, <1>3, ReturnStep
<1>4. CASE drv' = [drv EXCEPT !.todo = drv.todo \ {s}]
  <2>1. /\ drv' = [pc |-> drv'.pc, lap |-> drv'.lap, todo |-> drv'.todo, cur |-> drv'.cur,
                   proof |-> drv'.proof, tip |-> drv'.tip, late |-> drv'.late]
        /\ drv'.pc = "stop" /\ drv'.todo \subseteq Stages /\ drv'.proof = drv.proof
        /\ drv'.tip = drv.tip
    BY <1>1, <1>4 DEF AppOK
  <2>2. AppOK'
    BY <1>1, <2>1, StopType
  <2> QED BY <1>1, <1>2, <2>1, <2>2, AppStep
<1> QED BY <1>3, <1>4 DEF StopReconcile

LEMMA StopAbandonKeeps ==
  ASSUME Inv, StopAbandon
  PROVE  Inv'
<1>1. /\ RunOK(d) /\ Goto("discard")
      /\ UNCHANGED plan /\ UNCHANGED wallet /\ UNCHANGED net
  BY DEF Inv, TypeInv, StopAbandon, Keep
<1>2. PICK p \in Phases, c \in [Terminals -> Identities] :
        p = "abandoned" /\ c = [s \in Terminals |-> 0]
  BY RowMembers DEF Phases, Released
<1>3. d' = [d EXCEPT !.phase = p, !.child = c]
  BY <1>2 DEF StopAbandon
<1>4. d' \in RunSet /\ d'.stage = d.stage
  BY <1>1, <1>3 DEF RunOK, RunSet
<1>5. RunOK(d') /\ Tame(d, d')
  BY <1>1, <1>4, SameRows
<1> QED BY <1>1, <1>5, GotoStep DEF Working

LEMMA StopDiscardKeeps ==
  ASSUME Inv, StopDiscard
  PROVE  Inv'
BY DiscardKeeps, ReturnStep DEF Inv, TypeInv, StopDiscard, Keep

LEMMA CrashKeeps ==
  ASSUME Inv, Crash
  PROVE  Inv'
<1>1. /\ RunOK(d) /\ d' = d /\ drv' = Idle /\ plan' = [drv |-> NoPlan, sync |-> NoPlan]
      /\ UNCHANGED wallet /\ UNCHANGED net
  BY DEF Inv, TypeInv, Crash
<1>2. /\ drv' = [pc |-> drv'.pc, lap |-> drv'.lap, todo |-> drv'.todo, cur |-> drv'.cur,
                 proof |-> drv'.proof, tip |-> drv'.tip, late |-> drv'.late]
      /\ drv'.pc = "idle" /\ drv'.todo = {} /\ drv'.proof = NoProof /\ drv'.tip = 0
  BY <1>1, IdleType
<1>3. "idle" \notin Working /\ "idle" # "insert"
  BY DEF Working
<1>4. NoPlan.ids \in [Stages -> Identities]
  BY NoProofType DEF NoPlan
<1>5. AppOK'
  BY <1>1, <1>2, <1>3, <1>4, NoProofType DEF AppOK
<1> QED BY <1>1, <1>2, <1>5, Unchanged, AppStep

-----------------------------------------------------------------------------
(* The scans and the network *)

\* What a step of the world has to keep besides its own types.
LEMMA WorldType ==
  ASSUME Inv, WorldOK', d' = d, UNCHANGED <<drv, plan>>
  PROVE  TypeInv'
BY DEF Inv, TypeInv, AppOK, RunOK

LEMMA LearnTipKeeps ==
  ASSUME Inv, LearnTip
  PROVE  Inv'
<1>1. /\ d' = d /\ drv' = drv /\ plan' = plan /\ known' = tip /\ seen' = seen /\ view' = view
      /\ tip' = tip /\ chain' = chain /\ pool' = pool /\ wire' = wire /\ ids' = ids
  BY DEF LearnTip, app, net
<1>2. TypeInv'
  BY <1>1, WorldType DEF Inv, TypeInv, WorldOK, ChainOK
<1>3. KnownInv'
  BY <1>1 DEF Inv, KnownInv, Proofs, Sent, Fresh, Current
<1>4. \A s \in Stages : Live(s)' => Live(s)
  BY <1>1 DEF Live, Valid, Provable, PastExpiry
<1> QED BY <1>1, <1>2, <1>3, <1>4, WorldStep DEF Sent, Provable

LEMMA ScanKeeps ==
  ASSUME Inv, Scan
  PROVE  Inv'
<1>1. /\ d' = d /\ drv' = drv /\ plan' = plan /\ known' = tip /\ seen' = tip /\ view' = chain
      /\ tip' = tip /\ chain' = chain /\ pool' = pool /\ wire' = wire /\ ids' = ids
  BY DEF Scan, net
<1>2. TypeInv'
  BY <1>1, WorldType DEF Inv, TypeInv, WorldOK, ChainOK
<1>3. KnownInv'
  BY <1>1 DEF Inv, KnownInv, Proofs, Sent, Fresh, Current
<1>4. \A s \in Stages : Live(s)' => Live(s)
  BY <1>1 DEF Live, Valid, Provable, PastExpiry
<1> QED BY <1>1, <1>2, <1>3, <1>4, WorldStep DEF Sent, Provable

LEMMA MineChildKeeps ==
  ASSUME Inv, NEW s \in Terminals, MineChild(s)
  PROVE  Inv'
<1>1. /\ d' = d /\ drv' = drv /\ plan' = plan /\ known' = known /\ seen' = seen /\ view' = view
      /\ tip' = tip /\ chain' = chain /\ pool' = pool /\ wire' = wire /\ ids' = ids
  BY DEF MineChild, app, net
<1>2. TypeInv'
  BY <1>1, WorldType DEF Inv, TypeInv, WorldOK, ChainOK
<1>3. KnownInv'
  BY <1>1 DEF Inv, KnownInv, Proofs, Sent, Fresh, Current
<1>4. \A t \in Stages : Live(t)' => Live(t)
  BY <1>1 DEF Live, Valid, Provable, PastExpiry
<1> QED BY <1>1, <1>2, <1>3, <1>4, WorldStep DEF Sent, Provable

\* A step that takes messages away or lets time pass.
LEMMA FewerSent ==
  ASSUME Inv, UNCHANGED <<d, drv, plan, known, seen, view, chain, ids>>,
         Sent' \subseteq Sent, pool' \subseteq Message, wire' \subseteq Message,
         tip' \in Nat, tip <= tip'
  PROVE  Inv'
<1>1. TypeInv'
  BY WorldType DEF Inv, TypeInv, WorldOK, ChainOK
<1>2. KnownInv'
  <2>1. \A f \in Proofs' : f \in Proofs
    BY DEF Proofs
  <2> QED BY <2>1 DEF Inv, KnownInv, Fresh, Current
<1>3. \A x : Provable(x)' => Provable(x)
  BY DEF Provable
<1>4. ASSUME NEW s \in Stages, Live(s)'
      PROVE  Live(s)
  <2>1. CASE chain'[s].id # 0
    BY <2>1 DEF Live
  <2>2. CASE \E x \in Sent' : x.tx = s /\ Valid(x)'
    <3>1. PICK x \in Sent' : x.tx = s /\ Valid(x)'
      BY <2>2
    <3>2. PastExpiry(x.tx, tip) => PastExpiry(x.tx, tip')
      BY <3>1, StagesAssumption DEF PastExpiry, Inv, TypeInv, WorldOK
    <3>3. Valid(x)
      BY <1>3, <3>1, <3>2 DEF Valid
    <3> QED BY <3>1, <3>3 DEF Live, Sent
  <2> QED BY <1>4, <2>1, <2>2 DEF Live, Sent
<1> QED BY <1>1, <1>2, <1>3, <1>4, WorldStep

LEMMA DeliverKeeps ==
  ASSUME Inv, NEW x \in wire, Deliver(x)
  PROVE  Inv'
<1>1. /\ UNCHANGED <<d, drv, plan, known, seen, view, chain, ids>> /\ tip' = tip
      /\ wire' = wire \ {x} /\ pool' \subseteq pool \union {x}
  BY DEF Deliver, app, wallet
<1>2. pool \subseteq Message /\ wire \subseteq Message /\ tip \in Nat
  BY DEF Inv, TypeInv, WorldOK
<1> QED BY <1>1, <1>2, FewerSent DEF Sent

LEMMA LoseKeeps ==
  ASSUME Inv, NEW x \in wire, Lose(x)
  PROVE  Inv'
<1>1. /\ UNCHANGED <<d, drv, plan, known, seen, view, chain, ids>> /\ tip' = tip
      /\ wire' = wire \ {x} /\ pool' = pool
  BY DEF Lose, app, wallet
<1>2. pool \subseteq Message /\ wire \subseteq Message /\ tip \in Nat
  BY DEF Inv, TypeInv, WorldOK
<1> QED BY <1>1, <1>2, FewerSent DEF Sent

LEMMA BlockKeeps ==
  ASSUME Inv, Block
  PROVE  Inv'
<1>1. /\ UNCHANGED <<d, drv, plan, known, seen, view, chain, ids>> /\ tip' = tip + 1
      /\ wire' = wire /\ pool' \subseteq pool
  BY DEF Block, app, wallet
<1>2. pool \subseteq Message /\ wire \subseteq Message /\ tip \in Nat
  BY DEF Inv, TypeInv, WorldOK
<1>3. tip' \in Nat /\ tip <= tip'
  BY <1>1, <1>2
<1> QED BY <1>1, <1>2, <1>3, FewerSent DEF Sent

LEMMA ProofTypes ==
  ASSUME Inv
  PROVE  \A f \in Proofs, p \in Stages : f[p] \in Identities /\ f[p] <= ids
<1>1. \A f \in Proofs, p \in Stages : f[p] \in Identities
  BY RowSet DEF Inv, TypeInv, AppOK, RunOK, RowOK, RowsOf, WorldOK, Message, Proofs, Sent
<1>2. \A f \in Proofs, p \in Stages : f[p] <= ids
  BY DEF Inv, KnownInv, Fresh
<1> QED BY <1>1, <1>2

\* A block is new: no proof names its identity.
LEMMA MineKeeps ==
  ASSUME Inv, NEW x \in pool, Mine(x)
  PROVE  Inv'
<1>0. /\ UNCHANGED <<d, drv, plan, known, seen, view, tip, wire>>
      /\ ids' = ids + 1 /\ pool' = pool \ {x} /\ Valid(x) /\ ids < MaxId
      /\ chain' = [chain EXCEPT ![x.tx] = [id |-> ids + 1, deep |-> FALSE]]
  BY DEF Mine, app, wallet
<1>1. /\ WorldOK /\ x \in Message /\ x.tx \in Stages /\ x \in Sent
  BY DEF Inv, TypeInv, WorldOK, Message, Sent
<1>2. ids \in Nat /\ MaxId \in Nat /\ ids + 1 \in Identities /\ ids' \in Identities
  BY <1>0, <1>1, StagesAssumption DEF WorldOK, Identities
<1>3. PICK i \in Identities : i = ids + 1
  BY <1>2
<1>4. chain' = [chain EXCEPT ![x.tx] = [id |-> i, deep |-> FALSE]]
  BY <1>0, <1>3
<1>5. /\ chain'[x.tx].id = i /\ ~chain'[x.tx].deep
      /\ \A p \in Stages : p # x.tx => chain'[p] = chain[p]
  BY <1>1, <1>4 DEF WorldOK, ChainOK
<1>6. ChainOK(chain')
  <2>1. [id |-> i, deep |-> FALSE] \in Inclusion
    BY <1>3 DEF Inclusion
  <2>2. chain' \in [Stages -> Inclusion]
    BY <1>1, <1>4, <2>1 DEF WorldOK, ChainOK
  <2> QED BY <1>1, <1>5, <2>2 DEF WorldOK, ChainOK
<1>7. WorldOK'
  BY <1>0, <1>1, <1>2, <1>6 DEF WorldOK, ChainOK
<1>8. TypeInv'
  BY <1>0, <1>7, WorldType
<1>9. \A f \in Proofs, p \in Stages : f[p] # i
  BY <1>2, <1>3, ProofTypes, StagesAssumption DEF Identities
<1>10. KnownInv'
  <2>1. \A f \in Proofs' : f \in Proofs
    BY <1>0 DEF Proofs, Sent
  <2>2. \A p \in Stages : chain'[p].id <= ids' /\ view'[p].id <= ids'
    <3> SUFFICES ASSUME NEW p \in Stages
                 PROVE  chain'[p].id <= ids' /\ view'[p].id <= ids'
      OBVIOUS
    <3>1. chain[p].id \in Identities /\ view[p].id \in Identities
      BY <1>1 DEF WorldOK, ChainOK, Inclusion
    <3>2. chain[p].id <= ids /\ view[p].id <= ids
      BY DEF Inv, KnownInv
    <3>3. chain'[p].id \in {chain[p].id, i} /\ view'[p].id = view[p].id
      BY <1>0, <1>5
    <3> QED BY <1>0, <1>2, <1>3, <3>1, <3>2, <3>3, StagesAssumption DEF Identities
  <2>3. ASSUME NEW f \in Proofs
        PROVE  Fresh(f)' /\ Current(f)'
    <3>1. Fresh(f)'
      <4> SUFFICES ASSUME NEW p \in Stages
                   PROVE  f[p] <= ids'
        BY DEF Fresh
      <4>1. f[p] \in Identities /\ f[p] <= ids
        BY ProofTypes
      <4> QED BY <1>0, <1>2, <4>1, StagesAssumption DEF Identities
    <3>2. Current(f)'
      BY <1>0, <1>5, <1>9 DEF Inv, KnownInv, Current
    <3> QED BY <3>1, <3>2
  <2> QED BY <2>1, <2>2, <2>3 DEF KnownInv
<1>11. ASSUME NEW y \in Sent, Provable(y)'
       PROVE  Provable(y)
  <2> SUFFICES ASSUME NEW p \in Parents[y.tx]
               PROVE  chain[p].id # 0 /\ chain[p].id = y.proof[p]
    BY DEF Provable
  <2>1. chain'[p].id # 0 /\ chain'[p].id = y.proof[p]
    BY <1>11 DEF Provable
  <2>2. y.tx \in Stages /\ y.proof \in Proofs
    BY DEF Inv, TypeInv, WorldOK, Message, Proofs, Sent
  <2>3. p \in Stages
    BY <2>2, StagesAssumption
  <2> QED BY <1>5, <1>9, <2>1, <2>2, <2>3
<1>12. ASSUME NEW s \in Stages, Live(s)'
       PROVE  Live(s)
  <2>1. CASE s = x.tx
    BY <1>0, <2>1 DEF Live
  <2>2. CASE s # x.tx /\ chain'[s].id # 0
    BY <1>5, <2>2 DEF Live
  <2>3. CASE \E y \in Sent' : y.tx = s /\ Valid(y)'
    <3>1. PICK y \in Sent' : y.tx = s /\ Valid(y)'
      BY <2>3
    <3>2. y \in Sent /\ Valid(y)
      BY <1>0, <1>11, <3>1 DEF Sent, Valid, PastExpiry
    <3> QED BY <3>1, <3>2 DEF Live, Sent
  <2> QED BY <1>12, <2>1, <2>2, <2>3 DEF Live, Sent
<1> QED BY <1>0, <1>8, <1>10, <1>11, <1>12, WorldStep DEF Sent

LEMMA DeepenKeeps ==
  ASSUME Inv, NEW s \in Stages, Deepen(s)
  PROVE  Inv'
<1>0. /\ UNCHANGED <<d, drv, plan, known, seen, view, tip, pool, wire, ids>>
      /\ chain[s].id # 0 /\ chain' = [chain EXCEPT ![s].deep = TRUE]
  BY DEF Deepen, app, wallet
<1>1. WorldOK
  BY DEF Inv, TypeInv
<1>2. \A p \in Stages : chain'[p].id = chain[p].id
  BY <1>0, <1>1 DEF WorldOK, ChainOK, Inclusion
<1>3. ChainOK(chain')
  <2>1. chain' \in [Stages -> Inclusion]
    BY <1>0, <1>1 DEF WorldOK, ChainOK, Inclusion
  <2>2. \A p \in Stages : p # s => chain'[p] = chain[p]
    BY <1>0, <1>1 DEF WorldOK, ChainOK
  <2> QED BY <1>0, <1>1, <1>2, <2>1, <2>2 DEF WorldOK, ChainOK
<1>4. WorldOK'
  BY <1>0, <1>1, <1>3 DEF WorldOK, ChainOK
<1>5. TypeInv'
  BY <1>0, <1>4, WorldType
<1>6. KnownInv'
  BY <1>0, <1>2 DEF Inv, KnownInv, Proofs, Sent, Fresh, Current
<1>7. ASSUME NEW x \in Sent
      PROVE  Provable(x)' <=> Provable(x)
  <2>1. Parents[x.tx] \subseteq Stages
    BY <1>1, StagesAssumption DEF WorldOK, Message, Sent
  <2> QED BY <1>2, <2>1 DEF Provable
<1>8. \A t \in Stages : Live(t)' => Live(t)
  BY <1>0, <1>2, <1>7 DEF Live, Valid, PastExpiry, Sent
<1> QED BY <1>0, <1>5, <1>6, <1>7, <1>8, WorldStep DEF Sent

\* What leaves the chain was live, and what returns to the pool needs no proof.
LEMMA ReorgKeeps ==
  ASSUME Inv, NEW s \in Stages, Reorg(s)
  PROVE  Inv'
<1> DEFINE gone == {t \in Stages : chain[t].id # 0 /\ (t = s \/ s \in Parents[t])}
<1>0. /\ UNCHANGED <<d, drv, plan, known, seen, view, tip, wire, ids>>
      /\ chain' = [t \in Stages |-> IF t \in gone THEN Out ELSE chain[t]]
  BY DEF Reorg, app, wallet
<1>1. WorldOK
  BY DEF Inv, TypeInv
<1>2. PICK R \in SUBSET {t \in gone : Parents[t] = {}} :
        pool' = pool \union {[tx |-> t, proof |-> NoProof] : t \in R}
  BY DEF Reorg
<1>3. \A t \in R : t \in Stages /\ chain[t].id # 0 /\ Parents[t] = {}
  BY <1>2
<1>4. Out \in Inclusion /\ Out.id = 0 /\ ~Out.deep
  BY RowMembers DEF Out, Inclusion
<1>5. ChainOK(chain') /\ \A p \in Stages : chain'[p].id \in {0, chain[p].id}
  BY <1>0, <1>1, <1>4 DEF WorldOK, ChainOK
<1> HIDE DEF gone
<1>6. \A x \in Sent' : x \in Sent \/ \E t \in R : x.tx = t /\ x.proof = NoProof
  BY <1>0, <1>2 DEF Sent
<1>7. pool' \subseteq Message
  BY <1>1, <1>2, <1>3, NoProofType DEF WorldOK, Message
<1>8. WorldOK'
  BY <1>0, <1>1, <1>5, <1>7 DEF WorldOK, ChainOK
<1>9. TypeInv'
  BY <1>0, <1>8, WorldType
<1>10. KnownInv'
  <2>1. \A f \in Proofs' : f \in Proofs \/ f = NoProof
    BY <1>0, <1>6 DEF Proofs
  <2>2. \A f \in Proofs' : Fresh(f) /\ Current(f)
    BY <2>1, NoProofKnown DEF Inv, KnownInv
  <2>3. \A f \in Proofs' : Fresh(f)' /\ Current(f)'
    BY <1>0, <1>5, <2>2 DEF Fresh, Current
  <2>4. ids \in Nat
    BY <1>1, StagesAssumption DEF WorldOK, Identities
  <2>5. \A p \in Stages : chain'[p].id <= ids' /\ view'[p].id <= ids'
    BY <1>0, <1>5, <2>4 DEF Inv, KnownInv
  <2> QED BY <2>3, <2>5 DEF KnownInv
<1>11. ASSUME NEW x \in Sent, Provable(x)'
       PROVE  Provable(x)
  <2>1. Parents[x.tx] \subseteq Stages
    BY <1>1, StagesAssumption DEF WorldOK, Message, Sent
  <2> QED BY <1>5, <1>11, <2>1 DEF Provable
<1>12. ASSUME NEW t \in Stages, Live(t)'
       PROVE  Live(t)
  <2>1. CASE chain'[t].id # 0
    BY <1>5, <2>1 DEF Live
  <2>2. CASE \E x \in Sent' : x.tx = t /\ Valid(x)'
    <3>1. PICK x \in Sent' : x.tx = t /\ Valid(x)'
      BY <2>2
    <3>2. CASE x \in Sent
      <4>1. Valid(x)
        BY <1>0, <1>11, <3>1, <3>2 DEF Valid, PastExpiry
      <4> QED BY <3>1, <3>2, <4>1 DEF Live, Sent
    <3>3. CASE x \notin Sent
      BY <1>3, <1>6, <3>1, <3>3 DEF Live
    <3> QED BY <3>2, <3>3
  <2> QED BY <1>12, <2>1, <2>2 DEF Live, Sent
<1>13. \A x \in Sent' : x \in Sent \/ Parents[x.tx] = {}
  BY <1>3, <1>6
<1> QED BY <1>0, <1>9, <1>10, <1>11, <1>12, <1>13, WorldStep

-----------------------------------------------------------------------------
(* The invariant and the theorems *)

LEMMA InitInv == Init => Inv
<1> SUFFICES ASSUME Init
             PROVE  Inv
  OBVIOUS
<1>1. /\ d = [stage |-> [s \in Stages |-> InsertStage(s)], phase |-> "waiting_denom_confirmations",
              nf |-> {}, child |-> [s \in Terminals |-> 0]]
      /\ drv = Idle /\ plan = [drv |-> NoPlan, sync |-> NoPlan]
      /\ known = 0 /\ seen = 0 /\ view = [s \in Stages |-> Out]
      /\ tip = 0 /\ chain = [s \in Stages |-> Out] /\ pool = {} /\ wire = {} /\ ids = 0
  BY DEF Init
<1>2. RunOK(d)
  <2>1. PICK p \in Phases : p = "waiting_denom_confirmations"
    BY DEF Phases
  <2>2. PICK c \in [Terminals -> Identities] : c = [s \in Terminals |-> 0]
    BY RowMembers
  <2>3. PICK G \in [Stages -> Rows] : G = [s \in Stages |-> InsertStage(s)]
    BY NewStage DEF RowOK
  <2>4. d = [stage |-> G, phase |-> p, nf |-> {}, child |-> c]
    BY <1>1, <2>1, <2>2, <2>3
  <2>5. d \in RunSet /\ d.stage = G
    BY <2>4 DEF RunSet
  <2> QED BY <2>3, <2>5, NewStage DEF RunOK, RunSet
<1>3. \A s \in Stages : d.stage[s].proof = NoProof
  BY <1>1, NewStage
<1>4. AppOK
  <2>1. "idle" \notin Working /\ "idle" # "insert"
    BY DEF Working
  <2>2. NoPlan.ids \in [Stages -> Identities]
    BY NoProofType DEF NoPlan
  <2> QED BY <1>1, <2>1, <2>2, IdleType, NoProofType DEF AppOK
<1>5. WorldOK
  <2>1. Out \in Inclusion /\ Out.id = 0 /\ ~Out.deep
    BY RowMembers DEF Out, Inclusion
  <2> QED BY <1>1, <2>1, RowMembers DEF WorldOK, ChainOK
<1>6. TypeInv
  BY <1>2, <1>4, <1>5 DEF TypeInv
<1>7. KnownInv
  <2>1. \A f \in Proofs : f = NoProof
    BY <1>1, <1>3, IdleType DEF Proofs, Sent
  <2>2. \A s \in Stages : chain[s].id = 0 /\ view[s].id = 0
    BY <1>1 DEF Out
  <2> QED BY <1>1, <1>6, <2>1, <2>2, NoProofKnown DEF KnownInv
<1>8. Agree
  BY <1>1, IdleType DEF Agree, Carried, Sent
<1>9. Marked
  <2>1. \A s \in Stages : chain[s].id = 0
    BY <1>1 DEF Out
  <2> QED BY <1>1, <2>1, IdleType DEF Marked, Live
<1> QED BY <1>6, <1>7, <1>8, <1>9 DEF Inv

LEMMA StutterKeeps ==
  ASSUME Inv, UNCHANGED vars
  PROVE  Inv'
<1>1. UNCHANGED <<d, drv, plan, known, seen, view, tip, chain, pool, wire, ids>>
  BY DEF vars, app, wallet, net
<1> QED BY <1>1 DEF Inv, TypeInv, RunOK, AppOK, WorldOK, ChainOK, KnownInv, Agree, Carried, Marked,
          Known, Live, Valid, Provable, PastExpiry, Sent, Proofs, Fresh, Current, SameRowProof,
          SameDrvProof, SameProof

LEMMA NextInv == Inv /\ [Next]_vars => Inv'
<1> SUFFICES ASSUME Inv, [Next]_vars
             PROVE  Inv'
  OBVIOUS
<1>1. CASE Driver
  <2>1. CASE \E s \in Stages : Attempt(s) \/ Prove(s)
    BY <2>1, AttemptKeeps, ProveKeeps
  <2>2. CASE \E s \in Terminals : ProveChild(s)
    BY <2>2, ProveChildKeeps
  <2> QED BY <1>1, <2>1, <2>2, BeginKeeps, DrvReconcileKeeps, RecoverStepKeeps, RetireExpiredKeeps,
             SelectDueKeeps, SendKeeps, AnswerKeeps, StoreSentKeeps, MarkSentKeeps, PromoteKeeps,
             FinalizeDoneKeeps, ReadyCheckKeeps, DrvConfirmKeeps, InsertChildKeeps, ChildrenDoneKeeps
          DEF Driver
<1>2. CASE Stop
  BY <1>2, StopBeginKeeps, StopReconcileKeeps, StopAbandonKeeps, StopDiscardKeeps DEF Stop
<1>3. CASE SyncStep
  BY <1>3, SyncStepKeeps
<1>4. CASE Crash
  BY <1>4, CrashKeeps
<1>5. CASE LearnTip
  BY <1>5, LearnTipKeeps
<1>6. CASE Scan
  BY <1>6, ScanKeeps
<1>7. CASE \E s \in Terminals : MineChild(s)
  BY <1>7, MineChildKeeps
<1>8. CASE Network
  BY <1>8, DeliverKeeps, LoseKeeps, BlockKeeps, MineKeeps, DeepenKeeps, ReorgKeeps DEF Network
<1>9. CASE UNCHANGED vars
  BY <1>9, StutterKeeps
<1> QED BY <1>1, <1>2, <1>3, <1>4, <1>5, <1>6, <1>7, <1>8, <1>9 DEF Next

THEOREM StagesInvariant == Spec => []Inv
BY InitInv, NextInv, PTL DEF Spec

\* The rows keep their types, and no update of a reconciler or of the driver would fail a CHECK
\* constraint of stages.rs, whatever the graph of the stages and the interleaving.
THEOREM TypesAreKept == Spec => []TypeOK
<1>1. Inv => TypeOK
  BY RowSet DEF Inv, TypeInv, RunOK, RowOK, RowsOf, TypeOK, Phases, Identities
<1> QED BY <1>1, StagesInvariant, PTL

\* A stage whose transaction a node may still mine is marked as attempted, or known to be sent:
\* mark_denomination_broadcast_attempted before the submission, and a rejection that clears the
\* marker only when every submission of the stage is void.
THEOREM AttemptsAreRecorded == Spec => []AttemptRecorded
<1>1. Inv => AttemptRecorded
  BY DEF Inv, Marked, Known, AttemptRecorded
<1> QED BY <1>1, StagesInvariant, PTL

=============================================================================
