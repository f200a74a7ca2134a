---------------------------- MODULE RunLocksProofs ----------------------------
(***************************************************************************)
(* Proof that the wallet locks follow the rows of the migration runs,      *)
(* whoever crosses whom.  SettledInv is the heart: for a run that no       *)
(* failure has left unsure and no sync pass has still to visit, the locks  *)
(* say what the row says, or one of the two callers will still see to it,  *)
(* because it has yet to read the row, to find that what it applied is no  *)
(* longer what the row asks, or to apply a snapshot that covers the row's  *)
(* candidates.  It needs to know what a snapshot may lack (SnapshotInv),   *)
(* that a run's locks are on its candidates (LocksWithin), and for         *)
(* ordinary sends what the wallet can see (SeenInv) and what a failure     *)
(* that will be recovered reserves (FailureInv).                           *)
(*                                                                         *)
(* The inputs of discarded preparation stages are the exception: a pass    *)
(* that read the row before the discard may take their locks again after   *)
(* it.  The invariant says exactly how much that may leave behind.         *)
(***************************************************************************)
EXTENDS RunLocks, FiniteSetTheorems, TLAPS

Steps == {"idle", "insert", "snapshot", "apply", "recheck", "undo", "delete", "discard"}
RunRow == [phase : Phases, cands : SUBSET Notes, dup : BOOLEAN]
Caller == [st : Steps, run : RunIds \union {0}, release : BOOLEAN, cands : SUBSET Notes,
           n : 0..MaxPasses, made : SUBSET Notes, then : {"", "discard"}]

TypeInv ==
  /\ run \in [RunIds -> RunRow]
  /\ lock \in [Notes -> {0, Other} \union RunIds]
  /\ seen \subseteq Notes /\ ready \in BOOLEAN
  /\ proc \in [Procs -> Caller]
  /\ todo \subseteq RunIds /\ unsure \subseteq RunIds \union {0}
  /\ \A p \in Procs : /\ proc[p].run = 0 <=> proc[p].st \in {"idle", "insert"}
                      /\ proc[p].st = "snapshot" => proc[p].n < MaxPasses

\* What a caller is at work on has a row, or had one; a run without a row has no locks.
Started ==
  /\ \A p \in Procs : proc[p].run # 0 => run[proc[p].run].phase # "none"
  /\ \A p \in Procs : proc[p].run # 0 /\ proc[p].then = "discard"
                      => run[proc[p].run].phase \in {"abandoned", "deleted"}
  /\ \A p \in Procs : proc[p].st = "discard" => proc[p].then = "discard"
  /\ \A r \in todo : run[r].phase # "none"
  /\ \A r \in RunIds : run[r].phase = "none" => run[r].cands = {}

\* The snapshot of a caller that is about to act on it, or has done so.
Acting(p) == proc[p].st \in {"apply", "recheck"}

DraftInv ==
  \A r \in RunIds : run[r].phase \in Draft =>
    /\ run[r].cands = {}
    /\ \A p \in Procs : Acting(p) /\ proc[p].run = r => ~proc[p].release

\* A snapshot has the candidates of the row, unless it was taken of a draft or before the
\* stages of an abandoned run were discarded.
SnapshotOf(p, r) ==
  \/ proc[p].cands = run[r].cands
  \/ proc[p].cands = {} /\ ~proc[p].release
  \/ /\ run[r].phase = "abandoned"
     /\ run[r].cands \subseteq proc[p].cands
     /\ proc[p].cands \subseteq run[r].cands \union StageNotes

SnapshotInv ==
  \A p \in Procs, r \in RunIds : Acting(p) /\ proc[p].run = r /\ Exists(r) => SnapshotOf(p, r)

\* A run's locks are on its candidates.
LocksWithin ==
  \A r \in RunIds : run[r].phase # "deleted" =>
    \A x \in Notes : lock[x] = r => x \in run[r].cands \union StageNotes
                                /\ run[r].phase # "none"

\* The locks say what the row says, the inputs of discarded stages aside.
Follows(r) ==
  IF Releases(run[r].phase) THEN \A x \in Notes \ StageNotes : lock[x] # r
  ELSE \A x \in run[r].cands \intersect seen : lock[x] = r

\* Caller p will still see to the locks of r.
WillSettle(p, r) ==
  /\ proc[p].run = r
  /\ \/ proc[p].st = "snapshot"
     \/ Acting(p) /\ ~(proc[p].release <=> Releases(run[r].phase))
     \/ proc[p].st = "apply" /\ run[r].cands \subseteq proc[p].cands

SettledInv ==
  \A r \in RunIds : Exists(r) /\ r \notin todo \union unsure =>
    Follows(r) \/ \E p \in Procs : WillSettle(p, r)

\* A failure that the next sync will undo keeps sends away from everything.
FailureInv ==
  \A d \in RunIds :
    run[d].phase = "failed_terminal" /\ run[d].dup /\ (\A q \in RunIds : q > d => run[q].phase = "none")
      => \A x \in Notes : lock[x] # Other

\* Only the inputs of stages leave the wallet's sight, unless the account is deleted.
SeenInv ==
  \/ Notes \ StageNotes \subseteq seen
  \/ seen = {} /\ \A r \in RunIds : Exists(r) => run[r].cands = {}

Shape == Started /\ DraftInv /\ SnapshotInv /\ LocksWithin
IInv == TypeInv /\ Shape /\ SettledInv /\ FailureInv /\ SeenInv

-----------------------------------------------------------------------------
(* The steps, by what they may change                                      *)

\* Caller p goes on with its run, or is done with it.
ProcStep(p) ==
  /\ proc' \in [Procs -> Caller] /\ \A c \in Procs \ {p} : proc'[c] = proc[c]
  /\ proc'[p].run \in {0, proc[p].run}
  /\ proc'[p].run = 0 <=> proc'[p].st \in {"idle", "insert"}
  /\ proc'[p].st = "snapshot" => proc'[p].n < MaxPasses
  /\ proc'[p].run # 0 => proc'[p].then = proc[p].then
  /\ proc'[p].st = "discard" => proc'[p].then = "discard"

\* It takes a step of its reconciliation, or of what follows it: it may free and take notes
\* for its run, and no other run notices.
CallerStep(p) ==
  /\ UNCHANGED <<run, seen>>
  /\ ready' \in BOOLEAN
  /\ ProcStep(p)
  /\ proc'[p].st \in {"apply", "recheck"} =>
       \/ Acting(p) /\ proc'[p].cands = proc[p].cands /\ proc'[p].release = proc[p].release
       \/ /\ proc'[p].cands = run[proc[p].run].cands
          /\ proc'[p].release = Releases(run[proc[p].run].phase)
  /\ lock' \in [Notes -> {0, Other} \union RunIds]
  /\ \A x \in Notes : lock'[x] = lock[x] \/ (lock[x] \in {0, proc[p].run} /\ lock'[x] \in {0, proc[p].run})
  /\ \A x \in Notes : lock'[x] = proc[p].run /\ lock[x] # lock'[x] => Acting(p) /\ x \in proc[p].cands
  /\ todo' \subseteq todo /\ unsure' \subseteq RunIds \union {0}
  /\ (todo \union unsure) \ {proc[p].run} \subseteq todo' \union unsure'

\* What a step of caller p has to show of its own run.
SettledBy(p) ==
  \A r \in RunIds : r = proc[p].run /\ Exists(r) /\ r \notin todo' \union unsure' =>
    Follows(r)' \/ \E c \in Procs : WillSettle(c, r)'

\* The driver writes the row of r and starts to reconcile it.
RowStep(r) ==
  /\ run' \in [RunIds -> RunRow] /\ \A q \in RunIds \ {r} : run'[q] = run[q]
  /\ run'[r].phase \notin {"none", "deleted"} /\ ~run'[r].dup
  /\ UNCHANGED <<lock, seen, ready, todo, unsure>>
  /\ proc["driver"].run = 0
  /\ proc' \in [Procs -> Caller] /\ \A c \in Procs \ {"driver"} : proc'[c] = proc[c]
  /\ proc'["driver"].run = r /\ proc'["driver"].st = "snapshot" /\ proc'["driver"].n = 0
  /\ proc'["driver"].then = "discard" => run'[r].phase = "abandoned"
  /\ \/ /\ run[r].phase \in Draft \union {"none"}
        /\ run'[r].phase \notin Draft \union Terminal
        /\ run'[r].cands \subseteq seen
     \/ /\ run[r].phase \notin {"none", "deleted"}
        /\ run'[r].phase \in Terminal
        /\ run'[r].cands = run[r].cands
        /\ run[r].phase = "abandoned" => run'[r].phase = "abandoned"

-----------------------------------------------------------------------------
\* Nobody, an ordinary send and the runs are different owners.
LEMMA OwnersDiffer == Other \in Nat /\ Other # 0 /\ Other \notin RunIds /\ RunIds \subseteq Nat \ {0}
BY RunLocksAssumption, FS_CardinalityType DEF Other

LEMMA NoPass == 0 \in 0..MaxPasses
BY RunLocksAssumption

LEMMA InitInv ==
    ASSUME Init
    PROVE  IInv
<1>1. PICK C \in SUBSET Notes :
        run \in [RunIds -> {NoRun} \union {[phase |-> "failed_terminal", cands |-> C, dup |-> TRUE]}]
  BY DEF Init
<1>2. \A r \in RunIds : /\ run[r].phase \in {"none", "failed_terminal"} /\ run[r].cands \subseteq Notes
                        /\ run[r].phase = "none" => run[r].cands = {}
  <2> TAKE r \in RunIds
  <2>1. run[r] = NoRun \/ run[r] = [phase |-> "failed_terminal", cands |-> C, dup |-> TRUE]
    BY <1>1
  <2> QED
    BY <2>1 DEF NoRun
<1>3. run \in [RunIds -> RunRow]
  <2>1. \A r \in RunIds : run[r] = NoRun \/ run[r] = [phase |-> "failed_terminal", cands |-> C, dup |-> TRUE]
    BY <1>1
  <2>2. NoRun \in RunRow /\ [phase |-> "failed_terminal", cands |-> C, dup |-> TRUE] \in RunRow
    BY DEF RunRow, Phases, Terminal, NoRun
  <2> QED
    BY <1>1, <2>1, <2>2
<1>4. /\ proc = [p \in Procs |-> Idle] /\ todo = {} /\ unsure = {} /\ seen = Notes
      /\ lock = [x \in Notes |-> 0] /\ ready \in BOOLEAN
  BY DEF Init
<1>5. \A p \in Procs : proc[p].st = "idle" /\ proc[p].run = 0 /\ proc[p].then = ""
  BY <1>4 DEF Idle
<1>6. proc \in [Procs -> Caller]
  <2>1. 0 \in 0..MaxPasses
    BY RunLocksAssumption
  <2>2. Idle \in Caller
    BY <2>1 DEF Idle, Caller, Steps
  <2> QED
    BY <1>4, <2>2
<1>7. TypeInv
  BY <1>3, <1>4, <1>5, <1>6 DEF TypeInv
<1>8. Started
  BY <1>2, <1>4, <1>5 DEF Started
<1>9. DraftInv /\ SnapshotInv
  BY <1>2, <1>5 DEF DraftInv, SnapshotInv, Acting, Draft
<1>10. LocksWithin
  BY <1>4, OwnersDiffer DEF LocksWithin
<1>11. SettledInv
  BY <1>2, <1>4, OwnersDiffer DEF SettledInv, Exists, Follows, Releases, Terminal
<1>12. FailureInv /\ SeenInv
  BY <1>4, OwnersDiffer DEF FailureInv, SeenInv
<1> QED
  BY <1>7, <1>8, <1>9, <1>10, <1>11, <1>12 DEF IInv, Shape

\* A caller's step keeps everything, if it leaves its own run settled.
LEMMA CallerKeeps ==
    ASSUME IInv, NEW p \in Procs, CallerStep(p), SettledBy(p)
    PROVE  IInv'
<1> USE OwnersDiffer
<1>1. TypeInv'
  <2>1. proc[p].run \in RunIds \union {0}
    BY DEF IInv, TypeInv, Caller
  <2> QED
    BY <2>1 DEF IInv, TypeInv, CallerStep, ProcStep
<1>2. Started'
  BY DEF IInv, Shape, Started, CallerStep, ProcStep
<1>3. DraftInv'
  <2> SUFFICES ASSUME NEW r \in RunIds, run[r].phase \in Draft
               PROVE  /\ run[r].cands = {}
                      /\ \A c \in Procs : proc'[c].st \in {"apply", "recheck"} /\ proc'[c].run = r
                                            => ~proc'[c].release
    BY DEF DraftInv, CallerStep, ProcStep, Acting
  <2>1. ~Releases(run[r].phase)
    BY DEF Releases, Draft, Terminal
  <2> QED
    BY <2>1 DEF IInv, Shape, DraftInv, CallerStep, ProcStep, Acting
<1>4. SnapshotInv'
  <2> SUFFICES ASSUME NEW c \in Procs, NEW r \in RunIds,
                      proc'[c].st \in {"apply", "recheck"}, proc'[c].run = r, Exists(r)
               PROVE  SnapshotOf(c, r)'
    BY DEF SnapshotInv, CallerStep, ProcStep, Acting, Exists
  <2>1. CASE c # p
    BY <2>1 DEF IInv, Shape, SnapshotInv, SnapshotOf, CallerStep, ProcStep, Acting
  <2>2. CASE c = p
    <3>1. proc[p].run = r /\ run' = run
      BY <2>2 DEF CallerStep, ProcStep
    <3>2. CASE Acting(p) /\ proc'[p].cands = proc[p].cands /\ proc'[p].release = proc[p].release
      BY <2>2, <3>1, <3>2 DEF IInv, Shape, SnapshotInv, SnapshotOf
    <3>3. CASE proc'[p].cands = run[r].cands
      BY <2>2, <3>1, <3>3 DEF SnapshotOf
    <3> QED
      BY <2>2, <3>1, <3>2, <3>3 DEF CallerStep, ProcStep
  <2> QED
    BY <2>1, <2>2
<1>5. LocksWithin'
  <2> SUFFICES ASSUME NEW r \in RunIds, run[r].phase # "deleted", NEW x \in Notes, lock'[x] = r
               PROVE  x \in run[r].cands \union StageNotes /\ run[r].phase # "none"
    BY DEF LocksWithin, CallerStep, ProcStep
  <2>1. CASE lock[x] = r
    BY <2>1 DEF IInv, Shape, LocksWithin
  <2>2. CASE lock[x] # r
    <3>1. r = proc[p].run /\ Acting(p) /\ x \in proc[p].cands
      BY <2>2 DEF CallerStep, ProcStep
    <3>2. run[r].phase # "none"
      BY <3>1 DEF IInv, Shape, Started
    <3>3. SnapshotOf(p, r)
      BY <3>1, <3>2 DEF IInv, Shape, SnapshotInv, Exists
    <3> QED
      BY <3>1, <3>2, <3>3 DEF SnapshotOf
  <2> QED
    BY <2>1, <2>2
<1>6. SettledInv'
  <2> SUFFICES ASSUME NEW r \in RunIds, Exists(r), r \notin todo' \union unsure'
               PROVE  Follows(r)' \/ \E c \in Procs : WillSettle(c, r)'
    BY DEF SettledInv, CallerStep, ProcStep, Exists
  <2>1. CASE r = proc[p].run
    BY <2>1 DEF SettledBy
  <2>2. CASE r # proc[p].run
    <3>1. Follows(r) \/ \E c \in Procs : WillSettle(c, r)
      BY <2>2 DEF IInv, SettledInv, CallerStep, ProcStep
    <3>2. \A x \in Notes : lock'[x] = r <=> lock[x] = r
      BY <2>2 DEF CallerStep, ProcStep
    <3>3. CASE Follows(r)
      BY <3>2, <3>3 DEF Follows, CallerStep, ProcStep, IInv, TypeInv
    <3>4. ASSUME NEW c \in Procs, WillSettle(c, r)
          PROVE  WillSettle(c, r)'
      <4>1. c # p
        BY <2>2, <3>4 DEF WillSettle
      <4> QED
        BY <3>4, <4>1 DEF WillSettle, Acting, CallerStep, ProcStep
    <3> QED
      BY <3>1, <3>3, <3>4
  <2> QED
    BY <2>1, <2>2
<1>7. FailureInv'
  <2>1. \A x \in Notes : lock'[x] = Other => lock[x] = Other
    <3>1. proc[p].run \in RunIds \union {0}
      BY DEF IInv, TypeInv, Caller
    <3> QED
      BY <3>1 DEF CallerStep, ProcStep
  <2> QED
    BY <2>1 DEF IInv, FailureInv, CallerStep, ProcStep
<1>8. SeenInv'
  BY DEF IInv, SeenInv, CallerStep, ProcStep, Exists
<1> QED
  BY <1>1, <1>2, <1>3, <1>4, <1>5, <1>6, <1>7, <1>8 DEF IInv, Shape

\* Writing a row keeps everything: the driver is at work on it.
LEMMA RowKeeps ==
    ASSUME IInv, NEW r \in RunIds, RowStep(r)
    PROVE  IInv'
<1> USE OwnersDiffer, RunLocksAssumption
<1>1. TypeInv'
  BY DEF IInv, TypeInv, RowStep, Procs
<1>2. Started'
  <2>1. \A q \in RunIds : run[q].phase # "none" => run'[q].phase # "none"
    BY DEF RowStep
  <2>2. \A q \in RunIds : run[q].phase \in {"abandoned", "deleted"}
                           => run'[q].phase \in {"abandoned", "deleted"}
    BY DEF RowStep, Draft
  <2>3. \A p \in Procs : proc[p].run \in RunIds \union {0}
    BY DEF IInv, TypeInv, Caller
  <2>4. /\ run'[r].phase \notin {"none", "deleted"} /\ proc'["driver"].run = r
        /\ proc'["driver"].then = "discard" => run'[r].phase = "abandoned"
        /\ proc'["sync"] = proc["sync"] /\ proc'["driver"].st = "snapshot"
        /\ UNCHANGED todo
        /\ \A q \in RunIds \ {r} : run'[q] = run[q]
    BY DEF RowStep, Procs
  <2> QED
    BY <2>1, <2>2, <2>3, <2>4 DEF IInv, Shape, Started, Procs, TypeInv
<1>3. DraftInv'
  <2> SUFFICES ASSUME NEW q \in RunIds, run'[q].phase \in Draft
               PROVE  /\ run'[q].cands = {}
                      /\ \A c \in Procs : proc'[c].st \in {"apply", "recheck"} /\ proc'[c].run = q
                                            => ~proc'[c].release
    BY DEF DraftInv, Acting
  <2>1. q # r
    BY DEF RowStep, Draft, Terminal
  <2> QED
    BY <2>1 DEF IInv, Shape, DraftInv, RowStep, Acting, Procs
<1>4. SnapshotInv'
  <2> SUFFICES ASSUME NEW c \in Procs, NEW q \in RunIds,
                      proc'[c].st \in {"apply", "recheck"}, proc'[c].run = q, Exists(q)'
               PROVE  SnapshotOf(c, q)'
    BY DEF SnapshotInv, Acting
  <2>1. c = "sync" /\ proc'[c] = proc[c] /\ Acting(c) /\ proc[c].run = q
    BY DEF RowStep, Procs, Acting
  <2>2. run[q].phase # "none"
    BY <2>1 DEF IInv, Shape, Started
  <2>3. CASE q # r
    BY <2>1, <2>3 DEF IInv, Shape, SnapshotInv, SnapshotOf, RowStep, Exists
  <2>4. CASE q = r
    <3>1. Exists(r) /\ SnapshotOf(c, r)
      BY <2>1, <2>2, <2>4 DEF IInv, Shape, SnapshotInv, RowStep, Exists, Draft
    <3>2. CASE run[r].phase \in Draft
      <4>1. ~proc[c].release /\ run[r].cands = {}
        BY <2>1, <2>4, <3>2 DEF IInv, Shape, DraftInv
      <4>2. proc[c].cands = {}
        BY <3>1, <3>2, <4>1 DEF SnapshotOf, Draft
      <4> QED
        BY <2>1, <2>4, <4>1, <4>2 DEF SnapshotOf
    <3>3. CASE run[r].phase \notin Draft
      <4>1. run'[r].cands = run[r].cands /\ (run[r].phase = "abandoned" => run'[r].phase = "abandoned")
        BY <2>2, <2>4, <3>3 DEF RowStep
      <4> QED
        BY <2>1, <2>4, <3>1, <4>1 DEF SnapshotOf
    <3> QED
      BY <3>2, <3>3
  <2> QED
    BY <2>3, <2>4
<1>5. LocksWithin'
  <2> SUFFICES ASSUME NEW q \in RunIds, run'[q].phase # "deleted", NEW x \in Notes, lock[x] = q
               PROVE  x \in run'[q].cands \union StageNotes /\ run'[q].phase # "none"
    BY DEF LocksWithin, RowStep
  <2>1. CASE q # r
    BY <2>1 DEF IInv, Shape, LocksWithin, RowStep
  <2>2. CASE q = r
    <3>1. run[r].phase # "deleted"
      BY DEF RowStep, Draft
    <3>2. x \in run[r].cands \union StageNotes /\ run[r].phase # "none"
      BY <2>2, <3>1 DEF IInv, Shape, LocksWithin
    <3>3. run[r].phase \in Draft => run[r].cands = {}
      BY DEF IInv, Shape, DraftInv
    <3> QED
      BY <2>2, <3>2, <3>3 DEF RowStep
  <2> QED
    BY <2>1, <2>2
<1>6. SettledInv'
  <2> SUFFICES ASSUME NEW q \in RunIds, Exists(q)', q \notin todo \union unsure
               PROVE  Follows(q)' \/ \E c \in Procs : WillSettle(c, q)'
    BY DEF SettledInv, RowStep
  <2>1. CASE q = r
    BY <2>1 DEF WillSettle, RowStep, Procs
  <2>2. CASE q # r
    <3>1. run'[q] = run[q] /\ Exists(q)
      BY <2>2 DEF RowStep, Exists
    <3>2. Follows(q) \/ \E c \in Procs : WillSettle(c, q)
      BY <3>1 DEF IInv, SettledInv
    <3>3. CASE Follows(q)
      BY <3>1, <3>3 DEF Follows, RowStep
    <3>4. ASSUME NEW c \in Procs, WillSettle(c, q)
          PROVE  WillSettle(c, q)'
      <4>1. proc'[c] = proc[c]
        BY <3>4 DEF WillSettle, RowStep, Procs
      <4> QED
        BY <3>1, <3>4, <4>1 DEF WillSettle, Acting
    <3> QED
      BY <3>2, <3>3, <3>4
  <2> QED
    BY <2>1, <2>2
<1>7. FailureInv'
  <2> SUFFICES ASSUME NEW d \in RunIds, run'[d].phase = "failed_terminal", run'[d].dup,
                      \A q \in RunIds : q > d => run'[q].phase = "none"
               PROVE  \A x \in Notes : lock[x] # Other
    BY DEF FailureInv, RowStep
  <2>1. d # r /\ ~(r > d)
    BY DEF RowStep
  <2>2. run[d] = run'[d] /\ \A q \in RunIds : q > d => run[q].phase = "none"
    BY <2>1 DEF RowStep
  <2> QED
    BY <2>2 DEF IInv, FailureInv
<1>8. SeenInv'
  BY DEF IInv, SeenInv, RowStep, Exists, Draft
<1> QED
  BY <1>1, <1>2, <1>3, <1>4, <1>5, <1>6, <1>7, <1>8 DEF IInv, Shape

-----------------------------------------------------------------------------
(* The steps of a caller                                                   *)

LEMMA Succeeds ==
    ASSUME TypeInv, NEW p \in Procs, Succeed(p), proc[p].run # 0
    PROVE  ProcStep(p) /\ proc'[p].st \in {"idle", "discard"}
<1>1. proc[p] \in Caller /\ 0 \in 0..MaxPasses
  BY RunLocksAssumption DEF TypeInv
<1>2. CASE proc[p].then = ""
  <2>1. proc' = [proc EXCEPT ![p] = Idle]
    BY <1>2 DEF Succeed
  <2>2. Idle \in Caller
    BY <1>1 DEF Idle, Caller, Steps
  <2> QED
    BY <2>1, <2>2 DEF TypeInv, ProcStep, Idle
<1>3. CASE proc[p].then = "discard"
  <2>1. proc' = [proc EXCEPT ![p] = [proc[p] EXCEPT !.st = "discard"]]
    BY <1>3 DEF Succeed
  <2>2. [proc[p] EXCEPT !.st = "discard"] \in Caller
    BY <1>1 DEF Caller, Steps
  <2>3. /\ proc'[p].st = "discard" /\ proc'[p].run = proc[p].run /\ proc'[p].then = "discard"
        /\ proc' \in [Procs -> Caller] /\ \A c \in Procs \ {p} : proc'[c] = proc[c]
    BY <1>1, <1>3, <2>1, <2>2 DEF TypeInv, Caller
  <2> QED
    BY <1>3, <2>3 DEF ProcStep
<1> QED
  BY <1>1, <1>2, <1>3 DEF Caller

LEMMA Fails ==
    ASSUME TypeInv, NEW p \in Procs, Fail(p), proc[p].run # 0
    PROVE  /\ ProcStep(p) /\ proc'[p].st \in {"idle", "undo"}
           /\ todo' \subseteq todo /\ unsure' \subseteq RunIds \union {0}
           /\ todo \union unsure \subseteq todo' \union unsure'
           /\ proc[p].run \in unsure'
<1>1. proc[p] \in Caller /\ 0 \in 0..MaxPasses
  BY RunLocksAssumption DEF TypeInv
<1>2. ProcStep(p) /\ proc'[p].st \in {"idle", "undo"}
  <2>1. CASE proc[p].made = {}
    <3>1. proc' = [proc EXCEPT ![p] = Idle]
      BY <2>1 DEF Fail
    <3>2. Idle \in Caller
      BY <1>1 DEF Idle, Caller, Steps
    <3> QED
      BY <3>1, <3>2 DEF TypeInv, ProcStep, Idle
  <2>2. CASE proc[p].made # {}
    <3>1. proc' = [proc EXCEPT ![p] = [proc[p] EXCEPT !.st = "undo"]]
      BY <2>2 DEF Fail
    <3>2. [proc[p] EXCEPT !.st = "undo"] \in Caller
      BY <1>1 DEF Caller, Steps
    <3>3. /\ proc'[p].st = "undo" /\ proc'[p].run = proc[p].run /\ proc'[p].then = proc[p].then
          /\ proc' \in [Procs -> Caller] /\ \A c \in Procs \ {p} : proc'[c] = proc[c]
      BY <1>1, <3>1, <3>2 DEF TypeInv, Caller
    <3> QED
      BY <3>3 DEF ProcStep
  <2> QED
    BY <2>1, <2>2
<1>3. /\ todo' \subseteq todo /\ unsure' \subseteq RunIds \union {0}
      /\ todo \union unsure \subseteq todo' \union unsure'
      /\ proc[p].run \in unsure'
  <2>1. /\ unsure' = unsure \union {proc[p].run} \union (IF p = "sync" THEN todo ELSE {})
        /\ todo' = IF p = "sync" THEN {} ELSE todo
    BY DEF Fail
  <2>2. proc[p].run \in RunIds \union {0}
    BY <1>1 DEF Caller
  <2> QED
    BY <2>1, <2>2 DEF TypeInv
<1> QED
  BY <1>2, <1>3

\* Only locks of r go when r is unlocked.
LEMMA Unlocks ==
    ASSUME TypeInv, NEW r \in RunIds, NEW C \in SUBSET Notes, lock' = Unlock(r, C)
    PROVE  /\ lock' \in [Notes -> {0, Other} \union RunIds]
           /\ \A x \in Notes : lock'[x] = IF x \in C /\ lock[x] = r THEN 0 ELSE lock[x]
           /\ \A x \in Notes : lock'[x] = lock[x] \/ (lock[x] = r /\ lock'[x] = 0)
BY DEF Unlock, TypeInv

LEMMA CheckNoRunStep ==
    ASSUME IInv, CheckNoRun
    PROVE  IInv'
<1>1. proc["driver"] = Idle /\ UNCHANGED <<run, lock, seen, ready, todo, unsure>>
      /\ proc' = [proc EXCEPT !["driver"].st = "insert"]
  BY DEF CheckNoRun
<1>2. proc["driver"].run = 0 /\ proc["driver"] \in Caller /\ "driver" \in Procs
  <2>1. "driver" \in Procs
    BY DEF Procs
  <2>2. proc["driver"].run = 0
    <3>1. proc["driver"] = Idle
      BY <1>1
    <3>2. Idle.run = 0
      BY DEF Idle
    <3> QED
      BY <3>1, <3>2
  <2> QED
    BY <2>1, <2>2 DEF IInv, TypeInv
<1>3. ProcStep("driver") /\ proc'["driver"].st = "insert"
  <2>1. /\ proc'["driver"].st = "insert" /\ proc'["driver"].run = 0
        /\ proc' \in [Procs -> Caller] /\ \A c \in Procs \ {"driver"} : proc'[c] = proc[c]
    BY <1>1, <1>2 DEF IInv, TypeInv, Caller, Steps
  <2> QED
    BY <1>2, <2>1 DEF ProcStep
<1>4. CallerStep("driver")
  BY <1>1, <1>2, <1>3 DEF CallerStep, IInv, TypeInv
<1>5. SettledBy("driver")
  BY <1>2, OwnersDiffer DEF SettledBy
<1> QED
  BY <1>2, <1>4, <1>5, CallerKeeps

LEMMA SnapshotStep ==
    ASSUME IInv, NEW p \in Procs, Snapshot(p)
    PROVE  IInv'
<1>0. PICK r \in RunIds : r = proc[p].run /\ r # 0
  BY OwnersDiffer DEF Snapshot, IInv, TypeInv, Caller
<1> USE <1>0
<1>1. /\ proc[p].st = "snapshot" /\ proc[p] \in Caller
      /\ UNCHANGED <<run, lock, seen, ready, todo, unsure>>
  BY OwnersDiffer DEF Snapshot, IInv, TypeInv, Caller
<1>2. CASE Exists(r)
  <2>1. proc' = [proc EXCEPT ![p] = [proc[p] EXCEPT !.st = "apply", !.cands = run[r].cands,
                                         !.release = Releases(run[r].phase), !.n = proc[p].n + 1]]
    BY <1>2 DEF Snapshot
  <2>2. /\ run[r].cands \subseteq Notes /\ Releases(run[r].phase) \in BOOLEAN
        /\ proc[p].n + 1 \in 0..MaxPasses
    <3>1. run[r].cands \subseteq Notes
      BY DEF IInv, TypeInv, RunRow
    <3>2. Releases(run[r].phase) \in BOOLEAN
      BY DEF Releases
    <3>3. proc[p].n + 1 \in 0..MaxPasses
      <4>1. proc[p].n \in 0..MaxPasses
        BY <1>1 DEF Caller
      <4>2. proc[p].n < MaxPasses
        BY <1>1 DEF IInv, TypeInv
      <4>3. MaxPasses \in Nat
        BY RunLocksAssumption
      <4> QED
        BY <4>1, <4>2, <4>3
    <3> QED
      BY <3>1, <3>2, <3>3
  <2>3. [proc[p] EXCEPT !.st = "apply", !.cands = run[r].cands,
                        !.release = Releases(run[r].phase), !.n = proc[p].n + 1] \in Caller
    BY <1>1, <2>2 DEF Caller, Steps
  <2>4. /\ proc'[p].st = "apply" /\ proc'[p].run = r /\ proc'[p].then = proc[p].then
        /\ proc'[p].cands = run[r].cands /\ proc'[p].release = Releases(run[r].phase)
        /\ proc' \in [Procs -> Caller] /\ \A c \in Procs \ {p} : proc'[c] = proc[c]
    BY <1>1, <2>1, <2>3 DEF IInv, TypeInv, Caller
  <2>5. CallerStep(p)
    BY <1>1, <2>4 DEF CallerStep, ProcStep, IInv, TypeInv
  <2>6. SettledBy(p)
    BY <1>1, <2>4 DEF SettledBy, WillSettle
  <2> QED
    BY <2>5, <2>6, CallerKeeps
<1>3. CASE ~Exists(r)
  <2>1. ProcStep(p) /\ proc'[p].st \in {"idle", "discard"}
    BY <1>1, <1>3, Succeeds DEF Snapshot, IInv
  <2>2. CallerStep(p)
    BY <1>1, <2>1 DEF CallerStep, IInv, TypeInv
  <2>3. SettledBy(p)
    BY <1>3 DEF SettledBy
  <2> QED
    BY <2>2, <2>3, CallerKeeps
<1> QED
  BY <1>2, <1>3

LEMMA ApplyReleaseStep ==
    ASSUME IInv, NEW p \in Procs, ApplyRelease(p)
    PROVE  IInv'
<1>0. PICK r \in RunIds : r = proc[p].run /\ r # 0
  BY OwnersDiffer DEF ApplyRelease, IInv, TypeInv, Caller
<1> USE <1>0
<1>1. /\ proc[p].st = "apply" /\ proc[p].release /\ proc[p] \in Caller
      /\ proc[p].cands \in SUBSET Notes
      /\ UNCHANGED <<run, seen, ready, todo>>
  BY OwnersDiffer DEF ApplyRelease, IInv, TypeInv, Caller
<1>2. /\ lock' \in [Notes -> {0, Other} \union RunIds]
      /\ \A x \in Notes : lock'[x] = IF x \in proc[p].cands /\ lock[x] = r THEN 0 ELSE lock[x]
  BY <1>1, Unlocks DEF ApplyRelease, IInv
<1>3. /\ proc'[p].st = "recheck" /\ proc'[p].run = r /\ proc'[p].then = proc[p].then
      /\ proc'[p].cands = proc[p].cands /\ proc'[p].release = proc[p].release
      /\ proc' \in [Procs -> Caller] /\ \A c \in Procs \ {p} : proc'[c] = proc[c]
  <2>1. proc' = [proc EXCEPT ![p].st = "recheck"]
    BY DEF ApplyRelease
  <2> QED
    BY <1>1, <2>1 DEF IInv, TypeInv, Caller, Steps
<1>4. unsure' = unsure \ Settled(p)
  BY DEF ApplyRelease
<1>5. Settled(p) \subseteq {r}
  BY DEF Settled
<1>6. CallerStep(p)
  BY <1>1, <1>2, <1>3, <1>4, <1>5 DEF CallerStep, ProcStep, Acting, IInv, TypeInv
<1>7. SettledBy(p)
  <2> SUFFICES ASSUME Exists(r)
               PROVE  Follows(r)' \/ \E c \in Procs : WillSettle(c, r)'
    BY DEF SettledBy
  <2>1. CASE ~Releases(run[r].phase)
    <3>1. WillSettle(p, r)'
      BY <1>1, <1>3, <2>1 DEF WillSettle, Acting, Releases
    <3> QED
      BY <3>1
  <2>2. CASE Releases(run[r].phase)
    <3>1. run[r].cands \subseteq proc[p].cands
      BY <1>1 DEF IInv, Shape, SnapshotInv, SnapshotOf, Acting
    <3>2. \A x \in Notes : lock[x] = r => x \in run[r].cands \union StageNotes
      BY <1>1 DEF IInv, Shape, LocksWithin, Exists
    <3>3. \A x \in Notes \ StageNotes : lock'[x] # r
      BY <1>1, <1>2, <3>1, <3>2
    <3> QED
      BY <1>1, <2>2, <3>3 DEF Follows
  <2> QED
    BY <2>1, <2>2
<1> QED
  BY <1>6, <1>7, CallerKeeps

LEMMA ApplyEnsureStep ==
    ASSUME IInv, NEW p \in Procs, ApplyEnsure(p)
    PROVE  IInv'
<1>0. PICK r \in RunIds : r = proc[p].run /\ r # 0
  BY OwnersDiffer DEF ApplyEnsure, IInv, TypeInv, Caller
<1> DEFINE O == proc[p].cands \intersect seen
<1> USE <1>0
<1>1. /\ proc[p].st = "apply" /\ ~proc[p].release /\ proc[p] \in Caller
      /\ proc[p].cands \subseteq Notes
      /\ UNCHANGED <<run, seen, ready>>
  BY OwnersDiffer DEF ApplyEnsure, IInv, TypeInv, Caller
<1>2. ASSUME proc' = [proc EXCEPT ![p].st = "recheck"]
      PROVE  /\ proc'[p].st = "recheck" /\ proc'[p].run = r /\ proc'[p].then = proc[p].then
             /\ proc'[p].cands = proc[p].cands /\ proc'[p].release = proc[p].release
             /\ proc' \in [Procs -> Caller] /\ \A c \in Procs \ {p} : proc'[c] = proc[c]
  BY <1>1, <1>2 DEF IInv, TypeInv, Caller, Steps
<1>3. CASE ~ready /\ proc[p].cands # {}
  <2>1. /\ proc' = [proc EXCEPT ![p].st = "recheck"]
        /\ unsure' = unsure \union {r} /\ UNCHANGED <<lock, todo>>
    BY <1>3 DEF ApplyEnsure
  <2>2. CallerStep(p)
    BY <1>1, <1>2, <2>1 DEF CallerStep, ProcStep, Acting, IInv, TypeInv
  <2>3. SettledBy(p)
    BY <2>1 DEF SettledBy
  <2> QED
    BY <2>2, <2>3, CallerKeeps
<1>4. CASE ~(~ready /\ proc[p].cands # {}) /\ \E x \in O : lock[x] \notin {0, r}
  <2>1. Fail(p) /\ lock' = lock
    BY <1>4 DEF ApplyEnsure
  <2>2. CallerStep(p)
    BY <1>1, <2>1, Fails DEF CallerStep, IInv, TypeInv
  <2>3. SettledBy(p)
    BY <1>1, <2>1, Fails DEF SettledBy, IInv
  <2> QED
    BY <2>2, <2>3, CallerKeeps
<1>5. CASE ~(~ready /\ proc[p].cands # {}) /\ ~(\E x \in O : lock[x] \notin {0, r})
  <2>1. /\ lock' = [x \in Notes |-> IF x \in O THEN r ELSE lock[x]]
        /\ proc' = [proc EXCEPT ![p].st = "recheck"] /\ unsure' = unsure \ Settled(p)
        /\ UNCHANGED todo
    BY <1>5 DEF ApplyEnsure
  <2>2. /\ lock' \in [Notes -> {0, Other} \union RunIds]
        /\ \A x \in Notes : x \in O => lock'[x] = r /\ lock[x] \in {0, r}
        /\ \A x \in Notes : x \notin O => lock'[x] = lock[x]
    BY <1>1, <1>5, <2>1 DEF IInv, TypeInv
  <2>3. Settled(p) \subseteq {r} /\ (r \in Settled(p) => proc[p].cands = run[r].cands)
    BY DEF Settled
  <2>4. CallerStep(p)
    BY <1>1, <1>2, <2>1, <2>2, <2>3 DEF CallerStep, ProcStep, Acting, IInv, TypeInv
  <2>5. SettledBy(p)
    <3> SUFFICES ASSUME Exists(r), r \notin todo' \union unsure'
                 PROVE  Follows(r)' \/ \E c \in Procs : WillSettle(c, r)'
      BY DEF SettledBy
    <3>1. CASE Releases(run[r].phase)
      <4>1. WillSettle(p, r)'
        BY <1>1, <1>2, <2>1, <3>1 DEF WillSettle, Acting, Releases
      <4> QED
        BY <4>1
    <3>2. CASE ~Releases(run[r].phase)
      <4>1. run[r].phase # "abandoned"
        BY <3>2 DEF Releases, Terminal
      <4>2. proc[p].cands = run[r].cands \/ proc[p].cands = {}
        BY <1>1, <4>1 DEF IInv, Shape, SnapshotInv, SnapshotOf, Acting
      <4>3. CASE proc[p].cands = run[r].cands
        BY <1>1, <2>2, <3>2, <4>3 DEF Follows, IInv, TypeInv, RunRow
      <4>4. CASE proc[p].cands = {} /\ proc[p].cands # run[r].cands
        <5>1. r \notin todo \union unsure
          BY <2>1, <2>3, <4>4
        <5>2. Follows(r) \/ \E c \in Procs : WillSettle(c, r)
          BY <1>1, <5>1 DEF IInv, SettledInv
        <5>3. ~WillSettle(p, r)
          BY <1>1, <3>2, <4>4 DEF WillSettle, Acting
        <5>4. CASE Follows(r)
          BY <1>1, <2>2, <3>2, <4>4, <5>4 DEF Follows, IInv, TypeInv, RunRow
        <5>5. ASSUME NEW c \in Procs, WillSettle(c, r), c # p
              PROVE  WillSettle(c, r)'
          BY <1>1, <1>2, <2>1, <5>5 DEF WillSettle, Acting
        <5> QED
          BY <5>2, <5>3, <5>4, <5>5
      <4> QED
        BY <4>2, <4>3, <4>4
    <3> QED
      BY <3>1, <3>2
  <2> QED
    BY <2>4, <2>5, CallerKeeps
<1> QED
  BY <1>3, <1>4, <1>5

LEMMA RecheckStep ==
    ASSUME IInv, NEW p \in Procs, Recheck(p)
    PROVE  IInv'
<1>0. PICK r \in RunIds : r = proc[p].run /\ r # 0
  BY OwnersDiffer DEF Recheck, IInv, TypeInv, Caller
<1> USE <1>0
<1>1. /\ proc[p].st = "recheck" /\ proc[p] \in Caller /\ proc[p].cands \in SUBSET Notes
      /\ UNCHANGED <<run, seen, ready>>
  BY DEF Recheck, IInv, TypeInv, Caller
<1>2. CASE ~Exists(r)
  <2>1. lock' = Unlock(r, proc[p].cands) /\ Succeed(p) /\ UNCHANGED <<todo, unsure>>
    BY <1>2 DEF Recheck
  <2>2. ProcStep(p) /\ proc'[p].st \in {"idle", "discard"}
    BY <2>1, Succeeds DEF IInv
  <2>3. /\ lock' \in [Notes -> {0, Other} \union RunIds]
        /\ \A x \in Notes : lock'[x] = lock[x] \/ (lock[x] = r /\ lock'[x] = 0)
    BY <1>1, <2>1, Unlocks DEF IInv
  <2>4. CallerStep(p)
    BY <1>1, <2>1, <2>2, <2>3 DEF CallerStep, IInv, TypeInv
  <2>5. SettledBy(p)
    BY <1>2 DEF SettledBy
  <2> QED
    BY <2>4, <2>5, CallerKeeps
<1>3. CASE Exists(r) /\ Releases(run[r].phase) = proc[p].release
  <2>1. Succeed(p) /\ UNCHANGED <<lock, todo, unsure>>
    BY <1>3 DEF Recheck
  <2>2. ProcStep(p) /\ proc'[p].st \in {"idle", "discard"}
    BY <2>1, Succeeds DEF IInv
  <2>3. CallerStep(p)
    BY <1>1, <2>1, <2>2 DEF CallerStep, IInv, TypeInv
  <2>4. SettledBy(p)
    <3> SUFFICES ASSUME r \notin todo \union unsure
                 PROVE  Follows(r)' \/ \E c \in Procs : WillSettle(c, r)'
      BY <2>1 DEF SettledBy
    <3>1. Follows(r) \/ \E c \in Procs : WillSettle(c, r)
      BY <1>3 DEF IInv, SettledInv
    <3>2. ~WillSettle(p, r)
      BY <1>1, <1>3 DEF WillSettle, Acting
    <3>3. CASE Follows(r)
      BY <1>1, <2>1, <3>3 DEF Follows
    <3>4. ASSUME NEW c \in Procs, WillSettle(c, r), c # p
          PROVE  WillSettle(c, r)'
      BY <1>1, <2>2, <3>4 DEF WillSettle, Acting, ProcStep
    <3> QED
      BY <3>1, <3>2, <3>3, <3>4
  <2> QED
    BY <2>3, <2>4, CallerKeeps
<1>4. CASE Exists(r) /\ Releases(run[r].phase) # proc[p].release /\ proc[p].n < MaxPasses
  <2>1. proc' = [proc EXCEPT ![p].st = "snapshot"] /\ UNCHANGED <<lock, todo, unsure>>
    BY <1>4 DEF Recheck
  <2>2. /\ proc'[p].st = "snapshot" /\ proc'[p].run = r /\ proc'[p].then = proc[p].then
        /\ proc'[p].n = proc[p].n
        /\ proc' \in [Procs -> Caller] /\ \A c \in Procs \ {p} : proc'[c] = proc[c]
    BY <1>1, <2>1 DEF IInv, TypeInv, Caller, Steps
  <2>3. CallerStep(p)
    BY <1>1, <1>4, <2>1, <2>2 DEF CallerStep, ProcStep, IInv, TypeInv
  <2>4. SettledBy(p)
    BY <2>2 DEF SettledBy, WillSettle
  <2> QED
    BY <2>3, <2>4, CallerKeeps
<1>5. CASE Exists(r) /\ Releases(run[r].phase) # proc[p].release /\ ~(proc[p].n < MaxPasses)
  <2>1. Fail(p) /\ lock' = lock
    BY <1>5 DEF Recheck
  <2>2. CallerStep(p)
    BY <1>1, <2>1, Fails DEF CallerStep, IInv, TypeInv
  <2>3. SettledBy(p)
    BY <2>1, Fails DEF SettledBy, IInv
  <2> QED
    BY <2>2, <2>3, CallerKeeps
<1> QED
  BY <1>2, <1>3, <1>4, <1>5

LEMMA FaultStep ==
    ASSUME IInv, NEW p \in Procs, Fault(p)
    PROVE  IInv'
<1>0. PICK r \in RunIds : r = proc[p].run /\ r # 0
  BY OwnersDiffer DEF Fault, IInv, TypeInv, Caller
<1> USE <1>0
<1>1. Fail(p) /\ UNCHANGED <<run, lock, seen, ready>>
  BY DEF Fault
<1>2. CallerStep(p)
  BY <1>1, Fails DEF CallerStep, IInv, TypeInv
<1>3. SettledBy(p)
  BY <1>1, Fails DEF SettledBy, IInv
<1> QED
  BY <1>2, <1>3, CallerKeeps

\* A driver that does no more than end, or go on to delete the run: what was owed to the run
\* was not owed by it.
LEMMA Leaves ==
    ASSUME IInv, NEW st \in {"idle", "delete"}, proc["driver"].st \in {"undo", "delete", "discard"},
           proc' = [proc EXCEPT !["driver"] = IF st = "idle" THEN Idle ELSE [proc["driver"] EXCEPT !.st = st]]
    PROVE  ProcStep("driver") /\ proc'["driver"].st = st /\ proc["driver"].run \in RunIds
           /\ "driver" \in Procs
<1>1. "driver" \in Procs /\ 0 \in 0..MaxPasses
  BY RunLocksAssumption DEF Procs
<1>2. proc["driver"] \in Caller /\ proc["driver"].run \in RunIds
  BY <1>1 DEF IInv, TypeInv, Caller
<1>3. Idle \in Caller /\ [proc["driver"] EXCEPT !.st = "delete"] \in Caller
  BY <1>1, <1>2 DEF Idle, Caller, Steps
<1>4. CASE st = "idle"
  <2>1. proc' = [proc EXCEPT !["driver"] = Idle]
    BY <1>4
  <2>2. Idle.run = 0 /\ Idle.st = "idle"
    BY DEF Idle
  <2> QED
    BY <1>1, <1>2, <1>3, <1>4, <2>1, <2>2 DEF IInv, TypeInv, ProcStep
<1>5. CASE st = "delete"
  <2>1. proc' = [proc EXCEPT !["driver"] = [proc["driver"] EXCEPT !.st = "delete"]]
    BY <1>5
  <2>2. /\ proc'["driver"].st = "delete" /\ proc'["driver"].run = proc["driver"].run
        /\ proc'["driver"].then = proc["driver"].then
        /\ proc' \in [Procs -> Caller] /\ \A c \in Procs \ {"driver"} : proc'[c] = proc[c]
    <3> DEFINE next == [proc["driver"] EXCEPT !.st = "delete"]
    <3>1. next.st = "delete" /\ next.run = proc["driver"].run /\ next.then = proc["driver"].then
      BY <1>2 DEF Caller
    <3>2. next \in Caller /\ proc' = [proc EXCEPT !["driver"] = next]
      BY <1>3, <2>1
    <3> HIDE DEF next
    <3> QED
      BY <1>1, <3>1, <3>2 DEF IInv, TypeInv
  <2> QED
    BY <1>1, <1>2, <1>5, <2>2, OwnersDiffer DEF ProcStep
<1> QED
  BY <1>4, <1>5

\* What the driver owes to no run when it only finishes.
LEMMA LeavesSettled ==
    ASSUME IInv, ProcStep("driver"), "driver" \in Procs,
           proc["driver"].st \in {"undo", "delete", "discard"},
           UNCHANGED <<run, lock, seen, todo, unsure>>
    PROVE  SettledBy("driver")
<1> SUFFICES ASSUME NEW r \in RunIds, r = proc["driver"].run, Exists(r), r \notin todo \union unsure
             PROVE  Follows(r)' \/ \E c \in Procs : WillSettle(c, r)'
  BY DEF SettledBy
<1>1. Follows(r) \/ \E c \in Procs : WillSettle(c, r)
  BY DEF IInv, SettledInv
<1>2. ~WillSettle("driver", r)
  BY DEF WillSettle, Acting
<1>3. CASE Follows(r)
  BY <1>3 DEF Follows
<1>4. ASSUME NEW c \in Procs, WillSettle(c, r), c # "driver"
      PROVE  WillSettle(c, r)'
  BY <1>4 DEF WillSettle, Acting, ProcStep
<1> QED
  BY <1>1, <1>2, <1>3, <1>4

LEMMA UndoStep ==
    ASSUME IInv, Undo
    PROVE  IInv'
<1>1. proc["driver"].st = "undo" /\ UNCHANGED <<run, seen, ready, todo>>
  BY DEF Undo
<1>2. CASE /\ lock' = Unlock(proc["driver"].run, proc["driver"].made)
           /\ proc' = [proc EXCEPT !["driver"].st = "delete"]
           /\ unsure' = unsure \union {proc["driver"].run}
  <2>1. proc["driver"] \in Caller /\ proc["driver"].made \in SUBSET Notes
    BY DEF IInv, TypeInv, Caller, Procs
  <2>2. proc' = [proc EXCEPT !["driver"] = [proc["driver"] EXCEPT !.st = "delete"]]
    BY <1>2
  <2>3. ProcStep("driver") /\ proc'["driver"].st = "delete" /\ proc["driver"].run \in RunIds
        /\ "driver" \in Procs
    BY <1>1, <2>2, Leaves
  <2>4. /\ lock' \in [Notes -> {0, Other} \union RunIds]
        /\ \A x \in Notes : lock'[x] = lock[x] \/ (lock[x] = proc["driver"].run /\ lock'[x] = 0)
    BY <1>2, <2>1, <2>3, Unlocks DEF IInv
  <2>5. CallerStep("driver")
    BY <1>1, <1>2, <2>3, <2>4, OwnersDiffer DEF CallerStep, IInv, TypeInv
  <2>6. SettledBy("driver")
    BY <1>2 DEF SettledBy
  <2> QED
    BY <2>3, <2>5, <2>6, CallerKeeps
<1>3. CASE proc' = [proc EXCEPT !["driver"] = Idle] /\ UNCHANGED <<lock, unsure>>
  <2>1. ProcStep("driver") /\ proc'["driver"].st = "idle" /\ "driver" \in Procs
    BY <1>1, <1>3, Leaves
  <2>2. CallerStep("driver")
    BY <1>1, <1>3, <2>1 DEF CallerStep, IInv, TypeInv
  <2>3. SettledBy("driver")
    BY <1>1, <1>3, <2>1, LeavesSettled
  <2> QED
    BY <2>1, <2>2, <2>3, CallerKeeps
<1> QED
  BY <1>2, <1>3 DEF Undo

-----------------------------------------------------------------------------
(* The steps that write rows                                               *)

\* A caller starts a pass over r.
LEMMA Starts ==
    ASSUME TypeInv, NEW r \in RunIds, NEW made \in SUBSET Notes, NEW then \in {"", "discard"},
           NEW p \in Procs,
           proc' = [proc EXCEPT ![p] = StartPass(r, made, then)]
    PROVE  /\ proc' \in [Procs -> Caller] /\ \A c \in Procs \ {p} : proc'[c] = proc[c]
           /\ proc'[p].run = r /\ proc'[p].st = "snapshot" /\ proc'[p].n = 0
           /\ proc'[p].then = then
<1>2. 0 \in 0..MaxPasses
  BY NoPass
<1>3. Idle \in Caller
  BY <1>2 DEF Idle, Caller, Steps
<1>4. Idle.n = 0
  BY DEF Idle
<1> DEFINE pass == StartPass(r, made, then)
<1>5. pass \in Caller
  BY <1>3 DEF StartPass, Caller, Steps
<1>6. pass.run = r /\ pass.st = "snapshot" /\ pass.n = 0 /\ pass.then = then
  BY <1>3, <1>4 DEF StartPass, Caller
<1>7. proc' = [proc EXCEPT ![p] = pass]
  OBVIOUS
<1> HIDE DEF pass
<1>8. proc' \in [Procs -> Caller] /\ proc'[p] = pass /\ \A c \in Procs \ {p} : proc'[c] = proc[c]
  BY <1>5, <1>7 DEF TypeInv
<1> QED
  BY <1>6, <1>8

LEMMA DriverCalls == "driver" \in Procs
BY DEF Procs

LEMMA Writes ==
    ASSUME TypeInv, NEW r \in RunIds, NEW phase \in Phases, NEW C \in SUBSET Notes,
           SetRun(r, phase, C, FALSE)
    PROVE  /\ run' \in [RunIds -> RunRow] /\ \A q \in RunIds \ {r} : run'[q] = run[q]
           /\ run'[r].phase = phase /\ run'[r].cands = C /\ ~run'[r].dup
<1>1. [phase |-> phase, cands |-> C, dup |-> FALSE] \in RunRow
  BY DEF RunRow
<1> QED
  BY <1>1 DEF SetRun, TypeInv

LEMMA FirstPhases ==
    ASSUME NEW C
    PROVE  FirstPhase(C) \in Phases \ (Draft \union Terminal \union {"none", "deleted"})
BY DEF FirstPhase, Phases, Draft, Terminal

\* A fresh id has no row, and neither has any later one.
LEMMA FreshIds ==
    ASSUME NEW r \in Fresh
    PROVE  r \in RunIds /\ run[r].phase = "none" /\ \A q \in RunIds : q > r => run[q].phase = "none"
<1>1. r \in RunIds /\ r \in Nat
  BY OwnersDiffer DEF Fresh
<1>2. \A q \in RunIds : run[q].phase = "none" <=> q >= r
  BY DEF Fresh
<1> QED
  BY <1>1, <1>2, OwnersDiffer

LEMMA IdleDriver ==
    ASSUME proc["driver"] = Idle
    PROVE  proc["driver"].run = 0
<1>1. Idle.run = 0
  BY DEF Idle
<1> QED
  BY <1>1

LEMMA CreateRunStep ==
    ASSUME IInv, NEW r \in RunIds, CreateRun(r)
    PROVE  IInv'
<1>1. PICK C \in SUBSET Notes : /\ C \subseteq seen
                                /\ SetRun(r, FirstPhase(C), C, FALSE)
                                /\ proc' = [proc EXCEPT !["driver"] = StartPass(r, C, "")]
  BY DEF CreateRun, IInv, TypeInv
<1>2. /\ UNCHANGED <<lock, seen, ready, todo, unsure>>
      /\ run[r].phase = "none" /\ proc["driver"].st = "insert"
  BY FreshIds DEF CreateRun
<1>3. proc["driver"].run = 0
  BY <1>2 DEF IInv, TypeInv, Procs
<1>4. /\ run' \in [RunIds -> RunRow] /\ \A q \in RunIds \ {r} : run'[q] = run[q]
      /\ run'[r].phase \notin Draft \union Terminal \union {"none", "deleted"}
      /\ run'[r].cands = C /\ ~run'[r].dup
  <2>1. FirstPhase(C) \in Phases \ (Draft \union Terminal \union {"none", "deleted"})
    BY FirstPhases
  <2> QED
    BY <2>1, <1>1, Writes DEF IInv
<1>5. /\ proc' \in [Procs -> Caller] /\ \A c \in Procs \ {"driver"} : proc'[c] = proc[c]
      /\ proc'["driver"].run = r /\ proc'["driver"].st = "snapshot" /\ proc'["driver"].n = 0
      /\ proc'["driver"].then = ""
  BY <1>1, Starts, DriverCalls DEF IInv
<1>6. RowStep(r)
  BY <1>1, <1>2, <1>3, <1>4, <1>5 DEF RowStep
<1> QED
  BY <1>6, RowKeeps

LEMMA FinalizeDraftStep ==
    ASSUME IInv, NEW r \in RunIds, FinalizeDraft(r)
    PROVE  IInv'
<1>1. PICK C \in Choices : SetRun(r, FirstPhase(C), C, FALSE)
  BY DEF FinalizeDraft
<1>2. C \subseteq seen /\ C \in SUBSET Notes
  BY DEF Choices, IInv, TypeInv
<1>3. /\ UNCHANGED <<lock, seen, ready, todo, unsure>>
      /\ run[r].phase \in Draft /\ proc["driver"].run = 0
      /\ proc' = [proc EXCEPT !["driver"] = StartPass(r, {}, "")]
  BY IdleDriver DEF FinalizeDraft
<1>4. /\ run' \in [RunIds -> RunRow] /\ \A q \in RunIds \ {r} : run'[q] = run[q]
      /\ run'[r].phase \notin Draft \union Terminal \union {"none", "deleted"}
      /\ run'[r].cands = C /\ ~run'[r].dup
  <2>1. FirstPhase(C) \in Phases \ (Draft \union Terminal \union {"none", "deleted"})
    BY FirstPhases
  <2> QED
    BY <2>1, <1>1, <1>2, Writes DEF IInv
<1>5. /\ proc' \in [Procs -> Caller] /\ \A c \in Procs \ {"driver"} : proc'[c] = proc[c]
      /\ proc'["driver"].run = r /\ proc'["driver"].st = "snapshot" /\ proc'["driver"].n = 0
      /\ proc'["driver"].then = ""
  BY <1>3, Starts, DriverCalls DEF IInv
<1>6. RowStep(r)
  BY <1>2, <1>3, <1>4, <1>5 DEF RowStep
<1> QED
  BY <1>6, RowKeeps

LEMMA RetireStep ==
    ASSUME IInv, NEW r \in RunIds, Retire(r)
    PROVE  IInv'
<1>1. /\ SetRun(r, "failed_terminal", run[r].cands, FALSE)
      /\ proc' = [proc EXCEPT !["driver"] = StartPass(r, {}, "")]
      /\ UNCHANGED <<lock, seen, ready, todo, unsure>>
      /\ r \in Active /\ proc["driver"].run = 0
  BY IdleDriver DEF Retire
<1>2. /\ run[r].cands \in SUBSET Notes /\ run[r].phase \notin Terminal \union {"none", "deleted"}
      /\ "failed_terminal" \in Phases /\ "failed_terminal" \in Terminal
  BY <1>1 DEF Active, Exists, IInv, TypeInv, RunRow, Phases, Terminal
<1>3. /\ run' \in [RunIds -> RunRow] /\ \A q \in RunIds \ {r} : run'[q] = run[q]
      /\ run'[r].phase = "failed_terminal" /\ run'[r].cands = run[r].cands /\ ~run'[r].dup
  BY <1>1, <1>2, Writes DEF IInv
<1>4. /\ proc' \in [Procs -> Caller] /\ \A c \in Procs \ {"driver"} : proc'[c] = proc[c]
      /\ proc'["driver"].run = r /\ proc'["driver"].st = "snapshot" /\ proc'["driver"].n = 0
      /\ proc'["driver"].then = ""
  BY <1>1, Starts, DriverCalls DEF IInv
<1>5. RowStep(r)
  BY <1>1, <1>2, <1>3, <1>4 DEF RowStep, Terminal
<1> QED
  BY <1>5, RowKeeps

LEMMA AbandonStep ==
    ASSUME IInv, NEW r \in RunIds, Abandon(r)
    PROVE  IInv'
<1>1. /\ SetRun(r, "abandoned", run[r].cands, FALSE)
      /\ proc' = [proc EXCEPT !["driver"] = StartPass(r, {}, "discard")]
      /\ UNCHANGED <<lock, seen, ready, todo, unsure>>
      /\ r \in Active \/ run[r].phase = "abandoned"
      /\ proc["driver"].run = 0
  BY IdleDriver DEF Abandon
<1>2. /\ run[r].cands \in SUBSET Notes /\ run[r].phase \notin {"none", "deleted"}
      /\ "abandoned" \in Phases /\ "abandoned" \in Terminal
  BY <1>1 DEF Active, Exists, IInv, TypeInv, RunRow, Phases, Terminal
<1>3. /\ run' \in [RunIds -> RunRow] /\ \A q \in RunIds \ {r} : run'[q] = run[q]
      /\ run'[r].phase = "abandoned" /\ run'[r].cands = run[r].cands /\ ~run'[r].dup
  BY <1>1, <1>2, Writes DEF IInv
<1>4. /\ proc' \in [Procs -> Caller] /\ \A c \in Procs \ {"driver"} : proc'[c] = proc[c]
      /\ proc'["driver"].run = r /\ proc'["driver"].st = "snapshot" /\ proc'["driver"].n = 0
      /\ proc'["driver"].then = "discard"
  BY <1>1, Starts, DriverCalls DEF IInv
<1>5. RowStep(r)
  BY <1>1, <1>2, <1>3, <1>4 DEF RowStep
<1> QED
  BY <1>5, RowKeeps

LEMMA CreateDraftStep ==
    ASSUME IInv, NEW r \in RunIds, CreateDraft(r)
    PROVE  IInv'
<1>1. /\ UNCHANGED <<lock, seen, ready, proc, todo, unsure>>
      /\ run[r].phase = "none" /\ \A q \in RunIds : q > r => run[q].phase = "none"
      /\ SetRun(r, "awaiting_preparation", {}, FALSE)
  BY FreshIds DEF CreateDraft
<1>2. "awaiting_preparation" \in Phases \ Terminal /\ "awaiting_preparation" \in Draft
  BY DEF Phases, Draft, Terminal
<1>3. /\ run' \in [RunIds -> RunRow] /\ \A q \in RunIds \ {r} : run'[q] = run[q]
      /\ run'[r].phase = "awaiting_preparation" /\ run'[r].cands = {} /\ ~run'[r].dup
  <2>1. "awaiting_preparation" \in Phases /\ {} \in SUBSET Notes
    BY <1>2
  <2> QED
    BY <1>1, <2>1, Writes DEF IInv
<1>4. TypeInv'
  BY <1>1, <1>3 DEF IInv, TypeInv
<1>5. \A c \in Procs : proc[c].run # r
  BY <1>1, OwnersDiffer DEF IInv, Shape, Started
<1>6. \A x \in Notes : lock[x] # r
  BY <1>1 DEF IInv, Shape, LocksWithin
<1>7. Started'
  <2>1. \A c \in Procs : proc[c].run \in RunIds \union {0}
    BY DEF IInv, TypeInv, Caller
  <2> QED
    BY <1>1, <1>3, <1>5, <2>1 DEF IInv, Shape, Started, TypeInv
<1>8. DraftInv'
  BY <1>1, <1>3, <1>5 DEF IInv, Shape, DraftInv, Acting
<1>9. SnapshotInv'
  BY <1>1, <1>3, <1>5 DEF IInv, Shape, SnapshotInv, SnapshotOf, Acting, Exists
<1>10. LocksWithin'
  BY <1>1, <1>3, <1>6 DEF IInv, Shape, LocksWithin
<1>11. SettledInv'
  <2> SUFFICES ASSUME NEW q \in RunIds, Exists(q)', q \notin todo \union unsure
               PROVE  Follows(q)' \/ \E c \in Procs : WillSettle(c, q)'
    BY <1>1 DEF SettledInv
  <2>1. CASE q = r
    BY <1>2, <1>3, <2>1 DEF Follows, Releases
  <2>2. CASE q # r
    <3>1. run'[q] = run[q] /\ Exists(q)
      BY <1>3, <2>2 DEF Exists
    <3>2. Follows(q) \/ \E c \in Procs : WillSettle(c, q)
      BY <3>1 DEF IInv, SettledInv
    <3> QED
      BY <1>1, <3>1, <3>2 DEF Follows, WillSettle, Acting
  <2> QED
    BY <2>1, <2>2
<1>12. FailureInv'
  <2> SUFFICES ASSUME NEW d \in RunIds, run'[d].phase = "failed_terminal", run'[d].dup,
                      \A q \in RunIds : q > d => run'[q].phase = "none"
               PROVE  \A x \in Notes : lock[x] # Other
    BY <1>1 DEF FailureInv
  <2>1. d # r /\ ~(r > d)
    BY <1>3
  <2>2. run[d] = run'[d] /\ \A q \in RunIds : q > d => run[q].phase = "none"
    BY <1>3, <2>1
  <2> QED
    BY <2>2 DEF IInv, FailureInv
<1>13. SeenInv'
  BY <1>1, <1>3 DEF IInv, SeenInv, Exists
<1> QED
  BY <1>4, <1>7, <1>8, <1>9, <1>10, <1>11, <1>12, <1>13 DEF IInv, Shape

\* Rows of runs that go, and candidates that go from the rows of those that stay.
LEMMA DeletesKeep ==
    ASSUME IInv, TypeInv', UNCHANGED <<lock, seen, todo>>,
           \A c \in Procs : proc'[c] = proc[c] \/ proc'[c] = Idle,
           NEW r \in RunIds, \A q \in RunIds \ {r} : run'[q] = run[q],
           run'[r].phase = "deleted",
           run[r].phase # "none",
           proc["sync"] = proc'["sync"], proc["driver"].run = r,
           unsure \ {r} \subseteq unsure'
    PROVE  IInv'
<1>1. Idle.run = 0 /\ Idle.st = "idle"
  BY DEF Idle
<1>2. Started'
  <2>1. \A c \in Procs : proc[c].run \in RunIds \union {0}
    BY DEF IInv, TypeInv, Caller
  <2>2. \A q \in RunIds : run[q].phase # "none" => run'[q].phase # "none"
    OBVIOUS
  <2>3. \A q \in RunIds : run[q].phase \in {"abandoned", "deleted"} => run'[q].phase \in {"abandoned", "deleted"}
    OBVIOUS
  <2> QED
    BY <1>1, <2>1, <2>2, <2>3 DEF IInv, Shape, Started, TypeInv
<1>3. DraftInv'
  BY <1>1 DEF IInv, Shape, DraftInv, Acting, Draft
<1>4. SnapshotInv'
  BY <1>1 DEF IInv, Shape, SnapshotInv, SnapshotOf, Acting, Exists
<1>5. LocksWithin'
  BY DEF IInv, Shape, LocksWithin
<1>6. SettledInv'
  <2> SUFFICES ASSUME NEW q \in RunIds, Exists(q)', q \notin todo' \union unsure'
               PROVE  Follows(q)' \/ \E c \in Procs : WillSettle(c, q)'
    BY DEF SettledInv
  <2>1. q # r /\ run'[q] = run[q] /\ Exists(q) /\ q \notin todo \union unsure
    BY DEF Exists
  <2>2. Follows(q) \/ \E c \in Procs : WillSettle(c, q)
    BY <2>1 DEF IInv, SettledInv
  <2>3. ~WillSettle("driver", q)
    BY <2>1 DEF WillSettle
  <2> QED
    BY <2>1, <2>2, <2>3 DEF Follows, WillSettle, Acting, Procs
<1>7. FailureInv'
  BY DEF IInv, FailureInv
<1>8. SeenInv'
  BY DEF IInv, SeenInv, Exists
<1> QED
  BY <1>2, <1>3, <1>4, <1>5, <1>6, <1>7, <1>8 DEF IInv, Shape

LEMMA DeleteRunStep ==
    ASSUME IInv, DeleteRun
    PROVE  IInv'
<1>1. /\ proc["driver"].st = "delete" /\ proc' = [proc EXCEPT !["driver"] = Idle]
      /\ UNCHANGED <<lock, seen, ready, todo>>
  BY DEF DeleteRun
<1>2. ProcStep("driver") /\ proc'["driver"].st = "idle" /\ "driver" \in Procs
      /\ proc["driver"].run \in RunIds
  BY <1>1, Leaves
<1>3. CASE UNCHANGED <<run, unsure>>
  <2>1. CallerStep("driver")
    BY <1>1, <1>2, <1>3 DEF CallerStep, IInv, TypeInv
  <2>2. SettledBy("driver")
    BY <1>1, <1>2, <1>3, LeavesSettled
  <2> QED
    BY <1>2, <2>1, <2>2, CallerKeeps
<1>4. CASE run' = [run EXCEPT ![proc["driver"].run] = Gone] /\ unsure' = unsure \ {proc["driver"].run}
  <2>1. PICK r \in RunIds : r = proc["driver"].run
    BY <1>2
  <2>2. Gone \in RunRow /\ Gone.phase = "deleted"
    BY DEF Gone, NoRun, RunRow, Phases
  <2>3. /\ run' \in [RunIds -> RunRow] /\ \A q \in RunIds \ {r} : run'[q] = run[q]
        /\ run'[r].phase = "deleted"
    BY <1>4, <2>1, <2>2 DEF IInv, TypeInv
  <2>4. run[r].phase # "none"
    BY <2>1, OwnersDiffer DEF IInv, Shape, Started, Procs
  <2>5. TypeInv'
    BY <1>1, <1>2, <1>4, <2>3 DEF IInv, TypeInv, ProcStep
  <2>6. proc'["sync"] = proc["sync"] /\ \A c \in Procs : proc'[c] = proc[c] \/ proc'[c] = Idle
    BY <1>1 DEF IInv, TypeInv, Procs
  <2> QED
    BY <1>1, <1>4, <2>1, <2>3, <2>4, <2>5, <2>6, DeletesKeep
<1> QED
  BY <1>3, <1>4 DEF DeleteRun

LEMMA DeleteAccountStep ==
    ASSUME IInv, DeleteAccount
    PROVE  IInv'
<1>1. /\ run' = [r \in RunIds |-> IF Exists(r) THEN Gone ELSE run[r]]
      /\ lock' = [x \in Notes |-> 0] /\ seen' = {} /\ unsure' = {}
      /\ UNCHANGED <<ready, proc, todo>>
  BY DEF DeleteAccount
<1>2. Gone \in RunRow /\ Gone.phase = "deleted"
  BY DEF Gone, NoRun, RunRow, Phases
<1>3. \A r \in RunIds : /\ run'[r] \in RunRow
                        /\ run'[r].phase \in {"none", "deleted"}
                        /\ run'[r].phase = "none" <=> run[r].phase = "none"
                        /\ run'[r].phase = "none" => run'[r] = run[r]
                        /\ run[r].phase = "deleted" => run'[r] = run[r]
  BY <1>1, <1>2 DEF IInv, TypeInv, Exists
<1>4. \A r \in RunIds : run'[r].phase # "abandoned" /\ run'[r].phase \notin Draft /\ ~Exists(r)'
  BY <1>3 DEF Draft, Exists
<1>5. TypeInv'
  <2>1. run' \in [RunIds -> RunRow]
    BY <1>1, <1>3
  <2> QED
    BY <1>1, <2>1 DEF IInv, TypeInv
<1>6. Started'
  <2>1. \A c \in Procs : proc[c].run \in RunIds \union {0}
    BY DEF IInv, TypeInv, Caller
  <2>2. \A r \in RunIds : run[r].phase \in {"abandoned", "deleted"} => run'[r].phase = "deleted"
    BY <1>3
  <2> QED
    BY <1>1, <1>3, <2>1, <2>2 DEF IInv, Shape, Started, TypeInv
<1>7. DraftInv' /\ SnapshotInv' /\ SettledInv'
  BY <1>4 DEF DraftInv, SnapshotInv, SettledInv
<1>8. LocksWithin' /\ FailureInv' /\ SeenInv'
  BY <1>1, <1>4, OwnersDiffer DEF LocksWithin, FailureInv, SeenInv
<1> QED
  BY <1>5, <1>6, <1>7, <1>8 DEF IInv, Shape

LEMMA DiscardStagesStep ==
    ASSUME IInv, DiscardStages
    PROVE  IInv'
<1>1. /\ proc["driver"].st = "discard" /\ proc' = [proc EXCEPT !["driver"] = Idle]
      /\ run' = [run EXCEPT ![proc["driver"].run].cands = @ \ StageNotes]
      /\ UNCHANGED <<lock, seen, ready, todo, unsure>>
  BY DEF DiscardStages
<1>2. ProcStep("driver") /\ proc'["driver"].st = "idle" /\ "driver" \in Procs
      /\ proc["driver"].run \in RunIds
  BY <1>1, Leaves
<1>3. PICK r \in RunIds : r = proc["driver"].run
  BY <1>2
<1>4. run[r].phase \in {"abandoned", "deleted"}
  BY <1>1, <1>2, <1>3, OwnersDiffer DEF IInv, Shape, Started
<1>5. /\ run' \in [RunIds -> RunRow] /\ \A q \in RunIds \ {r} : run'[q] = run[q]
      /\ run'[r].phase = run[r].phase /\ run'[r].dup = run[r].dup
      /\ run'[r].cands = run[r].cands \ StageNotes
  BY <1>1, <1>3 DEF IInv, TypeInv, RunRow
<1>6. \A q \in RunIds : run'[q].phase = run[q].phase /\ run'[q].dup = run[q].dup
  BY <1>5
<1>7. \A c \in Procs : c # "driver" => proc'[c] = proc[c]
  BY <1>2 DEF ProcStep
<1>8. proc'["driver"].run = 0
  BY <1>2 DEF ProcStep
<1>9. TypeInv'
  BY <1>1, <1>2, <1>5, <1>7 DEF IInv, TypeInv, ProcStep
<1>10. Started'
  <2>1. \A c \in Procs : proc[c].run \in RunIds \union {0}
    BY DEF IInv, TypeInv, Caller
  <2>2. \A q \in RunIds : run[q].cands = {} => run'[q].cands = {}
    BY <1>5
  <2> QED
    BY <1>1, <1>2, <1>6, <1>7, <1>8, <2>1, <2>2 DEF IInv, Shape, Started, TypeInv
<1>11. DraftInv'
  <2>1. run[r].phase \notin Draft
    BY <1>4 DEF Draft
  <2> QED
    BY <1>2, <1>5, <1>6, <1>7, <2>1 DEF IInv, Shape, DraftInv, Acting
<1>12. SnapshotInv'
  <2> SUFFICES ASSUME NEW c \in Procs, NEW q \in RunIds, Acting(c)', proc'[c].run = q, Exists(q)'
               PROVE  SnapshotOf(c, q)'
    BY DEF SnapshotInv
  <2>1. proc'[c] = proc[c] /\ Acting(c) /\ proc[c].run = q
    BY <1>2, <1>7 DEF Acting
  <2>2. SnapshotOf(c, q)
    BY <1>6, <2>1 DEF IInv, Shape, SnapshotInv, Exists
  <2>3. CASE q # r
    BY <1>5, <2>1, <2>2, <2>3 DEF SnapshotOf
  <2>4. CASE q = r
    <3>1. run'[r].phase = "abandoned"
      BY <1>4, <1>6, <2>4 DEF Exists
    <3> QED
      BY <1>5, <2>1, <2>2, <2>4, <3>1 DEF SnapshotOf
  <2> QED
    BY <2>3, <2>4
<1>13. LocksWithin'
  BY <1>1, <1>5 DEF IInv, Shape, LocksWithin
<1>14. SettledInv'
  <2> SUFFICES ASSUME NEW q \in RunIds, Exists(q)', q \notin todo \union unsure
               PROVE  Follows(q)' \/ \E c \in Procs : WillSettle(c, q)'
    BY <1>1 DEF SettledInv
  <2>1. Follows(q) \/ \E c \in Procs : WillSettle(c, q)
    BY <1>6 DEF IInv, SettledInv, Exists
  <2>2. run'[q].cands \subseteq run[q].cands
    BY <1>5
  <2>3. CASE Follows(q)
    BY <1>1, <1>6, <2>2, <2>3 DEF Follows
  <2>4. ASSUME NEW c \in Procs, WillSettle(c, q)
        PROVE  WillSettle(c, q)'
    <3>1. c # "driver"
      BY <1>1, <2>4 DEF WillSettle, Acting
    <3> QED
      BY <1>6, <1>7, <2>2, <2>4, <3>1 DEF WillSettle, Acting
  <2> QED
    BY <2>1, <2>3, <2>4
<1>15. FailureInv'
  BY <1>1, <1>6 DEF IInv, FailureInv
<1>16. SeenInv'
  BY <1>1, <1>5, <1>6 DEF IInv, SeenInv, Exists
<1> QED
  BY <1>9, <1>10, <1>11, <1>12, <1>13, <1>14, <1>15, <1>16 DEF IInv, Shape

-----------------------------------------------------------------------------
(* The pass after a sync, ordinary sends, and a crash                      *)

LEMMA SyncPassStep ==
    ASSUME IInv, SyncPass
    PROVE  IInv'
<1>1. PICK done \in SUBSET {r \in Active : run[r].phase = "ready_to_migrate"}, S \in SUBSET Notes :
        /\ run' = [r \in RunIds |-> IF r \in done THEN [run[r] EXCEPT !.phase = "complete"]
                                    ELSE Recover(run)[r]]
        /\ S \in {seen, Notes, Notes \ StageNotes} /\ (seen = {} => S = {}) /\ seen' = S
  BY DEF SyncPass
<1>2. UNCHANGED <<lock, proc, unsure>> /\ ready' \in BOOLEAN /\ todo' = {r \in RunIds : Exists(r)}
  BY DEF SyncPass
<1>3. ASSUME NEW r \in RunIds
      PROVE  /\ run'[r] \in RunRow /\ run'[r].cands = run[r].cands
             /\ \/ run'[r] = run[r]
                \/ run[r].phase = "ready_to_migrate" /\ run'[r].phase = "complete"
                \/ run[r].phase = "failed_terminal" /\ run'[r].phase = "ready_to_migrate"
  <2>1. run[r] \in RunRow
    BY DEF IInv, TypeInv
  <2>2. CASE r \in done
    <3>1. run'[r] = [run[r] EXCEPT !.phase = "complete"] /\ run[r].phase = "ready_to_migrate"
      BY <1>1, <2>2
    <3> QED
      BY <2>1, <3>1 DEF RunRow, Phases, Terminal
  <2>3. CASE r \notin done /\ r \in DupFailure
    <3>1. run'[r] = [run[r] EXCEPT !.phase = "ready_to_migrate", !.dup = FALSE]
      BY <1>1, <2>3 DEF Recover
    <3>2. run[r].phase = "failed_terminal"
      BY <2>3 DEF DupFailure
    <3> QED
      BY <2>1, <3>1, <3>2 DEF RunRow, Phases
  <2>4. CASE r \notin done /\ r \notin DupFailure
    BY <1>1, <2>1, <2>4 DEF Recover
  <2> QED
    BY <2>2, <2>3, <2>4
<1>4. TypeInv'
  <2>1. run' \in [RunIds -> RunRow]
    BY <1>1, <1>3
  <2>2. seen' \subseteq Notes
    BY <1>1
  <2> QED
    BY <1>2, <2>1, <2>2 DEF IInv, TypeInv
<1>5. \A r \in RunIds : Exists(r)' <=> Exists(r)
  BY <1>3 DEF Exists
<1>6. Started'
  <2>1. \A c \in Procs : proc[c].run \in RunIds \union {0}
    BY DEF IInv, TypeInv, Caller
  <2>2. \A r \in RunIds : /\ run'[r].phase = "none" <=> run[r].phase = "none"
                          /\ run[r].phase \in {"abandoned", "deleted"} => run'[r] = run[r]
                          /\ run'[r].cands = run[r].cands
    BY <1>3
  <2>3. \A r \in todo' : run[r].phase # "none"
    BY <1>2 DEF Exists
  <2>4. todo' \subseteq RunIds
    BY <1>2
  <2> QED
    BY <1>2, <2>1, <2>2, <2>3, <2>4 DEF IInv, Shape, Started
<1>7. DraftInv'
  <2>1. \A r \in RunIds : run'[r].phase \in Draft => run'[r] = run[r]
    BY <1>3 DEF Draft
  <2> QED
    BY <1>2, <2>1 DEF IInv, Shape, DraftInv, Acting
<1>8. SnapshotInv'
  <2>1. \A r \in RunIds : /\ run[r].phase = "abandoned" => run'[r].phase = "abandoned"
                          /\ run'[r].cands = run[r].cands
    BY <1>3
  <2> QED
    BY <1>2, <1>5, <2>1 DEF IInv, Shape, SnapshotInv, SnapshotOf, Acting
<1>9. LocksWithin'
  <2>1. \A r \in RunIds : /\ run'[r].phase = "none" <=> run[r].phase = "none"
                          /\ run'[r].phase = "deleted" <=> run[r].phase = "deleted"
                          /\ run'[r].cands = run[r].cands
    BY <1>3
  <2> QED
    BY <1>2, <2>1 DEF IInv, Shape, LocksWithin
<1>10. SettledInv'
  BY <1>2, <1>5 DEF SettledInv
<1>11. FailureInv'
  <2>1. \A r \in RunIds : /\ run'[r].phase = "none" <=> run[r].phase = "none"
                          /\ run'[r].phase = "failed_terminal" => run'[r] = run[r]
    BY <1>3
  <2> QED
    BY <1>2, <2>1 DEF IInv, FailureInv
<1>12. SeenInv'
  <2>1. \A r \in RunIds : run'[r].cands = run[r].cands
    BY <1>3
  <2>2. CASE Notes \ StageNotes \subseteq seen
    BY <1>1, <2>2 DEF SeenInv
  <2>3. CASE seen = {} /\ \A r \in RunIds : Exists(r) => run[r].cands = {}
    BY <1>1, <1>5, <2>1, <2>3 DEF SeenInv
  <2> QED
    BY <2>2, <2>3 DEF IInv, SeenInv
<1> QED
  BY <1>4, <1>6, <1>7, <1>8, <1>9, <1>10, <1>11, <1>12 DEF IInv, Shape

LEMMA SyncTakeStep ==
    ASSUME IInv, NEW r \in RunIds, SyncTake(r)
    PROVE  IInv'
<1>1. /\ proc["sync"] = Idle /\ r \in todo /\ todo' = todo \ {r}
      /\ proc' = [proc EXCEPT !["sync"] = StartPass(r, {}, "")]
      /\ UNCHANGED <<run, lock, seen, ready, unsure>>
  BY DEF SyncTake
<1>2. "sync" \in Procs /\ proc["sync"].run = 0
  <2>1. Idle.run = 0
    BY DEF Idle
  <2> QED
    BY <1>1, <2>1 DEF Procs
<1>3. /\ proc' \in [Procs -> Caller] /\ \A c \in Procs \ {"sync"} : proc'[c] = proc[c]
      /\ proc'["sync"].run = r /\ proc'["sync"].st = "snapshot" /\ proc'["sync"].n = 0
      /\ proc'["sync"].then = ""
  BY <1>1, <1>2, Starts DEF IInv
<1>4. r # 0 /\ 0 < MaxPasses
  BY OwnersDiffer, RunLocksAssumption
<1>5. TypeInv'
  BY <1>1, <1>3, <1>4 DEF IInv, TypeInv
<1>6. Started'
  <2>1. run[r].phase # "none"
    BY <1>1 DEF IInv, Shape, Started
  <2>2. \A c \in Procs : c # "sync" => proc'[c] = proc[c]
    BY <1>3
  <2> QED
    BY <1>1, <1>3, <2>1, <2>2 DEF IInv, Shape, Started
<1>7. DraftInv' /\ SnapshotInv'
  <2>1. \A c \in Procs : Acting(c)' => proc'[c] = proc[c] /\ Acting(c)
    BY <1>3 DEF Acting
  <2>2. DraftInv'
    BY <1>1, <2>1 DEF IInv, Shape, DraftInv
  <2>3. SnapshotInv'
    <3> SUFFICES ASSUME NEW c \in Procs, NEW q \in RunIds, Acting(c)', proc'[c].run = q, Exists(q)
                 PROVE  SnapshotOf(c, q)'
      BY <1>1 DEF SnapshotInv, Exists
    <3>1. SnapshotOf(c, q)
      BY <2>1 DEF IInv, Shape, SnapshotInv
    <3> QED
      BY <1>1, <2>1, <3>1 DEF SnapshotOf
  <2> QED
    BY <2>2, <2>3
<1>8. LocksWithin' /\ FailureInv' /\ SeenInv'
  BY <1>1 DEF IInv, Shape, LocksWithin, FailureInv, SeenInv, Exists
<1>9. SettledInv'
  <2> SUFFICES ASSUME NEW q \in RunIds, Exists(q), q \notin todo' \union unsure
               PROVE  Follows(q)' \/ \E c \in Procs : WillSettle(c, q)'
    BY <1>1 DEF SettledInv, Exists
  <2>1. CASE q = r
    BY <1>2, <1>3, <2>1 DEF WillSettle
  <2>2. CASE q # r
    <3>1. Follows(q) \/ \E c \in Procs : WillSettle(c, q)
      BY <1>1, <2>2 DEF IInv, SettledInv
    <3>2. ~WillSettle("sync", q)
      BY <1>2, OwnersDiffer DEF WillSettle
    <3> QED
      BY <1>1, <1>3, <3>1, <3>2 DEF Follows, WillSettle, Acting
  <2> QED
    BY <2>1, <2>2
<1> QED
  BY <1>5, <1>6, <1>7, <1>8, <1>9 DEF IInv, Shape

\* A lock that changes hands between nobody and an ordinary send concerns no run.
LEMMA SendsKeep ==
    ASSUME IInv, UNCHANGED <<run, seen, ready, proc, todo, unsure>>,
           lock' \in [Notes -> {0, Other} \union RunIds],
           \A x \in Notes : lock'[x] = lock[x] \/ {lock[x], lock'[x]} \subseteq {0, Other},
           FailureInv'
    PROVE  IInv'
<1>1. \A r \in RunIds, x \in Notes : lock'[x] = r <=> lock[x] = r
  BY OwnersDiffer
<1>2. TypeInv'
  BY DEF IInv, TypeInv
<1>3. Started' /\ DraftInv' /\ SnapshotInv' /\ SeenInv'
  BY DEF IInv, Shape, Started, DraftInv, SnapshotInv, SnapshotOf, SeenInv, Acting, Exists
<1>4. LocksWithin'
  BY <1>1 DEF IInv, Shape, LocksWithin
<1>5. SettledInv'
  <2> SUFFICES ASSUME NEW q \in RunIds, Exists(q), q \notin todo \union unsure
               PROVE  Follows(q)' \/ \E c \in Procs : WillSettle(c, q)'
    BY DEF SettledInv, Exists
  <2>1. Follows(q) \/ \E c \in Procs : WillSettle(c, q)
    BY DEF IInv, SettledInv
  <2>2. run[q].cands \subseteq Notes
    BY DEF IInv, TypeInv, RunRow
  <2> QED
    BY <1>1, <2>1, <2>2 DEF Follows, WillSettle, Acting
<1> QED
  BY <1>2, <1>3, <1>4, <1>5 DEF IInv, Shape

LEMMA SendLockStep ==
    ASSUME IInv, NEW x \in Notes, SendLock(x)
    PROVE  IInv'
<1>1. /\ lock[x] = 0 /\ ~Reserved /\ lock' = [lock EXCEPT ![x] = Other]
      /\ UNCHANGED <<run, seen, ready, proc, todo, unsure>>
  BY DEF SendLock
<1>2. /\ lock' \in [Notes -> {0, Other} \union RunIds]
      /\ \A y \in Notes : lock'[y] = lock[y] \/ {lock[y], lock'[y]} \subseteq {0, Other}
  BY <1>1 DEF IInv, TypeInv
<1>3. FailureInv'
  <2>1. \A d \in RunIds : d \notin DupFailure
    BY <1>1 DEF Reserved
  <2> QED
    BY <1>1, <2>1 DEF FailureInv, DupFailure, Exists
<1> QED
  BY <1>1, <1>2, <1>3, SendsKeep

LEMMA SendUnlockStep ==
    ASSUME IInv, NEW x \in Notes, SendUnlock(x)
    PROVE  IInv'
<1>1. /\ lock[x] = Other /\ lock' = [lock EXCEPT ![x] = 0]
      /\ UNCHANGED <<run, seen, ready, proc, todo, unsure>>
  BY DEF SendUnlock
<1>2. /\ lock' \in [Notes -> {0, Other} \union RunIds]
      /\ \A y \in Notes : lock'[y] = lock[y] \/ {lock[y], lock'[y]} \subseteq {0, Other}
  BY <1>1 DEF IInv, TypeInv
<1>3. FailureInv'
  <2>1. \A y \in Notes : lock'[y] = Other => lock[y] = Other
    BY <1>1, OwnersDiffer DEF IInv, TypeInv
  <2> QED
    BY <1>1, <2>1 DEF IInv, FailureInv
<1> QED
  BY <1>1, <1>2, <1>3, SendsKeep

LEMMA CrashStep ==
    ASSUME IInv, Crash
    PROVE  IInv'
<1>1. /\ unsure' = unsure \union {proc[p].run : p \in {q \in Procs : proc[q] # Idle}} \union todo
      /\ proc' = [p \in Procs |-> Idle] /\ todo' = {} /\ ready' \in BOOLEAN
      /\ UNCHANGED <<run, lock, seen>>
  BY DEF Crash
<1>2. Idle \in Caller /\ Idle.run = 0 /\ Idle.st = "idle" /\ Idle.then = ""
  BY NoPass DEF Idle, Caller, Steps
<1>3. \A p \in Procs : proc'[p].run = 0 /\ proc'[p].st = "idle" /\ proc'[p].then = ""
  BY <1>1, <1>2
<1>4. TypeInv'
  <2>1. \A p \in Procs : proc[p].run \in RunIds \union {0}
    BY DEF IInv, TypeInv, Caller
  <2>2. unsure' \subseteq RunIds \union {0}
    BY <1>1, <2>1 DEF IInv, TypeInv
  <2>3. proc' \in [Procs -> Caller]
    BY <1>1, <1>2
  <2> QED
    BY <1>1, <1>3, <2>2, <2>3 DEF IInv, TypeInv
<1>5. Started' /\ DraftInv' /\ SnapshotInv'
  BY <1>1, <1>3 DEF IInv, Shape, Started, DraftInv, SnapshotInv, Acting
<1>6. LocksWithin' /\ FailureInv' /\ SeenInv'
  BY <1>1 DEF IInv, Shape, LocksWithin, FailureInv, SeenInv, Exists
<1>7. SettledInv'
  <2> SUFFICES ASSUME NEW q \in RunIds, Exists(q), q \notin unsure'
               PROVE  Follows(q)
    BY <1>1 DEF SettledInv, Follows, Exists
  <2>1. q \notin todo \union unsure
    BY <1>1
  <2>2. ASSUME NEW c \in Procs, WillSettle(c, q)
        PROVE  FALSE
    <3>1. proc[c].run = q /\ proc[c] # Idle
      BY <1>2, <2>2, OwnersDiffer DEF WillSettle
    <3> QED
      BY <1>1, <3>1
  <2> QED
    BY <2>1, <2>2 DEF IInv, SettledInv
<1> QED
  BY <1>4, <1>5, <1>6, <1>7 DEF IInv, Shape

-----------------------------------------------------------------------------
LEMMA NextInv ==
    ASSUME IInv, [Next]_vars
    PROVE  IInv'
<1>1. ASSUME NEW r \in RunIds,
             CreateRun(r) \/ CreateDraft(r) \/ FinalizeDraft(r) \/ Retire(r) \/ Abandon(r) \/ SyncTake(r)
      PROVE  IInv'
  BY <1>1, CreateRunStep, CreateDraftStep, FinalizeDraftStep, RetireStep, AbandonStep, SyncTakeStep
<1>2. ASSUME NEW p \in Procs,
             Snapshot(p) \/ ApplyRelease(p) \/ ApplyEnsure(p) \/ Recheck(p) \/ Fault(p)
      PROVE  IInv'
  BY <1>2, SnapshotStep, ApplyReleaseStep, ApplyEnsureStep, RecheckStep, FaultStep
<1>3. CASE CheckNoRun \/ Undo \/ DeleteRun \/ DiscardStages \/ DeleteAccount \/ SyncPass \/ Crash
  BY <1>3, CheckNoRunStep, UndoStep, DeleteRunStep, DiscardStagesStep, DeleteAccountStep,
     SyncPassStep, CrashStep
<1>4. ASSUME NEW x \in Notes, SendLock(x) \/ SendUnlock(x)
      PROVE  IInv'
  BY <1>4, SendLockStep, SendUnlockStep
<1>5. CASE UNCHANGED vars
  BY <1>5 DEF vars, IInv, TypeInv, Shape, Started, DraftInv, SnapshotInv, SnapshotOf, LocksWithin,
              SettledInv, Follows, WillSettle, FailureInv, SeenInv, Acting, Exists
<1> QED
  BY <1>1, <1>2, <1>3, <1>4, <1>5 DEF Next

LEMMA InvHolds == Spec => []IInv
<1>1. Init => IInv
  BY InitInv
<1>2. IInv /\ [Next]_vars => IInv'
  BY NextInv
<1> QED
  BY <1>1, <1>2, PTL DEF Spec

(* The rows, locks and callers keep their types, and no reconciliation makes
   more passes than the code allows
   (migration.rs reconcile_wallet_locks_for_run_inner). *)
THEOREM TypesAreKept == Spec => []TypeOK
<1>1. IInv => TypeOK
  BY DEF IInv, TypeInv, TypeOK, RunRow, Caller
<1> QED
  BY <1>1, InvHolds, PTL

(* What holds of every run nobody is at work on, also when its preparation has
   stages: a live one holds the lock of each of its visible notes; one that is
   over holds no lock but, perhaps, that of an input of a discarded stage, which
   a pass that crossed the discard may have taken
   (migration.rs reconcile_wallet_locks_for_run_inner, abandon_run). *)
LocksFollowButStages == \A r \in RunIds : Exists(r) /\ ~Busy(r) => Follows(r)

THEOREM LocksFollowButForStages == Spec => []LocksFollowButStages
<1>1. IInv => LocksFollowButStages
  <2> SUFFICES ASSUME IInv, NEW r \in RunIds, Exists(r), ~Busy(r)
               PROVE  Follows(r)
    BY DEF LocksFollowButStages
  <2>1. r \notin todo \union unsure /\ \A p \in Procs : proc[p].run # r
    BY DEF Busy
  <2> QED
    BY <2>1 DEF IInv, SettledInv, WillSettle
<1> QED
  BY <1>1, InvHolds, PTL

(* Without stages the locks say exactly what the rows say, and no ordinary send
   holds a note of a live run, or of a failed one that the next sync brings
   back, however the driver, the pass after a sync, sends, an account deletion,
   failing calls and crashes cross each other. *)
THEOREM RowsAndLocksAgree ==
    ASSUME StageNotes = {}
    PROVE  Spec => []LocksAreRight
<1>1. IInv => LocksAreRight
  <2> SUFFICES ASSUME IInv
               PROVE  LocksAreRight
    OBVIOUS
  <2>1. \A r \in RunIds : Exists(r) /\ ~Busy(r) => Follows(r)
    BY DEF IInv, SettledInv, WillSettle, Busy
  <2>2. LocksFollowRow
    BY <2>1 DEF LocksFollowRow, Follows
  <2>3. SendsKeepOff
    <3>1. ASSUME NEW r \in Active, ~Busy(r), NEW x \in run[r].cands
          PROVE  lock[x] # Other
      <4>1. r \in RunIds /\ Exists(r) /\ ~Releases(run[r].phase)
        BY <3>1 DEF Active, Releases
      <4>2. run[r].cands \subseteq Notes
        BY <4>1 DEF IInv, TypeInv, RunRow
      <4>3. x \in seen
        BY <3>1, <4>1, <4>2 DEF IInv, SeenInv
      <4>4. lock[x] = r
        BY <2>1, <3>1, <4>1, <4>3 DEF Follows
      <4> QED
        BY <4>1, <4>4, OwnersDiffer
    <3>2. ASSUME NEW d \in DupFailure, \A q \in RunIds : q > d => run[q].phase = "none",
                 NEW x \in run[d].cands
          PROVE  lock[x] # Other
      <4>1. d \in RunIds /\ run[d].phase = "failed_terminal" /\ run[d].dup
        BY <3>2 DEF DupFailure
      <4>2. x \in Notes
        BY <3>2, <4>1 DEF IInv, TypeInv, RunRow
      <4> QED
        BY <3>2, <4>1, <4>2 DEF IInv, FailureInv
    <3> QED
      BY <3>1, <3>2 DEF SendsKeepOff
  <2> QED
    BY <2>2, <2>3 DEF LocksAreRight
<1> QED
  BY <1>1, InvHolds, PTL
=============================================================================
