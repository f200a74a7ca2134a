--------------------------- MODULE MigrationPlan ---------------------------
(***************************************************************************)
(* How a migration is planned, approved and rebuilt (split_plan.rs): the   *)
(* loop that adds one canonical denomination after the other, each with a  *)
(* random refinement, as long as the preparation planner can fund them;    *)
(* the approved denominations rebuilt later, when the wallet may hold      *)
(* other notes; and the wallet the finished run leaves behind.             *)
(*                                                                         *)
(* The first half is the native preparation planner (preparation_plan.rs): *)
(* which transactions, in which layers, turn the wallet's notes into the   *)
(* funding notes of a migration.  A note is [at, v]; at is <<layer,        *)
(* transaction, output>>, and layer 0 is the wallet, whose transaction is  *)
(* the position of the note in the list the planner was given.  An output  *)
(* is [kind, v].                                                           *)
(***************************************************************************)
EXTENDS Integers, Sequences, SequencesExt

CONSTANTS Actions,     \* PREP_TX_ACTIONS, 16 in the code
          PrepFee,     \* the ZIP 317 fee of one padded preparation transaction
          MinDenom,    \* ZIP318_MAX_RESIDUAL_VALUE_ZATOSHI
          MaxDenom,    \* ZIP318_MAX_MIGRATION_DENOMINATION_ZATOSHI
          MigFee,      \* the fee of one crossing transfer
          NoteValues,  \* the values notes may have
          MaxNotes     \* the most notes in the wallet

-----------------------------------------------------------------------------
(* The preparation planner *)

FundingOutputsPerTx == Actions - 2
ConsolidationInputsPerTx == Actions - 1
Insufficient == [ok |-> FALSE]

SumOf(s) == FoldLeft(LAMBDA a, b : a + b, 0, s)
Value(notes) == FoldLeft(LAMBDA a, n : a + n.v, 0, notes)
Descending(s) == SortSeq(s, LAMBDA a, b : a > b)
LargestFirst(notes) == SortSeq(notes, LAMBDA a, b : a.v > b.v)
WalletNotes(values) == [i \in DOMAIN values |-> [at |-> <<0, i, 0>>, v |-> values[i]]]

\* A wallet note equal to a funding value is that funding note: no transaction, no fee.
ExtractDirectFunding(values, funding) ==
    FoldLeft(LAMBDA a, f :
               LET same == {i \in DOMAIN values \ a.used : values[i] = f}
                   i == CHOOSE j \in same : \A k \in same : j <= k
               IN  IF same = {} THEN [a EXCEPT !.rest = Append(@, f)]
                   ELSE [a EXCEPT !.used = @ \cup {i}, !.direct = Append(@, [at |-> <<0, i, 0>>, v |-> f])],
             [used |-> {}, direct |-> <<>>, rest |-> <<>>], Descending(funding))

UnusedNotes(values, used) == SelectSeq(WalletNotes(values), LAMBDA n : n.at[2] \notin used)

\* Batches of at most the input limit, and never a batch of one.
ConsolidationBatchSizes(count) ==
    LET max == ConsolidationInputsPerTx
        sizes[n \in 0..count] ==
            IF n = 0 THEN <<>>
            ELSE LET take == IF n <= max THEN n ELSE IF n - max = 1 THEN max - 1 ELSE max
                 IN  <<take>> \o sizes[n - take]
    IN  sizes[count]

\* Appends one transaction per batch to txs; a batch that cannot pay the fee is left over.
Consolidate(pool, layer, txs, next) ==
    IF Len(pool) < 2 THEN [txs |-> txs, next |-> next, left |-> pool]
    ELSE LET Step(a, size) ==
                 LET batch == SubSeq(a.pool, 1, size)
                     out   == Value(batch) - PrepFee
                     rest  == SubSeq(a.pool, size + 1, Len(a.pool))
                 IN  IF out <= 0 THEN [a EXCEPT !.pool = rest, !.left = @ \o batch]
                     ELSE [a EXCEPT
                             !.pool = rest,
                             !.next = Append(@, [at |-> <<layer, Len(a.txs) + 1, 1>>, v |-> out]),
                             !.txs  = Append(@, [ins |-> batch,
                                                 outs |-> <<[kind |-> "feeder", v |-> out]>>])]
             end == FoldLeft(Step, [pool |-> LargestFirst(pool), txs |-> txs, next |-> next,
                                    left |-> <<>>], ConsolidationBatchSizes(Len(pool)))
         IN  [txs |-> end.txs, next |-> end.next, left |-> end.left]

SpentPlaces(layers) ==
    UNION {UNION {{layers[l][t].ins[i].at : i \in DOMAIN layers[l][t].ins} : t \in DOMAIN layers[l]} :
           l \in DOMAIN layers}

\* Every output of every layer, with its place, in the order of the code's nested loops.
Outputs(layers) ==
    FlattenSeq([l \in DOMAIN layers |->
        FlattenSeq([t \in DOMAIN layers[l] |->
            [o \in DOMAIN layers[l][t].outs |->
                [at |-> <<l, t, o>>, v |-> layers[l][t].outs[o].v, kind |-> layers[l][t].outs[o].kind]]])])

UnconsumedFeeders(layers) ==
    LET spent == SpentPlaces(layers)
        free  == SelectSeq(Outputs(layers), LAMBDA n : n.kind = "feeder" /\ n.at \notin spent)
    IN  [i \in DOMAIN free |-> [at |-> free[i].at, v |-> free[i].v]]

\* A feeder nobody spends is change.
RelabelChange(layers) ==
    LET spent == SpentPlaces(layers)
    IN  [l \in DOMAIN layers |-> [t \in DOMAIN layers[l] |-> [layers[l][t] EXCEPT !.outs =
            [o \in DOMAIN @ |-> IF @[o].kind = "feeder" /\ <<l, t, o>> \notin spent
                                THEN [@[o] EXCEPT !.kind = "change"] ELSE @[o]]]]]

SubtreeCapacity(depth) == FundingOutputsPerTx ^ depth

SplitDepth(n) == IF n = 0 THEN 0
                 ELSE CHOOSE d \in 1..n : SubtreeCapacity(d) >= n /\ \A e \in 1..(d - 1) : SubtreeCapacity(e) < n

EvenGroupSizes(len, g) == [i \in 1..g |-> (len \div g) + (IF i <= len % g THEN 1 ELSE 0)]

Cut(targets, sizes) ==
    LET start(i) == SumOf(SubSeq(sizes, 1, i - 1))
    IN  [i \in DOMAIN sizes |-> SubSeq(targets, start(i) + 1, start(i) + sizes[i])]

\* The targets of each child of an internal node of the balanced split tree.
ChildTargets(targets) ==
    LET below == SubtreeCapacity(SplitDepth(Len(targets)) - 1)
    IN  Cut(targets, EvenGroupSizes(Len(targets), (Len(targets) + below - 1) \div below))

\* faulty variant: the fees of the child transactions are forgotten
FaultySubtreeCost(targets) == SumOf(targets) + PrepFee

RECURSIVE SubtreeCost(_)
SubtreeCost(targets) ==
    IF SplitDepth(Len(targets)) <= 1 THEN SumOf(targets) + PrepFee
    ELSE LET Costs(groups) == [i \in DOMAIN groups |-> SubtreeCost(groups[i])]
         IN  PrepFee + SumOf(Costs(ChildTargets(targets)))

Mints(kind, values) == [i \in DOMAIN values |-> [kind |-> kind, v |-> values[i]]]
WithRest(pays, rest) == IF rest > 0 THEN Append(pays, [kind |-> "feeder", v |-> rest]) ELSE pays

\* One transaction that pays from source, in the open layer.
Pay(source, pays, layer, open) ==
    [open EXCEPT ![layer] = Append(@, [ins |-> <<source>>,
                                       outs |-> WithRest(pays, source.v - PrepFee - Value(pays))])]

RECURSIVE BuildSplit(_, _, _, _)
BuildSplit(source, targets, layer, layers) ==
    LET Build(open, groups) ==
          IF groups = <<>> THEN Pay(source, Mints("funding", targets), layer, open)
          ELSE LET costs == [i \in DOMAIN groups |-> SubtreeCost(groups[i])]
               IN  FoldLeftDomain(LAMBDA ls, i : BuildSplit([at |-> <<layer, Len(open[layer]) + 1, i>>, v |-> costs[i]],
                                                            groups[i], layer + 1, ls),
                                  Pay(source, Mints("feeder", costs), layer, open), groups)
    IN  Build(IF Len(layers) < layer THEN Append(layers, <<>>) ELSE layers,
              IF SplitDepth(Len(targets)) <= 1 THEN <<>> ELSE ChildTargets(targets))

\* The funding one note mints: the largest values that still fit, up to the output limit.
AssignFunding(remaining, budget) ==
    FoldLeft(LAMBDA a, f : IF Len(a.got) < FundingOutputsPerTx /\ SumOf(a.got) + f <= budget
                           THEN [a EXCEPT !.got = Append(@, f)]
                           ELSE [a EXCEPT !.rest = Append(@, f)],
             [got |-> <<>>, rest |-> <<>>], remaining)

\* One layer of the greedy: notes largest first; a note too small for anything is set aside.
FundLayer(current, remaining, layer) ==
    LET Fund(a, n, g) ==
          LET left == n.v - PrepFee - SumOf(g.got)
              note == [at |-> <<layer, Len(a.txs) + 1, Len(g.got) + 1>>, v |-> left]
          IN  [a EXCEPT !.rem = g.rest,
                        !.txs = Append(@, [ins |-> <<n>>, outs |-> WithRest(Mints("funding", g.got), left)]),
                        !.next = IF left > 0 THEN Append(@, note) ELSE @]
        Step(a, n) ==
          IF a.rem = <<>> THEN a
          ELSE IF n.v <= PrepFee \/ n.v - PrepFee < Last(a.rem)
               THEN [a EXCEPT !.small = Append(@, n)]
          ELSE Fund(a, n, AssignFunding(a.rem, n.v - PrepFee))
    IN  FoldLeft(Step, [rem |-> remaining, txs |-> <<>>, next |-> <<>>, small |-> <<>>],
                 LargestFirst(current))

RECURSIVE GreedyLayers(_, _, _)
GreedyLayers(layers, current, remaining) ==
    IF remaining = <<>> THEN [ok |-> TRUE, layers |-> layers]
    ELSE IF current = <<>> THEN Insufficient
    ELSE LET Go(c, rem) == IF c.txs = <<>> THEN Insufficient
                           ELSE GreedyLayers(Append(layers, c.txs), c.next, rem)
             Merge(f) == Go(Consolidate(f.small, Len(layers) + 1, f.txs, f.next), f.rem)
         IN  Merge(FundLayer(current, remaining, Len(layers) + 1))

\* faulty variant: the feeders no layer spends are all left as change
FaultyMergeResidual(layers) == layers

RECURSIVE MergeResidual(_)
MergeResidual(layers) ==
    LET Go(c) == IF c.txs = <<>> THEN layers ELSE MergeResidual(Append(layers, c.txs))
        Merge(pool) == IF Len(pool) <= 1 THEN layers ELSE Go(Consolidate(pool, Len(layers) + 1, <<>>, <<>>))
    IN  Merge(UnconsumedFeeders(layers))

Layered(layers, direct) == [ok |-> TRUE, layers |-> layers, direct |-> direct]

\* One note that pays for everything is split; otherwise layer by layer.
GreedyStart(free, rest) ==
    LET Start(big) == IF big.v >= SubtreeCost(rest)
                      THEN [ok |-> TRUE, layers |-> BuildSplit(big, rest, 1, <<>>)]
                      ELSE GreedyLayers(<<>>, free, rest)
    IN  IF free = <<>> THEN GreedyLayers(<<>>, free, rest)
        ELSE Start(Last(SortSeq(free, LAMBDA a, b : a.v < b.v)))

PlanPreparationGreedy(values, funding) ==
    LET Settle(g, direct) == IF g.ok THEN Layered(RelabelChange(MergeResidual(g.layers)), direct) ELSE Insufficient
        Plan(d) == IF d.rest = <<>> THEN Layered(<<>>, d.direct)
                   ELSE Settle(GreedyStart(UnusedNotes(values, d.used), d.rest), d.direct)
    IN  Plan(ExtractDirectFunding(values, funding))

RECURSIVE ConsolidateAll(_, _)
ConsolidateAll(layers, current) ==
    IF Len(current) <= 1 THEN [ok |-> TRUE, layers |-> layers, source |-> current[1]]
    ELSE LET Go(c) == IF c.txs = <<>> THEN Insufficient
                      ELSE ConsolidateAll(Append(layers, c.txs), c.next \o c.left)
         IN  Go(Consolidate(current, Len(layers) + 1, <<>>, <<>>))

\* The fallback: everything but the exact matches into one feeder, then the balanced split.
PlanPreparationViaConsolidation(values, funding) ==
    LET Split(c, d) ==
          IF ~c.ok THEN Insufficient
          ELSE IF c.source.v < SubtreeCost(d.rest) THEN Insufficient
          ELSE Layered(RelabelChange(BuildSplit(c.source, d.rest, Len(c.layers) + 1, c.layers)), d.direct)
        Plan(d, free) ==
          IF d.rest = <<>> THEN Layered(<<>>, d.direct)
          ELSE IF free = <<>> THEN Insufficient
          ELSE Split(ConsolidateAll(<<>>, free), d)
        From(d) == Plan(d, UnusedNotes(values, d.used))
    IN  From(ExtractDirectFunding(values, funding))

FirstPossible(a, b) == IF a.ok THEN a ELSE b

PlanPreparation(values, funding) ==
    FirstPossible(PlanPreparationGreedy(values, funding), PlanPreparationViaConsolidation(values, funding))

TransactionCount(plan) == SumOf([l \in DOMAIN plan.layers |-> Len(plan.layers[l])])

-----------------------------------------------------------------------------
(* The plan of a migration *)

VARIABLES notes,      \* the values of the spendable Orchard notes, in the wallet's order
          phase,      \* planning, planned, approved, rebuilt, stale, done, nothing, broken
          crossings,  \* the denominations accepted so far
          limit,      \* the planner's "affordable": what the next denomination may be at most
          plan        \* the finished plan: targets, preparation, change
vars == <<notes, phase, crossings, limit, plan>>

NoPlan == [targets |-> <<>>]

Denominations == {m * t : m \in {1, 2, 5}, t \in {MinDenom * 10 ^ k : k \in 0..3}} \cap (0..MaxDenom)

\* faulty variant: whatever is left is taken as it is
FaultyLargest(v) == IF v < MinDenom THEN 0 ELSE v

\* 0 stands for "none"
LargestDenomination(v) ==
    IF v < MinDenom THEN 0
    ELSE CHOOSE d \in Denominations : d <= v /\ \A e \in Denominations : e <= v => e <= d

\* ---------------------------------------------------------------- planning_context
PositiveIndices(ns) == SelectSeq([i \in DOMAIN ns |-> i], LAMBDA i : ns[i] > 0)
Available(ns) == SelectSeq(ns, LAMBDA v : v > 0)
Funding(values) == [i \in DOMAIN values |-> values[i] + MigFee]
CommittedValue(values, prep) == SumOf(Funding(values)) + PrepFee * TransactionCount(prep)

\* ---------------------------------------------------------------- refinement
SplitRule(d) ==
    CASE d = MaxDenom         -> <<MaxDenom \div 2, MaxDenom \div 2>>
      [] d = MaxDenom \div 2  -> <<MaxDenom \div 5, MaxDenom \div 5, MaxDenom \div 10>>
      [] d = MaxDenom \div 5  -> <<MaxDenom \div 10, MaxDenom \div 10>>
      [] OTHER                -> <<>>

\* Every tree the random gates can draw for a denomination.
RECURSIVE Refinements(_)
Refinements(d) ==
    LET c == SplitRule(d)
        leaf == [v |-> d, children |-> <<>>]
        Below == [1..Len(c) -> UNION {Refinements(c[i]) : i \in DOMAIN c}]
    IN  {leaf} \cup (IF c = <<>> THEN {}
                     ELSE {[v |-> d, children |-> k] : k \in {f \in Below : \A i \in DOMAIN c : f[i].v = c[i]}})

\* Every pruning of a drawn tree, as the sorted denominations of its leaves.
RECURSIVE RefinementCandidates(_)
RefinementCandidates(tree) ==
    {<<tree.v>>} \cup
    (IF tree.children = <<>> THEN {}
     ELSE FoldLeft(LAMBDA acc, c : {Descending(a \o b) : a \in acc, b \in RefinementCandidates(c)},
                   {<<>>}, tree.children))

\* The order in which the planner tries them: most split first, then by value.
Before(a, b) ==
    \/ Len(a) > Len(b)
    \/ /\ Len(a) = Len(b)
       /\ \E i \in DOMAIN a : a[i] < b[i] /\ \A j \in 1..(i - 1) : a[j] = b[j]

\* ---------------------------------------------------------------- the planner's questions
Preparation(ns, values) == PlanPreparation(Available(ns), Funding(values))

\* preparation_for_crossings: the denominations can be funded, fees included.
Affords(ns, values, prep) == prep.ok /\ CommittedValue(values, prep) <= SumOf(ns)
Fundable(ns, values) == \E prep \in {Preparation(ns, values)} : Affords(ns, values, prep)

Affordable(ns, values, prep) ==
    LET Most(budget) == IF budget < MinDenom + MigFee THEN 0
                        ELSE IF budget - MigFee > MaxDenom THEN MaxDenom ELSE budget - MigFee
    IN  Most(SumOf(ns) - CommittedValue(values, prep))

\* faulty variant: only the largest denomination is tried
FaultyCanAppend(ns, values, prep) ==
    LET d == LargestDenomination(Affordable(ns, values, prep)) IN d # 0 /\ Fundable(ns, Append(values, d))

CanAppendCanonicalDenomination(ns, values, prep) ==
    \E d \in Denominations : d <= Affordable(ns, values, prep) /\ Fundable(ns, Append(values, d))

\* ---------------------------------------------------------------- finish_plan, translate_preparation_plan
StageTransactions(prep) == FlattenSeq(prep.layers)
FundingOutputs(prep) == SelectSeq(Outputs(prep.layers), LAMBDA n : n.kind = "funding")
ChangeOutputs(prep) == SelectSeq(Outputs(prep.layers), LAMBDA n : n.kind = "change")

\* The parts go to the minted notes by value: the exact matches first, then stage by stage.
TakePartIndexes(prep, funding) ==
    FoldLeft(LAMBDA a, n :
               LET left == {i \in DOMAIN funding \ a.taken : funding[i] = n.v}
                   i == CHOOSE j \in left : \A k \in left : j <= k
               IN  IF left = {} THEN [a EXCEPT !.ok = FALSE]
                   ELSE [a EXCEPT !.taken = @ \cup {i}, !.part = Append(@, [place |-> n.at, part |-> i])],
             [ok |-> TRUE, taken |-> {}, part |-> <<>>], prep.direct \o FundingOutputs(prep))

\* What translate_preparation_plan refuses.
Translates(prep, funding) ==
    /\ \A t \in {TakePartIndexes(prep, funding)} : t.ok /\ t.taken = DOMAIN funding
    /\ \A tx \in ToSet(StageTransactions(prep)) :
          /\ Len(tx.ins) + Len(tx.outs) <= Actions
          /\ Value(tx.ins) = Value(tx.outs) + PrepFee

\* Notes are named by their index in the wallet's list, not in the filtered one.
WalletPlace(ns, at) == IF at[1] = 0 THEN <<0, PositiveIndices(ns)[at[2]], 0>> ELSE at

FinishedPlan(ns, values, prep) ==
    [targets |-> Descending(values), prep |-> prep,
     change |-> SumOf(ns) - CommittedValue(values, prep),
     parts  |-> {[place |-> WalletPlace(ns, p.place), part |-> p.part] :
                    p \in ToSet(TakePartIndexes(prep, Funding(Descending(values))).part)},
     spent  |-> {WalletPlace(ns, p) : p \in SpentPlaces(prep.layers)}]

EmptyPreparation == [ok |-> TRUE, layers |-> <<>>, direct |-> <<>>]
PreparationOrEmpty(ns, values) == IF values = <<>> THEN EmptyPreparation ELSE Preparation(ns, values)

\* ---------------------------------------------------------------- actions
Wallets == {s \in BoundedSeq(NoteValues, MaxNotes) : IsSorted(s, <=)}

Init == /\ notes \in Wallets
        /\ phase = "planning"
        /\ crossings = <<>>
        /\ limit = IF Available(notes) = <<>> THEN 0 ELSE Affordable(notes, <<>>, EmptyPreparation)
        /\ plan = NoPlan

\* A refinement of the next denomination, with the preparation it would need.
Candidate(c) == [values |-> c, prep |-> Preparation(notes, crossings \o c)]

\* faulty variant: the loop ends at the first denomination that cannot be funded
FaultyTryDenomination ==
    /\ phase = "planning" /\ limit >= MinDenom
    /\ LET d == LargestDenomination(limit)
       IN  \E tree \in Refinements(d) :
           \E fits \in {{f \in {Candidate(c) : c \in RefinementCandidates(tree)} :
                             Affords(notes, crossings \o f.values, f.prep)}} :
             IF fits # {}
             THEN \E best \in fits :
                    /\ \A o \in fits : o = best \/ Before(best.values, o.values)
                    /\ crossings' = crossings \o best.values
                    /\ limit' = Affordable(notes, crossings', best.prep)
             ELSE /\ limit' = 0
                  /\ UNCHANGED crossings
    /\ UNCHANGED <<notes, phase, plan>>

\* One turn of the inner loop of plan_padded_denominations_with_refiner.
TryDenomination ==
    /\ phase = "planning" /\ limit >= MinDenom
    /\ LET d == LargestDenomination(limit)
       IN  \E tree \in Refinements(d) :
           \E fits \in {{f \in {Candidate(c) : c \in RefinementCandidates(tree)} :
                             Affords(notes, crossings \o f.values, f.prep)}} :
             IF fits # {}
             THEN \E best \in fits :
                    /\ \A o \in fits : o = best \/ Before(best.values, o.values)
                    /\ crossings' = crossings \o best.values
                    /\ limit' = Affordable(notes, crossings', best.prep)
             ELSE /\ limit' = d - 1
                  /\ UNCHANGED crossings
    /\ UNCHANGED <<notes, phase, plan>>

\* finish_plan of a fresh or a rebuilt list of denominations
Finish(values, prep, good) ==
    IF Translates(prep, Funding(Descending(values)))
    THEN phase' = good /\ plan' = FinishedPlan(notes, values, prep)
    ELSE phase' = "broken" /\ UNCHANGED plan

FinishPlan ==
    /\ phase = "planning" /\ limit < MinDenom
    /\ IF crossings = <<>> THEN phase' = "nothing" /\ UNCHANGED plan
       ELSE \E prep \in {Preparation(notes, crossings)} : Finish(crossings, prep, "planned")
    /\ UNCHANGED <<notes, crossings, limit>>

\* The user approves: what is kept of the plan is its list of denominations.
Approve == /\ phase = "planned"
           /\ phase' = "approved"
           /\ crossings' = plan.targets
           /\ UNCHANGED <<notes, limit, plan>>

\* Between the approval and the rebuilding a note arrives or is spent.
WalletChanges ==
    /\ phase = "approved" /\ plan # NoPlan
    /\ \/ \E v \in NoteValues : Len(notes) < MaxNotes /\ notes' = Append(notes, v)
       \/ \E i \in DOMAIN notes : notes' = RemoveAt(notes, i)
    /\ plan' = NoPlan
    /\ UNCHANGED <<phase, crossings, limit>>

\* plan_padded_denominations_for_targets
Rebuild ==
    /\ phase = "approved"
    /\ \E prep \in {Preparation(notes, crossings)} :
          IF \/ Available(notes) = <<>>
             \/ ~Affords(notes, crossings, prep)
             \/ CanAppendCanonicalDenomination(notes, crossings, prep)
          THEN phase' = "stale" /\ UNCHANGED plan
          ELSE Finish(crossings, prep, "rebuilt")
    /\ UNCHANGED <<notes, crossings, limit>>

\* The wallet after the run: what no transaction spent, and the change.
RunEnds ==
    /\ phase = "rebuilt"
    /\ phase' = "done"
    /\ LET used == {p[2] : p \in {x \in plan.spent \cup {r.place : r \in plan.parts} : x[1] = 0}}
           kept == SelectSeq([i \in DOMAIN notes |-> i], LAMBDA i : i \notin used)
           back == ChangeOutputs(plan.prep)
       IN  notes' = [i \in DOMAIN kept |-> notes[kept[i]]] \o [i \in DOMAIN back |-> back[i].v]
    /\ UNCHANGED <<crossings, limit, plan>>

Next == TryDenomination \/ FinishPlan \/ Approve \/ WalletChanges \/ Rebuild \/ RunEnds

Spec == Init /\ [][Next]_vars

\* ---------------------------------------------------------------- properties
Phases == {"planning", "planned", "approved", "rebuilt", "stale", "done", "nothing", "broken"}

\* The variables keep their types.
TypeOK == /\ notes \in Seq(Nat) /\ phase \in Phases
          /\ crossings \in Seq(Denominations) /\ limit \in 0..MaxDenom

\* The planner's own result never fails the checks of translate_preparation_plan, and the plan can
\* be carried out: every transaction of a layer spends notes of the wallet or of an earlier layer,
\* of the value it counts on, no note is spent twice or both spent and used as it is, every part
\* gets one note, and the change the user is told is what the run leaves.
PlanCanBeCarriedOut ==
    /\ phase # "broken"
    /\ phase \in {"planned", "rebuilt"} =>
         LET prep  == plan.prep
             avail == Available(notes)
             outs  == Outputs(prep.layers)
             spends == FlattenSeq([i \in DOMAIN StageTransactions(prep) |-> StageTransactions(prep)[i].ins])
             uses  == spends \o prep.direct
         IN  /\ \A i, j \in DOMAIN uses : uses[i].at = uses[j].at => i = j
             /\ \A i \in DOMAIN uses : uses[i].at[1] = 0 => avail[uses[i].at[2]] = uses[i].v
             /\ \A l \in DOMAIN prep.layers : \A t \in DOMAIN prep.layers[l] :
                   \A i \in DOMAIN prep.layers[l][t].ins :
                      LET n == prep.layers[l][t].ins[i]
                      IN  n.at[1] < l /\ (n.at[1] > 0 => \E o \in DOMAIN outs :
                              outs[o].at = n.at /\ outs[o].v = n.v /\ outs[o].kind = "feeder")
             /\ Len(prep.direct) + Len(FundingOutputs(prep)) = Len(plan.targets)
             /\ plan.change = Value(ChangeOutputs(prep)) + SumOf(avail)
                                - Value(SelectSeq(uses, LAMBDA n : n.at[1] = 0))

\* The planner leaves at most one residual note worth more than a fee.
OneResidual ==
    phase \in {"planned", "rebuilt"} =>
        Len(SelectSeq(ChangeOutputs(plan.prep), LAMBDA n : n.v > PrepFee)) <= 1

\* What the user approved is what the builder rebuilds: with the same notes, every plan the random
\* refinement can draw is accepted again, with the same parts, preparation and change.
ApprovalReplaysStep ==
    phase = "approved" /\ plan # NoPlan /\ phase' # "approved" => phase' = "rebuilt" /\ plan' = plan
ApprovalReplays == [][ApprovalReplaysStep]_vars

\* After a finished run the wallet holds nothing that could be migrated at once: planning stops only
\* when the remaining balance cannot fund another canonical note and its preparation.
NothingLeftToMigrate ==
    phase = "done" => ~CanAppendCanonicalDenomination(notes, <<>>, EmptyPreparation)
=============================================================================
