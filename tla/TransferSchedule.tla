-------------------------- MODULE TransferSchedule --------------------------
(***************************************************************************)
(* When the parts of a private migration are to be sent.  The approved     *)
(* schedule gives every part an offset; the first signing session fixes    *)
(* the height the offsets count from, and later sessions must use the      *)
(* same one.  Parts that must be signed again get a slot on the run's      *)
(* recovery ladder, which counts from an origin of its own.  A hardware    *)
(* session is open while blocks arrive, parts fail and the policy changes. *)
(* Sources: schedule.rs, policy.rs and the schedule functions of           *)
(* migration.rs.                                                           *)
(***************************************************************************)
EXTENDS Integers, Sequences, SequencesExt, FiniteSetsExt

CONSTANTS Values,     \* the approved denominations by part, largest first
          MaxDelay,   \* longest delay between two transfers under the standard policy
          FastDelay,  \* the same under the fast testnet policy
          BatchLimit, \* parts of one signing session
          MaxTip      \* bound: the chain stops here

None == -1
Parts == DOMAIN Values
Policies == {"standard", "fast"}
Delay(policy) == IF policy = "fast" THEN FastDelay ELSE MaxDelay

VARIABLES tip,      \* chain tip the wallet has seen
          conf,     \* the configured timing policy
          run,      \* policy, schedule, origin of the signed schedule, the ladder's origin and maximum
          part,     \* per part: st, height and the offset on the ladder
          sessions  \* open signing sessions
vars == <<tip, conf, run, part, sessions>>

\* ---------------------------------------------------------------- drawing and checking a schedule
Cumulative(gaps) == [i \in DOMAIN gaps |-> FoldLeft(LAMBDA a, b : a + b, 0, SubSeq(gaps, 1, i))]

\* Every schedule the shuffle and the random delays can produce.
PlannedTransferSchedules(policy) ==
    {[i \in Parts |-> [part |-> order[i], v |-> Values[order[i]], off |-> Cumulative(gaps)[i]]] :
        order \in Permutations(Parts), gaps \in [Parts -> 0..Delay(policy)]}

\* Schedules saved before entries named their part.
WithoutPartIndexes(s) == [i \in DOMAIN s |-> [s[i] EXCEPT !.part = None]]
HasPartIndexes(s) == \A i \in DOMAIN s : s[i].part # None

ValidSchedule(s, policy) ==
    /\ Len(s) = Len(Values)
    /\ \A v \in ToSet(Values) : Quantify(DOMAIN s, LAMBDA i : s[i].v = v) = Quantify(Parts, LAMBDA p : Values[p] = v)
    /\ \/ \A i \in DOMAIN s : s[i].part = None
       \/ /\ HasPartIndexes(s)
          /\ \A i, j \in DOMAIN s : s[i].part = s[j].part => i = j
          /\ \A i \in DOMAIN s : s[i].part \in Parts /\ Values[s[i].part] = s[i].v
    /\ \A i \in DOMAIN s : LET before == IF i = 1 THEN 0 ELSE s[i - 1].off
                           IN  s[i].off - before \in 0..Delay(policy)

\* The denominations by part, as the approval reads them back; None when it cannot.
TargetValuesFromSchedule(s) ==
    IF HasPartIndexes(s) /\ {s[i].part : i \in DOMAIN s} = DOMAIN s
    THEN [p \in DOMAIN s |-> s[CHOOSE i \in DOMAIN s : s[i].part = p].v]
    ELSE None

\* faulty variant: without part indexes the first entry of the value is taken
FaultyEntry(s, p) == CHOOSE i \in DOMAIN s : s[i].v = Values[p] /\ \A j \in 1..(i - 1) : s[j].v # Values[p]

\* The entry of a part: by its index, or by the rank of the part among those of its value.
EntryOfPart(s, p) ==
    IF HasPartIndexes(s) THEN CHOOSE i \in DOMAIN s : s[i].part = p
    ELSE LET rank == Quantify(1..(p - 1), LAMBDA q : Values[q] = Values[p])
         IN  CHOOSE i \in DOMAIN s : s[i].v = Values[p] /\ Quantify(1..(i - 1), LAMBDA j : s[j].v = Values[p]) = rank

ScheduleBlockOffset(s, p) == s[EntryOfPart(s, p)].off

\* ---------------------------------------------------------------- the run
Untouched == [st |-> "unsigned", height |-> None, off |-> None]
Schedules == LET s == PlannedTransferSchedules("standard") IN s \cup {WithoutPartIndexes(x) : x \in s}

Init == /\ tip = 0
        /\ conf = "standard"
        /\ \E s \in Schedules :
              /\ ValidSchedule(s, "standard")
              /\ run = [policy |-> "standard", schedule |-> s, origin |-> None,
                        ladder |-> None, max |-> None]
        /\ part = [p \in Parts |-> Untouched]
        /\ sessions = {}

With(s) == {p \in Parts : part[p].st = s}

\* adopt_timing_policy_for_active_run: only before the first transfer was built.
AdoptFast ==
    /\ conf' = "fast" /\ run.policy # "fast"
    /\ With("scheduled") \cup With("resign") \cup With("mined") = {}
    /\ \E s \in PlannedTransferSchedules("fast") : run' = [run EXCEPT !.policy = "fast", !.schedule = s]
    /\ UNCHANGED <<tip, part, sessions>>

\* Initial session: the next unsigned parts, counted from the persisted origin if there is one.
OpenInitial ==
    /\ sessions = {} /\ With("unsigned") # {} /\ With("resign") = {}
    /\ LET start == Cardinality(Parts \ With("unsigned"))
           chosen == {p \in Parts : p > start /\ p <= start + BatchLimit}
           origin == IF run.origin = None THEN tip ELSE run.origin
       IN  sessions' = {[kind |-> "initial",
                         height |-> [p \in chosen |-> origin + ScheduleBlockOffset(run.schedule, p)]]}
    /\ UNCHANGED <<tip, conf, run, part>>

SignedHeights(s) == [p \in Parts |-> IF p \in DOMAIN s.height
                                     THEN [part[p] EXCEPT !.st = "signed", !.height = s.height[p]] ELSE part[p]]

\* faulty variant: the origin of the first session is not kept
FaultyCompleteInitial(s) ==
    /\ s.kind = "initial" /\ DOMAIN s.height \subseteq With("unsigned")
    /\ part' = SignedHeights(s)
    /\ sessions' = sessions \ {s}
    /\ UNCHANGED <<tip, conf, run>>

\* insert_signed_child_pczts_with_tx, initial mode: all children agree on one origin.
CompleteInitial(s) ==
    /\ s.kind = "initial" /\ DOMAIN s.height \subseteq With("unsigned")
    /\ LET origins == {s.height[p] - ScheduleBlockOffset(run.schedule, p) : p \in DOMAIN s.height}
       IN  \/ /\ \E o \in origins : /\ o >= 0
                                    /\ origins = {o} /\ run.origin \in {None, o}
                                    /\ run' = [run EXCEPT !.origin = o]
              /\ part' = SignedHeights(s)
           \/ /\ ~(\E o \in origins : o >= 0 /\ origins = {o} /\ run.origin \in {None, o})
              /\ UNCHANGED <<run, part>>
    /\ sessions' = sessions \ {s}
    /\ UNCHANGED <<tip, conf>>

\* insert_pending_txs_with_tx: a retained child may become a pending transfer whatever its origin.
Promote(p) == /\ part[p].st = "signed"
              /\ part' = [part EXCEPT ![p].st = "scheduled"]
              /\ UNCHANGED <<tip, conf, run, sessions>>

\* The transfer expired, or its anchor or its input was reorganised away.
MustResign(p) == /\ part[p].st = "scheduled" /\ part[p].height < MaxTip  \* bound: the ladder ends
                 /\ part' = [part EXCEPT ![p].st = "resign", ![p].off = None]
                 /\ UNCHANGED <<tip, conf, run, sessions>>

Mine(p) == /\ part[p].st = "scheduled" /\ tip >= part[p].height
           /\ part' = [part EXCEPT ![p].st = "mined"]
           /\ UNCHANGED <<tip, conf, run, sessions>>

\* ---------------------------------------------------------------- the recovery ladder
Origin == IF run.ladder = None THEN tip ELSE run.ladder
Cursor == IF tip > Origin THEN tip - Origin ELSE 0
Observed == Max({0} \cup {part[p].off : p \in With("resign")})

\* The checks that would end ensure_rebuild_schedule_generation with an error.
LadderBroken == \/ run.ladder = None /\ (run.max # None \/ \E p \in With("resign") : part[p].off # None)
                \/ run.max # None /\ run.max < Observed

\* faulty variant: the ladder forgets how far it reached
FaultyBaseOffset == Max({Observed, Cursor})

BaseOffset == Max({IF run.max = None THEN Observed ELSE run.max, Cursor})


Passed == {p \in With("resign") : part[p].off = None \/ part[p].off < Cursor}

\* faulty variant: the maximum is taken before the new slots are handed out
FaultyLadderMax(new) == BaseOffset

LadderMax(new) == Max({BaseOffset} \cup {new[p].off : p \in Passed})

\* The slots each call may hand out: cumulative delays above the base, in any order.
FreshOffsets(n) ==
    {[i \in 1..n |-> Cumulative(gaps)[order[i]]] :
        gaps \in [1..n -> 0..Delay(run.policy)], order \in Permutations(1..n)}

\* ensure_rebuild_schedule_generation, then the session over the slots of the chosen parts.
OpenRecovery ==
    /\ sessions = {} /\ With("resign") # {} /\ ~LadderBroken
    /\ LET to == SetToSortSeq(Passed, <)
       IN  \E fresh \in FreshOffsets(Len(to)) :
             LET new == [p \in Parts |-> IF p \in Passed
                           THEN [part[p] EXCEPT !.off = BaseOffset + fresh[CHOOSE i \in DOMAIN to : to[i] = p]]
                           ELSE part[p]]
                 first == {p \in With("resign") : Quantify(With("resign"), LAMBDA q : q < p) < BatchLimit}
             IN  /\ part' = new
                 /\ run' = [run EXCEPT !.ladder = Origin, !.max = LadderMax(new)]
                 /\ sessions' = {[kind |-> "recovery", height |-> [p \in first |-> Origin + new[p].off]]}
    /\ UNCHANGED <<tip, conf>>

\* replace_resigned_pending_parts: every replacement is at the slot that is persisted now.
CompleteRecovery(s) ==
    /\ s.kind = "recovery"
    /\ \/ /\ \A p \in DOMAIN s.height : part[p].st = "resign" /\ s.height[p] = run.ladder + part[p].off
          /\ part' = [p \in Parts |-> IF p \in DOMAIN s.height
                        THEN [st |-> "scheduled", height |-> s.height[p], off |-> None] ELSE part[p]]
       \/ /\ \E p \in DOMAIN s.height : part[p].st # "resign" \/ s.height[p] # run.ladder + part[p].off
          /\ UNCHANGED part
    /\ sessions' = sessions \ {s}
    /\ UNCHANGED <<tip, conf, run>>

\* The user dismisses the request, or the app is killed: sessions live in memory only.
Drop(s) == /\ sessions' = sessions \ {s}
           /\ UNCHANGED <<tip, conf, run, part>>

Tick == /\ tip < MaxTip
        /\ tip' = tip + 1
        /\ UNCHANGED <<conf, run, part, sessions>>

Next == \/ AdoptFast \/ OpenInitial \/ OpenRecovery \/ Tick
        \/ \E s \in sessions : CompleteInitial(s) \/ CompleteRecovery(s) \/ Drop(s)
        \/ \E p \in Parts : Promote(p) \/ MustResign(p) \/ Mine(p)

Spec == Init /\ [][Next]_vars

\* ---------------------------------------------------------------- properties
\* The variables keep their types.
TypeOK == /\ tip \in 0..MaxTip /\ conf \in Policies /\ run.policy \in Policies
          /\ \A p \in Parts : /\ part[p].st \in {"unsigned", "signed", "scheduled", "resign", "mined"}
                              /\ part[p].off \in Nat \cup {None} /\ part[p].height \in Nat \cup {None}

\* Whatever the approved schedule looks like, with part indexes or from before they were saved, the
\* run accepts it, no two parts read the same entry, and the denominations come back by part.
EveryPartHasItsEntry ==
    /\ ValidSchedule(run.schedule, run.policy)
    /\ \A p, q \in Parts : EntryOfPart(run.schedule, p) = EntryOfPart(run.schedule, q) => p = q
    /\ HasPartIndexes(run.schedule) => TargetValuesFromSchedule(run.schedule) = Values

\* Parts signed in different sessions keep the distances of the schedule they were approved with:
\* only a schedule replaced by the fast policy before any transfer was built changes them.
OneCadence ==
    \A p, q \in Parts :
        (/\ part[p].st \in {"signed", "scheduled"} /\ part[q].st \in {"signed", "scheduled"}
         /\ run.policy = "standard" /\ run.ladder = None)
            => part[p].height - part[q].height
                 = ScheduleBlockOffset(run.schedule, p) - ScheduleBlockOffset(run.schedule, q)

\* The ladder's records never contradict each other: a part waiting for its signature can always
\* be given a slot.
LadderStays == ~LadderBroken

\* A slot on the ladder is never before one handed out earlier, and never at a height the chain has
\* already passed when it is handed out; it is only changed once the chain has passed it.
LadderExtendsStep ==
    \A p \in Parts :
      (part'[p].off # part[p].off /\ part'[p].off # None)
          => /\ part'[p].off >= run.max
             /\ run'.ladder + part'[p].off >= tip
             /\ part[p].off # None => run.ladder + part[p].off < tip
LadderExtends == [][LadderExtendsStep]_vars
=============================================================================
