---------------------------- MODULE ScanProgress ----------------------------
(***************************************************************************)
(* The progress events of a sync session.  The scan queue is a set of      *)
(* heights; a batch is a prefix of its first run of heights; new work may  *)
(* enter the queue behind the session's back (a new account, a new tip).   *)
(* A percentage is an integer out of Whole.                                *)
(***************************************************************************)
EXTENDS Integers, FiniteSets

CONSTANTS
    Tip,      \* current_tip_height
    Batch,    \* the batch size
    Whole,    \* the percentage that means done
    Cap,      \* TAIL_REPAIR_MAX_START_PERCENTAGE, out of Whole
    Growths   \* bound on how often new work enters the queue

Heights == 1..Tip

VARIABLES
    queue,    \* pending heights
    total,    \* initial_total
    remaining,\* prev_remaining
    mode,     \* ProgressDisplayMode
    window,   \* initial_window_start_height
    repairs,  \* repair passes still to come
    growths,
    shown,    \* the last event, and the repair pass it belongs to
    last      \* the session's last_progress_percentage

vars == <<queue, total, remaining, mode, window, repairs, growths, shown, last>>

Lowest(q) == CHOOSE h \in q : \A k \in q : h <= k
Below(a, b) == IF a < b THEN a ELSE b
Above(a, b) == IF a > b THEN a ELSE b
Clamp(p) == Above(0, Below(Whole, p))
Minus(a, b) == Above(0, a - b)

Work == [kind |-> "work", from |-> 0, base |-> 0, blocks |-> 0]

WorkPct(all, left) == IF all = 0 THEN Whole ELSE Clamp(Whole - (left * Whole) \div all)

(* chain_window_percentage *)
WindowPct(from, h) ==
    IF Tip <= from THEN Whole ELSE Clamp((Minus(h, from) * Whole) \div (Tip - from))

(* faulty variant: the completed blocks are added to the base unscaled *)
FaultyRepairPct(base, all, left) ==
    IF all = 0 THEN Whole ELSE Below(base, Cap) + (Whole * Minus(all, left)) \div all

(* tail_repair_percentage *)
RepairPct(base, all, left) ==
    IF all = 0 THEN Whole
    ELSE LET b == Below(base, Cap)
         IN  Clamp(b + ((Whole - b) * Minus(all, left)) \div all)

Percentage(m, all, left, h) ==
    CASE m.kind = "work" -> WorkPct(all, left)
      [] m.kind = "window" -> WindowPct(m.from, h)
      [] m.kind = "repair" -> RepairPct(m.base, m.blocks, left)

(* chain_window_frontier_height *)
Frontier(q, otherwise) == IF q = {} THEN otherwise ELSE Lowest(q)

BatchStartHeight(m, q, from) == IF m.kind = "window" THEN Frontier(q, from) ELSE from

(* faulty variant: without pending ranges the batch's own end is shown *)
FaultyBatchEndHeight(m, q, end) == IF m.kind = "window" THEN Frontier(q, end - 1) ELSE end

BatchEndHeight(m, q, end) == IF m.kind = "window" THEN Frontier(q, Tip) ELSE end

(* faulty variant: a window's target is the end of the batch wherever it is *)
FaultyBatchTarget(m, all, left, q, from, end) ==
    IF m.kind = "window" THEN WindowPct(m.from, end - Batch)
    ELSE Percentage(m, all, Minus(left, end - from), from)

(* batch_target_percentage: where the batch ends, unless a lower range is
   still pending and holds the window back *)
BatchTarget(m, all, left, q, from, end) ==
    IF m.kind = "window"
    THEN WindowPct(m.from, IF Frontier(q, from) = from THEN end ELSE Frontier(q, from))
    ELSE Percentage(m, all, Minus(left, end - from), from)

(* planned_batch_end: the range that from opens, cut at the batch size; ends
   are exclusive *)
EndFrom(q, from) ==
    CHOOSE e \in (from + 1)..(from + Batch) :
        /\ from..(e - 1) \subseteq q
        /\ e = from + Batch \/ e \notin q

(* the range a session takes first: Verify ranges may lie anywhere *)
Starts(q) == {h \in q : h - 1 \notin q}

Init ==
    /\ queue \in (SUBSET Heights) \ {{}}
    /\ total = Cardinality(queue) /\ remaining = total
    /\ mode = Work
    /\ window = Lowest(queue)
    /\ repairs = 1 /\ growths = Growths
    /\ shown = [pct |-> 0, target |-> 0, pass |-> 0]
    /\ last = 0

(* scanned so far plus what is left, when the queue has grown *)
NewTotal(left) == Above(total, (total - remaining) + left)

(* one batch: the event before the download and the one after the scan *)
ScanBatch ==
    /\ queue # {}
    /\ \E from \in Starts(queue) :
        LET end  == EndFrom(queue, from)
            rest == queue \ (from..(end - 1))
        IN  \E extra \in IF growths > 0 THEN SUBSET Heights ELSE {{}} :
            LET q    == rest \union extra
                left == Cardinality(q)
                all  == NewTotal(left)
                m    == IF all > total /\ mode.kind = "repair"
                        THEN [mode EXCEPT !.blocks = Above(@, all)] ELSE mode
                pct  == Percentage(m, all, left, BatchEndHeight(m, q, end))
                more == {s \in Starts(q) : q # {}}
            IN  /\ queue' = q /\ remaining' = left /\ total' = all /\ mode' = m
                /\ \/ /\ more = {}
                      /\ shown' = [pct |-> pct, target |-> Percentage(m, all, left, Tip),
                                  pass |-> repairs]
                   \/ \E s \in more :
                        shown' = [pct |-> pct,
                                  target |-> BatchTarget(m, all, left, q, s, EndFrom(q, s)),
                                  pass |-> repairs]
                /\ last' = pct
                /\ growths' = IF extra = {} THEN growths ELSE growths - 1
    /\ UNCHANGED <<window, repairs>>

(* the event before a batch is downloaded *)
Announce ==
    /\ queue # {}
    /\ \E from \in Starts(queue) :
        LET pct == Percentage(mode, total, remaining, BatchStartHeight(mode, queue, from))
        IN  /\ last' = pct
            /\ shown' = [pct |-> pct, pass |-> repairs,
                         target |-> BatchTarget(mode, total, remaining, queue, from,
                                                EndFrom(queue, from))]
    /\ UNCHANGED <<queue, total, remaining, mode, window, repairs, growths>>

(* the queue is drained and a witness repair queues heights again *)
TailRepair ==
    /\ queue = {} /\ repairs > 0
    /\ queue' \in (SUBSET Heights) \ {{}}
    /\ total' = Cardinality(queue') /\ remaining' = total'
    /\ mode' = [kind |-> "repair", from |-> 0, base |-> Below(last, Cap), blocks |-> total']
    /\ repairs' = repairs - 1
    /\ UNCHANGED <<window, growths, shown, last>>

(* a rewind: the rest of the session is shown over the chain's window *)
RewindTo(h) ==
    /\ repairs > 0
    /\ queue' = queue \union (h..Tip)
    /\ total' = Cardinality(queue') /\ remaining' = total'
    /\ mode' = [Work EXCEPT !.kind = "window", !.from = Below(window, Lowest(queue'))]
    /\ repairs' = repairs - 1
    /\ UNCHANGED <<window, growths, shown, last>>

Next == ScanBatch \/ Announce \/ TailRepair \/ (\E h \in Heights : RewindTo(h))

Spec == Init /\ [][Next]_vars

-----------------------------------------------------------------------------

TypeOK ==
    /\ queue \subseteq Heights /\ total \in Nat /\ remaining = Cardinality(queue)
    /\ shown.pct \in 0..Whole /\ shown.target \in 0..Whole

(* The target the bar is animated to by every event (display_target_percentage)
   never lies behind the percentage of that event. *)
TargetAhead == shown.target >= shown.pct

(* The event after which no work is pending shows the whole bar, in every
   mode and however the queue has grown. *)
DrainedIsWhole == queue = {} => shown.pct = Whole /\ shown.target = Whole

(* "Use scanned + remaining as the true total, so progress never goes
   backward": from one event to the next of the same repair pass. *)
NeverBackwardStep == shown.pass = shown'.pass => shown'.pct >= shown.pct
NeverBackward == [][NeverBackwardStep]_vars
=============================================================================
