----------------------------- MODULE SyncEngine -----------------------------
(***************************************************************************)
(* One wallet and its chain scan: run_sync_inner retries run_sync_impl,    *)
(* which reconciles the server's tip with the database, scans batch after  *)
(* batch, rewinds on a reorganisation, runs the repairs once the queue is  *)
(* drained and only then records the completed height.                     *)
(*                                                                         *)
(* A block is its height and the generation of the fork that made it; the  *)
(* fork's first block names the generation it builds on, so two stored     *)
(* blocks are linked exactly when the parent of the upper one is the lower *)
(* one.  Everything between two awaits of the code is one action.  The     *)
(* scan queue is served from its lowest range.                             *)
(***************************************************************************)
EXTENDS Integers, Sequences, FiniteSets, SequencesExt

CONSTANTS
    Start0,       \* blocks the wallet holds at first
    MaxHeight,    \* bound on the server's chain
    MaxGen,       \* bound on the reorganisations of the server's chain
    BatchSize,    \* BATCH_SIZE_FOREGROUND / _BACKGROUND
    Distance,     \* REWIND_DISTANCE
    Floor,        \* the earliest checkpoint the wallet can rewind to
    MaxRewinds,   \* MAX_REWINDS_PER_RUN
    MaxRetries,   \* MAX_RETRIES of run_sync_inner
    MaxPasses,    \* MAX_WITNESS_REPAIR_PASSES_PER_RUN
    AnchorDepth,  \* confirmations of the anchor below the tip
    RepairDistances, \* ANCHOR_ROOT_REPAIR_REWIND_DISTANCES
    MaxFaults     \* bound on failed calls, lagging replies, stops and crashes

Gens == 0..MaxGen
NoTip == <<0, 0>>
NoBatch == [from |-> 0, tags |-> <<>>, frontier |-> 0]

VARIABLES
    chain,    \* the server's chain: the generation of every block
    fork,     \* of each generation, its first height and the one below it
    blocks,   \* the wallet's stored blocks, in the same form
    dbTip,    \* the tip the scan queue was last extended to
    rescan,   \* stored heights queued again by a witness repair
    damage,   \* stored heights whose witnesses are damaged
    checkDue, \* the clean marker of the witness check is missing or too old
    taint,    \* first height scanned from a frontier of another branch, 0 if none
    marker,   \* sync_in_progress and last_completed_sync_height
    pc, tip, need, rewinds, passes, force, batch, prefetch, attempt, err,
    stop,     \* cancel flag, or the desired mode differs from the running one
    vouched,  \* the last server tip this attempt found equal to the stored one
    faults

server == <<chain, fork>>
db == <<blocks, dbTip, rescan, damage, taint>>
session == <<tip, need, rewinds, passes, force, prefetch>>
vars == <<chain, fork, blocks, dbTip, rescan, damage, checkDue, taint, marker,
          pc, tip, need, rewinds, passes, force, batch, prefetch, attempt, err,
          stop, vouched, faults>>

gen == Len(fork) - 1

Min2(a, b) == IF a < b THEN a ELSE b
Max2(a, b) == IF a > b THEN a ELSE b

(* the generation of the block below height h of generation g *)
Parent(h, g) == IF h = fork[g + 1].at THEN fork[g + 1].on ELSE g

Linked(s) == \A h \in 2..Len(s) : Parent(h, s[h]) = s[h - 1]

Pending == (Len(blocks) + 1)..dbTip \union rescan

(* faulty variant: a lower reply with another hash counts as a reorganisation *)
FaultyClassify(cur, r) ==
    IF r.h < cur THEN "reorg"
    ELSE IF r.h > cur THEN "advanced"
    ELSE IF Len(blocks) < cur THEN "unverified"
    ELSE IF blocks[cur] # r.tag THEN "reorg" ELSE "unchanged"

(* classify_refreshed_tip: a lower tip never proves a reorganisation, a
   higher one is taken by its height, an equal one by the stored hash *)
Classify(cur, r) ==
    IF r.h < cur THEN "behind"
    ELSE IF r.h > cur THEN "advanced"
    ELSE IF Len(blocks) < cur THEN "unverified"
    ELSE IF blocks[cur] # r.tag THEN "reorg" ELSE "unchanged"

(* faulty variant: only the age of the last validation is looked at *)
FaultyMustRefresh(fresh) == ~fresh

(* should_refresh_tip_before_completion; fresh is "younger than 5 s" *)
MustRefresh(fresh) == need \/ ~fresh

(* get_latest_block: the newest block, or an older one from a replica that lags *)
Replies == {[h |-> Len(chain), tag |-> Last(chain), cost |-> 0]} \union
           (IF faults > 0 /\ Len(chain) > 1
            THEN {[h |-> Len(chain) - 1, tag |-> chain[Len(chain) - 1], cost |-> 1]}
            ELSE {})

Init ==
    /\ chain = [i \in 1..Start0 |-> 0]
    /\ fork = <<[at |-> 1, on |-> 0]>>
    /\ blocks = chain
    /\ dbTip = Start0
    /\ rescan = {}
    /\ damage \in {{}, {Start0}}
    /\ checkDue \in BOOLEAN
    /\ taint = 0
    /\ marker = [open |-> FALSE, height |-> Start0]
    /\ pc = "idle"
    /\ tip = 0 /\ need = FALSE
    /\ rewinds = [verify |-> 0, main |-> 0]
    /\ passes = [witness |-> 0, anchor |-> 0]
    /\ force = FALSE /\ batch = NoBatch /\ prefetch = NoBatch
    /\ attempt = 0 /\ err = "none" /\ stop = FALSE /\ vouched = NoTip
    /\ faults = MaxFaults

(***************************************************************************)
(* The server and the environment.                                         *)
(***************************************************************************)

Grow ==
    /\ Len(chain) < MaxHeight
    /\ chain' = Append(chain, gen)
    /\ UNCHANGED <<fork, db, checkDue, marker, pc, session, batch, attempt, err,
                   stop, vouched, faults>>

Reorg(k) ==
    /\ gen < MaxGen /\ k \in 1..Len(chain)
    /\ chain' = [i \in DOMAIN chain |-> IF i < k THEN chain[i] ELSE gen + 1]
    /\ fork' = Append(fork, [at |-> k, on |-> IF k = 1 THEN 0 ELSE chain[k - 1]])
    /\ UNCHANGED <<db, checkDue, marker, pc, session, batch, attempt, err, stop,
                   vouched, faults>>

RequestStop ==
    /\ pc # "idle" /\ ~stop /\ faults > 0
    /\ stop' = TRUE /\ faults' = faults - 1
    /\ UNCHANGED <<server, db, checkDue, marker, pc, session, batch, attempt,
                   err, vouched>>

Forget ==
    /\ tip' = 0 /\ need' = FALSE
    /\ rewinds' = [verify |-> 0, main |-> 0]
    /\ passes' = [witness |-> 0, anchor |-> 0]
    /\ force' = FALSE /\ batch' = NoBatch /\ prefetch' = NoBatch
    /\ err' = "none" /\ vouched' = NoTip

Crash ==
    /\ pc # "idle" /\ faults > 0
    /\ pc' = "idle" /\ stop' = FALSE /\ attempt' = 0 /\ faults' = faults - 1
    /\ Forget
    /\ UNCHANGED <<server, db, checkDue, marker>>

(***************************************************************************)
(* One attempt of run_sync_impl.                                           *)
(***************************************************************************)

(* faulty variant: the attempt begins without closing the completed marker *)
FaultyMarkStarted == marker

(* mark_sync_started *)
MarkStarted == [marker EXCEPT !.open = TRUE]

Start ==
    /\ pc = "idle"
    /\ pc' = "connect"
    /\ marker' = MarkStarted
    /\ UNCHANGED <<server, db, checkDue, session, batch, attempt, err, stop,
                   vouched, faults>>

Fail(kind) ==
    /\ pc' = "failed" /\ err' = kind
    /\ UNCHANGED <<db, session, batch>>

(* an RPC of the attempt fails: SyncError::net *)
NetworkFails ==
    /\ pc \in {"connect", "prep", "pick", "drain", "repairs"}
    /\ pc = "pick" => Pending # {}
    /\ ~stop /\ faults > 0
    /\ faults' = faults - 1
    /\ Fail("retry")
    /\ UNCHANGED <<server, checkDue, marker, attempt, stop, vouched>>

(* faulty variant: the repair queue keeps heights above the cut *)
FaultyCutTo(h) ==
    /\ blocks' = SubSeq(blocks, 1, h)
    /\ dbTip' = h
    /\ taint' = IF taint > h THEN 0 ELSE taint
    /\ UNCHANGED <<rescan, damage>>

(* blocks above h are dropped; the queue ends at h until the tip is told again *)
CutTo(h) ==
    /\ blocks' = SubSeq(blocks, 1, h)
    /\ dbTip' = h
    /\ rescan' = rescan \intersect 1..h
    /\ damage' = damage \intersect 1..h
    /\ taint' = IF taint > h THEN 0 ELSE taint

(* truncate_wallet_with: the tip's parent, or nothing at all when the only
   height the wallet can go back to is not below that tip *)
CanRewindBelow(h) == h - 1 >= Floor

(* rewind_for_confirmed_tip_reorg with the budget test of its four callers *)
TipReorg(r, next) ==
    IF rewinds.main >= MaxRewinds THEN Fail("rewind")
    ELSE IF ~CanRewindBelow(r.h) THEN Fail("fatal")
    ELSE /\ CutTo(r.h - 1)
         /\ rewinds' = [rewinds EXCEPT !.main = @ + 1]
         /\ prefetch' = NoBatch /\ tip' = r.h /\ need' = TRUE
         /\ pc' = next
         /\ UNCHANGED <<passes, force, batch, err>>

(* update_chain_tip after a rewind, in a transaction of its own *)
Retip ==
    /\ pc \in {"retip0", "retip"}
    /\ dbTip' = tip
    /\ pc' = IF pc = "retip0" THEN "prep" ELSE "top"
    /\ UNCHANGED <<server, blocks, rescan, damage, taint, checkDue, marker, session,
                   batch, attempt, err, stop, vouched, faults>>

(* what a tip reply other than a reorganisation or a lagging one does *)
TakeTip(rel, r, next) ==
    /\ tip' = IF rel = "advanced" THEN r.h ELSE tip
    /\ dbTip' = IF rel = "advanced" THEN r.h ELSE dbTip
    /\ need' = (rel # "unchanged")
    /\ pc' = next
    /\ UNCHANGED <<blocks, rescan, damage, taint, rewinds, passes, force, prefetch,
                   batch, err>>

Vouch(rel, r) == vouched' = IF rel = "unchanged" THEN <<r.h, r.tag>> ELSE vouched

(* the initial tip is classified against the database's tip *)
InitialTip ==
    /\ pc = "connect" /\ ~stop
    /\ \E r \in Replies :
        LET rel == Classify(dbTip, r) IN
        /\ faults' = faults - r.cost
        /\ Vouch(rel, r)
        /\ CASE rel = "behind" -> Fail("retry")
             [] rel = "reorg" -> TipReorg(r, "retip0")
             [] OTHER ->
                  /\ tip' = r.h /\ need' = (rel # "unchanged")
                  /\ dbTip' = IF r.h >= Len(blocks) THEN r.h ELSE dbTip
                  /\ pc' = "prep"
                  /\ UNCHANGED <<blocks, rescan, damage, taint, rewinds, passes,
                                 force, prefetch, batch, err>>
    /\ UNCHANGED <<server, checkDue, marker, attempt, stop>>

(* orphaned send locks, transparent outputs, resubmission, subtree roots and
   anchor maintenance leave the scan state alone *)
Prepare ==
    /\ pc = "prep" /\ ~stop
    /\ pc' = "top"
    /\ UNCHANGED <<server, db, checkDue, marker, session, batch, attempt, err, stop,
                   vouched, faults>>

(* a refresh of the tip: the reply is classified against the current tip *)
Refresh(next) ==
    \E r \in Replies :
        LET rel == Classify(tip, r) IN
        /\ faults' = faults - r.cost
        /\ Vouch(rel, r)
        /\ CASE rel = "behind" -> Fail("retry")
             [] rel = "reorg" -> TipReorg(r, "retip")
             [] OTHER -> TakeTip(rel, r, IF next = "repairs" /\ rel = "advanced"
                                          THEN "top" ELSE next)

(* a refresh that fails on the way keeps the tip and demands a validation *)
RefreshFails(next) ==
    /\ faults > 0 /\ faults' = faults - 1
    /\ need' = TRUE /\ pc' = next
    /\ UNCHANGED <<db, tip, rewinds, passes, force, prefetch, batch, err, vouched>>

TopOfLoop ==
    /\ pc = "top" /\ ~stop
    /\ pc' = "pick"
    /\ UNCHANGED <<server, db, checkDue, marker, session, batch, attempt, err, stop,
                   vouched, faults>>

PeriodicRefresh ==
    /\ pc = "top" /\ ~stop
    /\ Refresh("pick") \/ RefreshFails("pick")
    /\ UNCHANGED <<server, checkDue, marker, attempt, stop>>

(* scannable_batch_end: the lowest pending range, cut at the batch size and
   at the tip this session knows *)
FirstPending == CHOOSE h \in Pending : \A k \in Pending : h <= k

BatchEnd(from) ==
    LET top == CHOOSE h \in Pending : /\ from..h \subseteq Pending
                                      /\ h + 1 \notin Pending
    IN  Min2(Min2(top, tip), from + BatchSize - 1)

(* the server's blocks from..to, as far as it has them *)
Served(from, to) == SubSeq(chain, from, Min2(to, Len(chain)))

(* resolve_prefetched_or_download: a prefetched batch of just this range, or
   a fresh download; validate_scan_batch wants the whole range *)
Fetch ==
    /\ pc = "pick" /\ Pending # {} /\ ~stop
    /\ LET from == FirstPending
           size == BatchEnd(from) - from + 1
           hit  == prefetch.from = from /\ Len(prefetch.tags) = size
           tags == IF hit THEN prefetch.tags ELSE Served(from, BatchEnd(from))
       IN  IF Len(tags) = size
           THEN /\ batch' = [NoBatch EXCEPT !.from = from, !.tags = tags]
                /\ prefetch' = NoBatch
                /\ pc' = "frontier"
                /\ UNCHANGED <<db, tip, need, rewinds, passes, force, err>>
           ELSE Fail("retry")
    /\ UNCHANGED <<server, checkDue, marker, attempt, stop, vouched, faults>>

(* the tree state below the batch arrives from a request of its own, and the
   next batch of the same range is requested before this one is scanned *)
FetchFrontier ==
    /\ pc = "frontier" /\ ~stop
    /\ batch' = [batch EXCEPT !.frontier = IF batch.from = 1 THEN 0
                                           ELSE chain[batch.from - 1]]
    /\ LET next == batch.from + Len(batch.tags) IN
        prefetch' = IF next \in Pending /\ next <= tip
                    THEN [NoBatch EXCEPT !.from = next,
                                         !.tags = Served(next, BatchEnd(next))]
                    ELSE NoBatch
    /\ pc' = "scan"
    /\ UNCHANGED <<server, db, checkDue, marker, tip, need, rewinds, passes, force,
                   attempt, err, stop, vouched, faults>>

(***************************************************************************)
(* scan_cached_blocks.                                                     *)
(***************************************************************************)

(* faulty variant: only the block above the stored ones is compared *)
FaultyBreakAt ==
    {h \in DOMAIN blocks : /\ h >= batch.from
                           /\ h < batch.from + Len(batch.tags)
                           /\ blocks[h] # batch.tags[h - batch.from + 1]}

(* the heights at which the batch does not continue what is stored: its
   first block has another parent, or a stored block has another hash *)
BreakAt ==
    {h \in DOMAIN blocks : /\ h >= batch.from
                           /\ h < batch.from + Len(batch.tags)
                           /\ blocks[h] # batch.tags[h - batch.from + 1]}
    \union {h \in {batch.from} : /\ h > 1
                                 /\ Parent(h, batch.tags[1]) # blocks[h - 1]}

WrongFrontier == batch.from > 1 /\ batch.frontier # blocks[batch.from - 1]

(* the stored blocks after a batch that continues them *)
Extended ==
    LET last == batch.from + Len(batch.tags) - 1
    IN  IF last <= Len(blocks) THEN blocks
        ELSE SubSeq(blocks, 1, batch.from - 1) \o batch.tags

ScanBatch ==
    /\ pc = "scan" /\ BreakAt = {}
    /\ blocks' = Extended
    /\ LET heights == batch.from..(batch.from + Len(batch.tags) - 1) IN
        /\ rescan' = rescan \ heights
        /\ \E cured \in SUBSET (damage \intersect heights) : damage' = damage \ cured
    /\ taint' = IF WrongFrontier /\ taint = 0 THEN batch.from ELSE taint
    /\ pc' = "after"
    /\ batch' = NoBatch
    /\ UNCHANGED <<server, dbTip, checkDue, marker, session, attempt, err, stop,
                   vouched, faults>>

(* faulty variant: the wallet goes back to the block where the chains part *)
FaultyScanBreaks ==
    /\ pc = "scan"
    /\ BreakAt # {} \/ WrongFrontier
    /\ LET phase == IF rescan # {} THEN "verify" ELSE "main" IN
        IF rewinds[phase] >= MaxRewinds THEN Fail("rewind")
        ELSE /\ CutTo(Min2(Len(blocks), batch.from - 1))
             /\ rewinds' = [rewinds EXCEPT ![phase] = @ + 1]
             /\ force' = TRUE /\ prefetch' = NoBatch /\ batch' = NoBatch
             /\ pc' = "retip"
             /\ UNCHANGED <<tip, need, passes, err>>
    /\ UNCHANGED <<server, checkDue, marker, attempt, stop, vouched, faults>>

(* a continuity error, or a tree root that conflicts with a stored node: the
   wallet goes back a fixed distance, to the earliest checkpoint at least;
   the code's distance grows with the attempt *)
ScanBreaks ==
    /\ pc = "scan"
    /\ BreakAt # {} \/ WrongFrontier
    /\ LET phase == IF rescan # {} THEN "verify" ELSE "main"
           at    == IF BreakAt = {} THEN batch.from
                    ELSE CHOOSE h \in BreakAt : \A k \in BreakAt : h <= k
           to    == Min2(Len(blocks), Max2(Floor, at - Distance))
       IN  IF rewinds[phase] >= MaxRewinds THEN Fail("rewind")
           ELSE /\ CutTo(to)
                /\ rewinds' = [rewinds EXCEPT ![phase] = @ + 1]
                /\ force' = TRUE /\ prefetch' = NoBatch /\ batch' = NoBatch
                /\ pc' = "retip"
                /\ UNCHANGED <<tip, need, passes, err>>
    /\ UNCHANGED <<server, checkDue, marker, attempt, stop, vouched, faults>>

(* after enhancement the tip is asked for again *)
PostBatch ==
    /\ pc = "after" /\ ~stop
    /\ Refresh("top") \/ RefreshFails("top")
    /\ UNCHANGED <<server, checkDue, marker, attempt, stop>>

(***************************************************************************)
(* The queue is drained.                                                   *)
(***************************************************************************)

(* the last validation is reused when it is younger than five seconds *)
Drained ==
    /\ pc = "pick" /\ Pending = {}
    /\ \E fresh \in BOOLEAN : pc' = IF MustRefresh(fresh) THEN "drain" ELSE "repairs"
    /\ UNCHANGED <<server, db, checkDue, marker, session, batch, attempt, err, stop,
                   vouched, faults>>

FinalTip ==
    /\ pc = "drain" /\ ~stop
    /\ Refresh("repairs")
    /\ UNCHANGED <<server, checkDue, marker, attempt, stop>>

WitnessCheckRuns == force \/ checkDue

(* faulty variant: the repair passes are not counted *)
FaultyWitnessRepair ==
    /\ pc = "repairs" /\ WitnessCheckRuns /\ damage # {}
    /\ rescan' = rescan \union damage
    /\ force' = TRUE /\ prefetch' = NoBatch
    /\ pc' = "top"
    /\ UNCHANGED <<blocks, dbTip, damage, taint, tip, need, rewinds, passes, batch, err>>
    /\ UNCHANGED <<server, checkDue, marker, attempt, stop, vouched, faults>>

(* queue_witness_repairs_if_needed *)
WitnessRepair ==
    /\ pc = "repairs" /\ WitnessCheckRuns /\ damage # {}
    /\ IF passes.witness >= MaxPasses THEN Fail("fatal")
       ELSE /\ rescan' = rescan \union damage
            /\ passes' = [passes EXCEPT !.witness = @ + 1]
            /\ force' = TRUE /\ prefetch' = NoBatch
            /\ pc' = "top"
            /\ UNCHANGED <<blocks, dbTip, damage, taint, tip, need, rewinds, batch, err>>
    /\ UNCHANGED <<server, checkDue, marker, attempt, stop, vouched, faults>>

AnchorHeight == tip - AnchorDepth

(* the local root is not the server's: computed from another frontier, or
   the server's chain is another one at that height *)
RootMismatch == /\ AnchorHeight >= 1
                /\ \/ taint # 0 /\ taint <= AnchorHeight
                   \/ chain[AnchorHeight] # blocks[AnchorHeight]

(* distances that are still to be tried this run *)
NextDistances == {i \in DOMAIN RepairDistances : i > passes.anchor}

(* truncate_to_chain_state puts the server's frontier below the cut *)
ChainStateAt(h) == IF h = 0 \/ chain[h] = blocks[h] THEN 0 ELSE h + 1

(* repair_anchor_root_mismatch_if_needed; a distance whose root conflicts
   with stored nodes is skipped for a deeper one *)
AnchorRepair ==
    /\ pc = "repairs"
    /\ ~(WitnessCheckRuns /\ damage # {})
    /\ RootMismatch
    /\ IF NextDistances = {} THEN Fail("fatal")
       ELSE \E i \in NextDistances :
              LET h == Max2(0, AnchorHeight - RepairDistances[i]) IN
              /\ i > passes.anchor + 1 => taint # 0
              /\ blocks' = SubSeq(blocks, 1, h)
              /\ rescan' = rescan \intersect 1..h
              /\ damage' = damage \intersect 1..h
              /\ taint' = ChainStateAt(h)
              /\ passes' = [passes EXCEPT !.anchor = i]
              /\ force' = TRUE /\ prefetch' = NoBatch
              /\ pc' = "top"
              /\ UNCHANGED <<dbTip, tip, need, rewinds, batch, err>>
    /\ checkDue' = IF WitnessCheckRuns THEN FALSE ELSE checkDue
    /\ UNCHANGED <<server, marker, attempt, stop, vouched, faults>>

(* ensure_complete_scan_state *)
Complete == Pending = {} /\ dbTip = tip /\ Len(blocks) = tip

RepairsDone ==
    /\ pc = "repairs"
    /\ ~(WitnessCheckRuns /\ damage # {})
    /\ ~RootMismatch
    /\ checkDue' = IF WitnessCheckRuns THEN FALSE ELSE checkDue
    /\ IF Complete
       THEN pc' = "finish" /\ UNCHANGED <<db, session, batch, err>>
       ELSE Fail("rewind")
    /\ UNCHANGED <<server, marker, attempt, stop, vouched, faults>>

(* mark_sync_completed, after the lock and anchor passes over the migration *)
MarkCompleted ==
    /\ pc = "finish" /\ Complete
    /\ marker' = [open |-> FALSE, height |-> tip]
    /\ pc' = "idle" /\ attempt' = 0 /\ stop' = FALSE
    /\ Forget
    /\ UNCHANGED <<server, db, checkDue, faults>>

(***************************************************************************)
(* run_sync_inner.                                                         *)
(***************************************************************************)

(* Db and Parse errors end the run, the others are tried again *)
Retry ==
    /\ pc = "failed" /\ err # "fatal" /\ attempt < MaxRetries /\ ~stop
    /\ attempt' = attempt + 1
    /\ pc' = "connect"
    /\ marker' = MarkStarted
    /\ Forget
    /\ UNCHANGED <<server, db, checkDue, stop, faults>>

GiveUp ==
    /\ pc = "failed"
    /\ err = "fatal" \/ attempt = MaxRetries
    /\ pc' = "idle" /\ attempt' = 0 /\ stop' = FALSE
    /\ Forget
    /\ UNCHANGED <<server, db, checkDue, marker, faults>>

(* cancel or a mode change, seen at one of the points where the code looks *)
Exit ==
    /\ stop
    /\ \/ pc \in {"connect", "prep", "top", "frontier", "after", "drain", "failed"}
       \/ pc = "pick" /\ Pending # {}
    /\ pc' = "idle" /\ attempt' = 0 /\ stop' = FALSE
    /\ Forget
    /\ UNCHANGED <<server, db, checkDue, marker, faults>>

Engine == \/ NetworkFails \/ Retip \/ InitialTip \/ Prepare \/ TopOfLoop
          \/ PeriodicRefresh \/ Fetch \/ FetchFrontier \/ ScanBatch \/ ScanBreaks
          \/ PostBatch \/ Drained \/ FinalTip \/ WitnessRepair \/ AnchorRepair
          \/ RepairsDone \/ MarkCompleted \/ Retry \/ GiveUp \/ Exit

Next == \/ Grow \/ (\E k \in 1..MaxHeight : Reorg(k))
        \/ RequestStop \/ Crash \/ Start \/ Engine

Spec == Init /\ [][Next]_vars

(* the tasks of the session run whenever they can, and the poller starts
   another session after one has ended *)
LiveSpec == Spec /\ WF_vars(Engine) /\ WF_vars(Start)

-----------------------------------------------------------------------------

TypeOK ==
    /\ chain \in Seq(Gens) /\ Len(chain) \in 1..MaxHeight
    /\ Len(fork) \in 1..(MaxGen + 1)
    /\ blocks \in Seq(Gens) /\ Len(blocks) <= MaxHeight
    /\ dbTip \in 0..MaxHeight
    /\ rescan \subseteq 1..Len(blocks) /\ damage \subseteq 1..Len(blocks)
    /\ marker \in [open : BOOLEAN, height : 0..MaxHeight]
    /\ pc \in {"idle", "connect", "retip0", "retip", "prep", "top", "pick",
               "frontier", "scan", "after", "drain", "repairs", "finish", "failed"}
    /\ taint \in 0..MaxHeight + 1
    /\ faults \in 0..MaxFaults

(* What scan_cached_blocks and the rewinds keep: whatever the server did
   between two requests, the stored blocks are one chain. *)
StoredChainLinked == Linked(blocks)

(* completed_sync_height_for_status: a closed marker is true of the database,
   also after a crash, a stop or a rewind in the middle of a session. *)
MarkerIsTrue ==
    ~marker.open => /\ Len(blocks) = marker.height /\ dbTip = marker.height
                    /\ rescan = {}
                    /\ taint # 0 => taint > marker.height - AnchorDepth

(* The session completes only on a tip whose stored hash the server has
   confirmed in this very attempt. *)
CompletionVouchedStep ==
    marker.open /\ ~marker'.open =>
       vouched = <<Len(blocks), blocks[Len(blocks)]>>
CompletionVouched == [][CompletionVouchedStep]_vars

(* A lagging replica never costs the wallet a block: without a reorganisation
   of the server's chain nothing that was scanned is dropped. *)
NoSpuriousRewindStep == gen = 0 => Len(blocks') >= Len(blocks)
NoSpuriousRewind == [][NoSpuriousRewindStep]_vars

(* A session that has begun ends, however often it has to rewind. *)
Idle == pc = "idle"
SessionEnds == ~Idle ~> Idle

(* Once the server is quiet the poller's sessions catch up with it, unless
   rescanning a damaged witness never cures it. *)
CaughtUp == ~marker.open /\ blocks = chain
Damaged == damage # {}
CatchesUp == []<>CaughtUp \/ <>[]Damaged
=============================================================================
