--------------------------- MODULE AnchorRetention ---------------------------
(***************************************************************************)
(* The tree checkpoints a migration keeps while the wallet scans.  Around  *)
(* every batch the sync engine stages the wanted references in             *)
(* vizor_migration_retained_anchors, pins the checkpoints in the tree,     *)
(* unpins the ones given up (their sentinel row says so until it is done)  *)
(* and removes the sentinels: four steps, each its own transaction, with a *)
(* crash possible between any two.  The tree forgets all but the newest    *)
(* Depth checkpoints that are not pinned.                                  *)
(***************************************************************************)
EXTENDS AnchorPolicy

CONSTANTS Runs,      \* migration runs
          Interval,  \* librustzcash's own retention interval
          Depth,     \* pruning depth of the tree
          MaxHeight, \* bound: the highest block
          MaxBatch,  \* blocks scanned at once
          Rewinds,   \* whether a reorganisation may rewind the wallet
          Crashes    \* whether the process may die inside a maintenance

VARIABLES refs,     \* the ledger: [run, h, owns]; run "" is the sentinel
          kept,     \* checkpoints pinned in the tree
          cps,      \* checkpoints in the tree
          past,     \* every checkpoint of the chain so far, pruned ones too
          scanned,  \* fully scanned height
          mined,    \* where the note of a run is mined, 0 for not yet
          need,     \* runs whose children still have to be proved
          pc, want, free, batch   \* the maintenance in progress

tree == <<kept, cps, past, scanned>>
op == <<pc, want, free, batch>>
vars == <<refs, tree, mined, need, op>>

Sentinel == ""
NoBatch == [to |-> 0, inc |-> {}]

\* is_wallet_durable_anchor
Durable(h) == h >= Activation /\ h % Interval = 0

Init ==
  /\ refs = {} /\ kept = {} /\ cps = {} /\ past = {} /\ scanned = 0
  /\ mined = [r \in Runs |-> 0] /\ need \in SUBSET Runs
  /\ pc = "idle" /\ want = {} /\ free = {} /\ batch = NoBatch

Heights(S) == {x.h : x \in S}
Owned == Heights({x \in refs : x.owns})

\* migration_anchor_retention_references
References == {[run |-> x.run, h |-> x.h] : x \in {y \in refs : y.run # Sentinel}}

\* migration_anchor_retention_required
Required == need # {} \/ refs # {}

\* faulty variant: what is given up is forgotten at once
FaultyStage(desired) ==
  LET release == {h \in Owned \ Heights(desired) : ~Durable(h)}
      owns(h) == h \in Owned \/ h \notin kept \/ ~Durable(h)
  IN /\ refs' = {[run |-> x.run, h |-> x.h, owns |-> owns(x.h)] : x \in desired}
     /\ want' = Heights(desired) /\ free' = release

\* faulty variant: a checkpoint is released even if librustzcash retains it too
FaultyDurableStage(desired) ==
  LET release == Heights(refs) \ Heights(desired)
  IN /\ refs' = {[run |-> x.run, h |-> x.h, owns |-> TRUE] : x \in desired}
                \union {[run |-> Sentinel, h |-> h, owns |-> TRUE] : h \in release}
     /\ want' = Heights(desired) /\ free' = release

\* stage_migration_anchor_retention_references.  One of the references of a checkpoint
\* owns it; which one makes no difference, so each of them is marked.
Stage(desired) ==
  LET release == {h \in Owned \ Heights(desired) : ~Durable(h)}
      owns(h) == h \in Owned \/ h \notin kept \/ ~Durable(h)
  IN /\ refs' = {[run |-> x.run, h |-> x.h, owns |-> owns(x.h)] : x \in desired}
                \union {[run |-> Sentinel, h |-> h, owns |-> TRUE] : h \in release}
     /\ want' = Heights(desired) /\ free' = release

-----------------------------------------------------------------------------
\* retain_migration_anchor_checkpoints_before_scan: the references so far and one for each
\* boundary the batch reaches
BeforeScan ==
  /\ pc = "idle" /\ scanned < MaxHeight
  /\ \E to \in (scanned + 1)..(IF scanned + MaxBatch < MaxHeight THEN scanned + MaxBatch ELSE MaxHeight),
        inc \in SUBSET ((scanned + 1)..MaxHeight) :
       /\ inc \subseteq 1..to /\ batch' = [to |-> to, inc |-> inc]
       /\ IF need = {} THEN pc' = "scan" /\ UNCHANGED <<refs, want, free>>
          ELSE /\ Stage(References \union
                   {[run |-> r, h |-> c] : r \in need,
                     c \in BatchRepresentatives(cps \union {scanned} \union inc, scanned, to + 1)})
               /\ pc' = "retain"
  /\ UNCHANGED <<tree, mined, need>>

\* faulty variant: the batch is pinned without asking whether its blocks are known
FaultyRetain ==
  /\ pc = "retain"
  /\ kept' = kept \union want \union {scanned} /\ pc' = "release"
  /\ UNCHANGED <<refs, cps, past, scanned, mined, need, want, free, batch>>

\* retain_orchard_checkpoint, release_orchard_checkpoint
Retain ==
  /\ pc = "retain"
  /\ kept' = kept \union want /\ pc' = "release"
  /\ UNCHANGED <<refs, cps, past, scanned, mined, need, want, free, batch>>

Release ==
  /\ pc = "release"
  /\ kept' = kept \ free /\ pc' = "finish"
  /\ UNCHANGED <<refs, cps, past, scanned, mined, need, want, free, batch>>

\* finish_migration_anchor_retention_releases
Finish ==
  /\ pc = "finish"
  /\ refs' = {x \in refs : ~(x.run = Sentinel /\ x.h \in free)}
  /\ pc' = IF batch = NoBatch THEN "idle" ELSE "scan"
  /\ want' = {} /\ free' = {}
  /\ UNCHANGED <<tree, mined, need, batch>>

\* the tree state before the batch, its checkpoints and the durable ones; then pruning
ScanBatch ==
  /\ pc = "scan"
  /\ LET all == cps \union ({scanned} \ {0}) \union batch.inc
                \union {h \in (scanned + 1)..batch.to : Durable(h)}
         pinned == kept \union {h \in all : h > scanned /\ Durable(h)}
     IN /\ kept' = pinned
        /\ cps' = {c \in all : c \in pinned \/ Cardinality({x \in all : x > c}) < Depth}
        /\ past' = past \union all
  /\ \E f \in [{r \in Runs : mined[r] = 0} -> {0} \union (batch.inc \ 0..Activation)] :
       mined' = [r \in Runs |-> IF mined[r] = 0 THEN f[r] ELSE mined[r]]
  /\ scanned' = batch.to /\ pc' = "scanned" /\ batch' = NoBatch
  /\ UNCHANGED <<refs, need, want, free>>

Anchor == scanned - Lag

\* retain_prepared_note_anchor_checkpoints_after_scan: only what the notes need now.  Without
\* a candidate everything is given up, without an anchor nothing is touched.
AfterScan ==
  /\ pc = "scanned"
  /\ IF ~Required \/ (need # {} /\ Anchor <= 0)
     THEN pc' = "idle" /\ UNCHANGED <<refs, want, free>>
     ELSE /\ Stage(UNION {{[run |-> r, h |-> c] : c \in CheckpointsToRetain(Anchor, mined[r], cps)} :
                            r \in {q \in need : mined[q] # 0 /\ mined[q] <= Anchor}})
          /\ pc' = "retain"
  /\ UNCHANGED <<tree, mined, need, batch>>

\* a run is created before its note is mined; its children are proved or it ends
Create(r) ==
  /\ pc = "idle" /\ r \notin need /\ mined[r] = 0 /\ need' = need \union {r}
  /\ UNCHANGED <<refs, tree, mined, op>>

Done(r) ==
  /\ r \in need /\ need' = need \ {r}
  /\ UNCHANGED <<refs, tree, mined, op>>

Crash ==
  /\ Crashes /\ pc # "idle" /\ pc' = "idle" /\ want' = {} /\ free' = {} /\ batch' = NoBatch
  /\ UNCHANGED <<refs, tree, mined, need>>

\* truncate_to_height after a reorganisation takes the pins above along
Rewind ==
  /\ Rewinds /\ pc = "idle"
  /\ \E h \in (IF scanned > Lag THEN scanned - Lag ELSE 0)..(scanned - 1) :
       /\ h \in cps /\ scanned' = h
       /\ kept' = {x \in kept : x <= h} /\ cps' = {x \in cps : x <= h} /\ past' = {x \in past : x <= h}
       /\ mined' = [r \in Runs |-> IF mined[r] > h THEN 0 ELSE mined[r]]
  /\ UNCHANGED <<refs, need, op>>

Next ==
  \/ BeforeScan \/ Retain \/ Release \/ Finish \/ ScanBatch \/ AfterScan
  \/ (\E r \in Runs : Create(r) \/ Done(r)) \/ Crash \/ Rewind

Spec == Init /\ [][Next]_vars

-----------------------------------------------------------------------------
TypeOK ==
  /\ refs \subseteq [run : Runs \union {Sentinel}, h : 1..MaxHeight, owns : BOOLEAN]
  /\ kept \subseteq 1..MaxHeight /\ cps \subseteq past /\ past \subseteq 1..MaxHeight
  /\ scanned \in 0..MaxHeight /\ mined \in [Runs -> 0..MaxHeight] /\ need \subseteq Runs

\* No pin is leaked: whatever crash interrupts the maintenance, a pinned checkpoint that is not
\* librustzcash's own is still named by a row that owns it, so a later pass can release it.
PinsAreOwned == \A h \in kept : Durable(h) \/ h \in Owned

\* The migration never takes away a checkpoint librustzcash retains for itself.
DurableStays == \A h \in past : Durable(h) => h \in kept

\* While a run still has children to prove, the checkpoint that represents the first eligible
\* boundary of its note has not been pruned: a proof that becomes due finds its witness.
WitnessKept ==
  \A r \in need :
    LET c == CandidateBoundaries(Anchor, mined[r])
    IN (pc = "idle" /\ mined[r] # 0 /\ mined[r] <= Anchor /\ c # {}) =>
         Representative(past, Max(c), mined[r]) \in cps \union {0}
=============================================================================
