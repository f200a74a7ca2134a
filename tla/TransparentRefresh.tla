------------------------- MODULE TransparentRefresh -------------------------
(***************************************************************************)
(* The transparent outputs of one account: refresh_utxos asks the server   *)
(* for the newest external addresses every time and sweeps the older ones  *)
(* in turn, and the receive cache beside the wallet database remembers how *)
(* far each address was checked, where the sweep goes on and which address *)
(* is offered next.  The user interface rewrites the same cache record     *)
(* from a thread of its own; a record is read and written under the cache  *)
(* lock, but not in one critical section.                                  *)
(***************************************************************************)
EXTENDS Integers, Sequences, FiniteSets

CONSTANTS
    N,           \* external addresses, by child index
    RecentLimit, \* TRANSPARENT_UTXO_RECENT_EXTERNAL_LIMIT
    SweepLimit,  \* TRANSPARENT_UTXO_SWEEP_EXTERNAL_LIMIT
    Lookback,    \* TRANSPARENT_UTXO_REQUERY_LOOKBACK
    MaxTip,      \* bound on the chain
    MaxOuts,     \* bound on the outputs ever mined
    MaxUi,       \* bound on the calls of the user interface
    MaxFaults    \* bound on failed downloads, stops and crashes

Addr == 0..(N - 1)
None == [kind |-> "none"]
Birthday == 1

VARIABLES
    tip,     \* height of the chain
    outs,    \* outputs on the chain: [addr, h]
    stored,  \* outputs the wallet has stored
    rec,     \* the cache record, or None
    pc, batches, base, got,   \* the refresh of the sync session
    ui,      \* a user interface call between its reads and its write
    raced,   \* the record was written from addresses read before a store
    uis, faults

vars == <<tip, outs, stored, rec, pc, batches, base, got, ui, raced, uis, faults>>

Received(a) == \E o \in stored : o.addr = a

(* projected_external_addresses keeps the used addresses and the first
   unused one, which is the one that is offered *)
FirstUnused ==
    IF \A a \in Addr : Received(a) THEN N
    ELSE CHOOSE a \in Addr : ~Received(a) /\ \A b \in 0..(a - 1) : Received(b)

EmptyRecord == [kind |-> "rec", dirty |-> FALSE, offer |-> N,
                checked |-> [a \in Addr |-> 0], offset |-> 0]

(* read_compatible_record, or empty_record *)
ReadRecord == IF rec = None THEN EmptyRecord ELSE rec

Smallest(S) == CHOOSE x \in S : \A y \in S : x <= y
Larger(a, b) == IF a > b THEN a ELSE b

(* refresh_batch: from the lowest height any of its addresses still needs *)
BatchStart(r, addrs) ==
    Smallest({IF r.checked[a] = 0 THEN Birthday
              ELSE Larger(r.checked[a] - Lookback, Birthday) : a \in addrs})

Recent == {a \in Addr : a >= N - RecentLimit}
OldCount == N - Cardinality(Recent)
OldAt(i) == OldCount - 1 - i      \* the older addresses, newest first

(* faulty variant: the sweep stays where it is *)
FaultyNextOffset(r) == r.offset % OldCount

(* faulty variant: the sweep does not close its circle *)
FaultyOpenOffset(r) == r.offset + SweepLimit

NextOffset(r) == ((r.offset % OldCount) + SweepLimit) % OldCount

Swept(r) == {OldAt((r.offset + i) % OldCount) : i \in 0..(SweepLimit - 1)}

(* external_utxo_refresh_batches *)
PlannedBatches(r) ==
    <<[addrs |-> Recent, start |-> BatchStart(r, Recent), next |-> r.offset]>> \o
    IF OldCount = 0 THEN <<>>
    ELSE <<[addrs |-> Swept(r), start |-> BatchStart(r, Swept(r)), next |-> NextOffset(r)]>>

Init ==
    /\ tip = 1 /\ outs = {} /\ stored = {} /\ rec = None
    /\ pc = "idle" /\ batches = <<>> /\ base = 0 /\ got = {}
    /\ ui = None /\ raced = FALSE /\ uis = MaxUi /\ faults = MaxFaults

(***************************************************************************)
(* The chain: a block with at most one output, or a reorganisation no      *)
(* deeper than the lookback that moves outputs between its blocks.         *)
(***************************************************************************)

Mine ==
    /\ tip < MaxTip
    /\ tip' = tip + 1
    /\ \/ outs' = outs
       \/ \E a \in Addr : /\ Cardinality(outs) < MaxOuts
                          /\ outs' = outs \union {[addr |-> a, h |-> tip + 1]}
    /\ UNCHANGED <<stored, rec, pc, batches, base, got, ui, raced, uis, faults>>

Reorg ==
    /\ faults > 0
    /\ \E o \in outs, a \in Addr, h \in (tip - Lookback + 1)..tip :
        /\ o.h > tip - Lookback
        /\ outs' = (outs \ {o}) \union {[addr |-> a, h |-> h]}
    /\ faults' = faults - 1
    /\ UNCHANGED <<tip, stored, rec, pc, batches, base, got, ui, raced, uis>>

(***************************************************************************)
(* refresh_utxos.                                                          *)
(***************************************************************************)

(* plan_external_utxo_refresh also rewrites the record as clean *)
Plan ==
    /\ pc = "idle"
    /\ LET r == ReadRecord IN
        /\ batches' = PlannedBatches(r)
        /\ rec' = [r EXCEPT !.dirty = FALSE, !.offer = FirstUnused]
    /\ base' = tip /\ pc' = "download" /\ raced' = FALSE
    /\ UNCHANGED <<tip, outs, stored, got, ui, uis, faults>>

(* every batch of the group, or nothing: download_transparent_refresh_group *)
Download ==
    /\ pc = "download"
    /\ got' = {o \in outs : \E i \in DOMAIN batches :
                   o.addr \in batches[i].addrs /\ o.h >= batches[i].start}
    /\ pc' = "store"
    /\ UNCHANGED <<tip, outs, stored, rec, batches, base, ui, raced, uis, faults>>

(* an error of any stream, or the session is told to stop *)
GroupFails ==
    /\ pc \in {"download", "store"} /\ faults > 0
    /\ pc' = "idle" /\ got' = {} /\ batches' = <<>> /\ faults' = faults - 1
    /\ UNCHANGED <<tip, outs, stored, rec, base, ui, raced, uis>>

(* faulty variant: the marks are written before the outputs *)
FaultyStore ==
    /\ pc = "store"
    /\ pc' = "mark"
    /\ UNCHANGED <<tip, outs, stored, rec, batches, base, got, ui, raced, uis, faults>>

(* store_then_mark_transparent_refreshes: the outputs of the whole group in
   one transaction, the cache only after it *)
Store ==
    /\ pc = "store"
    /\ stored' = stored \union got
    /\ ui' = IF ui # None /\ ~(got \subseteq stored) THEN [ui EXCEPT !.stale = TRUE] ELSE ui
    /\ pc' = "mark"
    /\ UNCHANGED <<tip, outs, rec, batches, base, got, raced, uis, faults>>

(* faulty variant: a completed batch leaves the record clean *)
FaultyMarkChecked(r, b) ==
    [r EXCEPT !.checked = [a \in Addr |-> IF a \in b.addrs THEN base + 1 ELSE @[a]],
              !.offset = b.next, !.dirty = FALSE]

(* mark_utxo_refresh_batch_complete: the tip the session began with *)
MarkChecked(r, b) ==
    [r EXCEPT !.checked = [a \in Addr |-> IF a \in b.addrs THEN base + 1 ELSE @[a]],
              !.offset = b.next]

(* update_transparent_refresh_cache_metadata, batch after batch *)
Mark ==
    /\ pc = "mark"
    /\ batches # <<>> /\ rec # None
    /\ LET b == batches[1]
           dirty == \E o \in got : o.addr \in b.addrs
       IN  rec' = MarkChecked([rec EXCEPT !.dirty = @ \/ dirty], b)
    /\ batches' = IF Len(batches) = 1 THEN <<>> ELSE <<batches[2]>>
    /\ pc' = IF Len(batches) = 1 THEN "refresh" ELSE "mark"
    /\ got' = IF Len(batches) = 1 THEN {} ELSE got
    /\ UNCHANGED <<tip, outs, stored, base, ui, raced, uis, faults>>

(* refresh_all_from_wallet_db at the end of the session: write_clean_addresses
   keeps the checked heights and the sweep *)
RefreshAll ==
    /\ pc = "refresh"
    /\ rec' = [ReadRecord EXCEPT !.dirty = FALSE, !.offer = FirstUnused]
    /\ raced' = FALSE /\ pc' = "idle"
    /\ UNCHANGED <<tip, outs, stored, batches, base, got, ui, uis, faults>>

Crash ==
    /\ pc # "idle" /\ faults > 0
    /\ raced' = (raced \/ pc \in {"mark"})
    /\ pc' = "idle" /\ got' = {} /\ batches' = <<>> /\ ui' = None
    /\ faults' = faults - 1
    /\ UNCHANGED <<tip, outs, stored, rec, base, uis>>

(***************************************************************************)
(* The user interface.                                                     *)
(***************************************************************************)

(* refresh_account_from_wallet_db reads the addresses and the old record *)
UiRead ==
    /\ ui = None /\ uis > 0 /\ (rec # None => rec.dirty)
    /\ ui' = [kind |-> "ui", old |-> ReadRecord, offer |-> FirstUnused, stale |-> FALSE]
    /\ uis' = uis - 1
    /\ UNCHANGED <<tip, outs, stored, rec, pc, batches, base, got, raced, faults>>

UiWrite ==
    /\ ui # None
    /\ rec' = [ui.old EXCEPT !.dirty = FALSE, !.offer = ui.offer]
    /\ raced' = (raced \/ ui.stale)
    /\ ui' = None
    /\ UNCHANGED <<tip, outs, stored, pc, batches, base, got, uis, faults>>

Next == Mine \/ Reorg \/ Plan \/ Download \/ GroupFails \/ Store \/ Mark
        \/ RefreshAll \/ Crash \/ UiRead \/ UiWrite

Spec == Init /\ [][Next]_vars

(* the session's own steps are taken, and another session follows *)
Session == Plan \/ Download \/ Store \/ Mark \/ RefreshAll
LiveSpec == Spec /\ WF_vars(Session) /\ WF_vars(UiWrite)

-----------------------------------------------------------------------------

TypeOK ==
    /\ pc \in {"idle", "download", "store", "mark", "refresh"}
    /\ \A o \in outs \union stored : o.addr \in Addr /\ o.h \in 1..MaxTip
    /\ rec # None => /\ rec.offer \in 0..N /\ rec.offset \in 0..N
                     /\ \A a \in Addr : rec.checked[a] \in 0..(MaxTip + 1)

(* An output on the chain below the height from which its address is asked
   for again is in the wallet: no crash, stop, failed group or concurrent
   rewrite of the cache record makes the bounded refresh skip it. *)
NothingMissed ==
    rec # None => \A o \in outs : o.h < rec.checked[o.addr] - Lookback => o \in stored

(* get_clean_address offers an address that has received nothing, except in
   the two windows the code leaves: between the store and the mark of the
   same group (or a crash there), and after a user interface call that read
   the addresses before a store and wrote them after it. *)
OfferIsUnused ==
    rec # None /\ ~rec.dirty /\ pc # "mark" /\ ~raced /\ rec.offer < N => ~Received(rec.offer)

(* Every address is asked for again and again, however large the account is:
   once the chain rests, each of its outputs gets into the wallet. *)
AllStored == outs \subseteq stored
EverySwept == <>[]AllStored
=============================================================================
