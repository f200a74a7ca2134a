---------------------------- MODULE SummaryCache ----------------------------
(***************************************************************************)
(* The process-wide cache of wallet summaries and the seqlock epoch that   *)
(* invalidates it.                                                         *)
(*                                                                         *)
(*   rust/src/wallet/wallet_summary_cache.rs   the cache                   *)
(*   rust/src/wallet/db.rs                     write lock and write epoch  *)
(*   rust/src/wallet/keys.rs                   delete_account              *)
(*                                                                         *)
(* Reader threads call get_wallet_summary_cached; writers run closures     *)
(* under with_wallet_db_write_lock.  A summary is abstracted to the        *)
(* version of the wallet database it was computed from.  A cache key is a  *)
(* database path: a wallet file is only ever opened for one network.       *)
(***************************************************************************)
EXTENDS Naturals

CONSTANTS
    Readers,      \* threads that ask for a summary
    Paths,        \* wallet database files
    Slots,        \* Arc<Mutex<EntrySlot>> allocations
    NoOne,        \* nobody: a free mutex, no writer, no slot, no entry
    MaxVersion,   \* bound: commits per database
    MaxEpoch      \* bound: write sections per run, two epochs each

ASSUME CacheAssumption ==
    /\ NoOne \notin Readers \cup Paths \cup Slots
    /\ MaxVersion \in Nat
    /\ MaxEpoch \in Nat

VARIABLES
    epoch,      \* WALLET_DB_WRITE_EPOCH
    writing,    \* path whose write closure is running, or NoOne
    db,         \* db[p]: version of the committed contents of p
    file,       \* file[p]: "live", "gone" (deleted) or "blank" (re-created empty)
    entryMap,   \* entryMap[p]: slot of key p, or NoOne
    cached,     \* cached[s]: the CacheEntry of slot s, or NoOne
    holder,     \* holder[s]: thread that holds the mutex of slot s
    call,       \* call[r]: the summary call thread r is in
    evicted,    \* history: deleted wallets that evict_db has run for since
    late        \* history: threads whose call began after such an eviction

vars == <<epoch, writing, db, file, entryMap, cached, holder, call, evicted, late>>

dbVars == <<epoch, writing, db>>
slotVars == <<entryMap, cached, holder>>
history == <<evicted, late>>

Even(n) == n % 2 = 0

Entry == [epoch : Nat, summary : Nat]

PCs == {"idle", "lock", "check", "exists", "before", "load", "after", "hit", "ok", "err"}

(* floor is history: the version committed when the call began.            *)
Call == [pc : PCs, path : Paths \cup {NoOne}, slot : Slots \cup {NoOne}, epoch : Nat,
         summary : Nat, floor : Nat]

IdleCall == [pc |-> "idle", path |-> NoOne, slot |-> NoOne, epoch |-> 0,
             summary |-> 0, floor |-> 0]

TypeOK ==
    /\ epoch \in Nat
    /\ writing \in Paths \cup {NoOne}
    /\ db \in [Paths -> Nat]
    /\ file \in [Paths -> {"live", "gone", "blank"}]
    /\ entryMap \in [Paths -> Slots \cup {NoOne}]
    /\ cached \in [Slots -> Entry \cup {NoOne}]
    /\ holder \in [Slots -> Readers \cup {NoOne}]
    /\ call \in [Readers -> Call]
    /\ evicted \subseteq Paths
    /\ late \subseteq Readers

Init ==
    /\ epoch = 0
    /\ writing = NoOne
    /\ db = [p \in Paths |-> 0]
    /\ file = [p \in Paths |-> "live"]
    /\ entryMap = [p \in Paths |-> NoOne]
    /\ cached = [s \in Slots |-> NoOne]
    /\ holder = [s \in Slots |-> NoOne]
    /\ call = [r \in Readers |-> IdleCall]
    /\ evicted = {}
    /\ late = {}

-----------------------------------------------------------------------------
(* Writers: with_wallet_db_write_lock.                                     *)

\* Take the write mutex and make the epoch odd.
BeginWrite(p) ==
    /\ writing = NoOne
    /\ file[p] = "live"
    /\ epoch < MaxEpoch
    /\ writing' = p
    /\ epoch' = epoch + 1
    /\ UNCHANGED <<db, file, slotVars, call, history>>

\* One SQLite commit inside the closure; a closure may commit several times.
Commit ==
    /\ writing # NoOne
    /\ db[writing] < MaxVersion
    /\ db' = [db EXCEPT ![writing] = @ + 1]
    /\ UNCHANGED <<epoch, writing, file, slotVars, call, history>>

\* Drop of WriteEpochGuard, on return and on unwind, then of the mutex.
EndWrite ==
    /\ writing # NoOne
    /\ writing' = NoOne
    /\ epoch' = epoch + 1
    /\ UNCHANGED <<db, file, slotVars, call, history>>

\* Faulty variant: empties the slot in place instead of forgetting it.
EvictInPlace(p) ==
    /\ writing = p \/ file[p] # "live"
    /\ entryMap[p] # NoOne \/ (file[p] # "live" /\ p \notin evicted)
    /\ cached' = [s \in Slots |-> IF s = entryMap[p] THEN NoOne ELSE cached[s]]
    /\ evicted' = IF file[p] # "live" THEN evicted \cup {p} ELSE evicted
    /\ UNCHANGED <<dbVars, file, entryMap, holder, call, late>>

\* evict_db: forget the slot; threads that cloned the Arc keep it.  Runs in
\* the write closure of delete_account and after resetWallet deleted the file.
EvictDb(p) ==
    /\ writing = p \/ file[p] # "live"
    /\ entryMap[p] # NoOne \/ (file[p] # "live" /\ p \notin evicted)
    /\ entryMap' = [entryMap EXCEPT ![p] = NoOne]
    /\ evicted' = IF file[p] # "live" THEN evicted \cup {p} ELSE evicted
    /\ UNCHANGED <<dbVars, file, cached, holder, call, late>>

\* resetWallet removes the database file from Dart, outside the write lock,
\* once sync and every other mutation has stopped.
DeleteDb(p) ==
    /\ file[p] = "live"
    /\ writing # p
    /\ file' = [file EXCEPT ![p] = "gone"]
    /\ UNCHANGED <<dbVars, slotVars, call, history>>

-----------------------------------------------------------------------------
(* Readers: get_or_load_with_epoch.                                        *)

\* An allocation no map entry and no call refers to has been dropped.
Unreferenced(s) ==
    /\ \A p \in Paths : entryMap[p] # s
    /\ \A r \in Readers : call[r].slot # s

\* slot_for: clone the slot of the key, allocating an empty one if there is none.
SlotFor(r, p) ==
    /\ call[r].pc = "idle"
    /\ \E s \in Slots :
          /\ \/ entryMap[p] = s /\ UNCHANGED <<entryMap, cached>>
             \/ /\ entryMap[p] = NoOne
                /\ Unreferenced(s)
                /\ entryMap' = [entryMap EXCEPT ![p] = s]
                /\ cached' = [cached EXCEPT ![s] = NoOne]
          /\ call' = [call EXCEPT ![r] =
                [IdleCall EXCEPT !.pc = "lock", !.path = p, !.slot = s,
                                 !.floor = db[p]]]
    /\ late' = IF p \in evicted THEN late \cup {r} ELSE late
    /\ UNCHANGED <<dbVars, file, holder, evicted>>

\* slot.lock(): held through the load, so callers of one key share a load.
LockSlot(r) ==
    LET s == call[r].slot IN
    /\ call[r].pc = "lock"
    /\ holder[s] = NoOne
    /\ holder' = [holder EXCEPT ![s] = r]
    /\ call' = [call EXCEPT ![r].pc = "check"]
    /\ UNCHANGED <<dbVars, file, entryMap, cached, history>>

\* The epoch half of the hit test.
CheckEpoch(r) ==
    LET s == call[r].slot
        usable == cached[s] # NoOne /\ cached[s].epoch = epoch /\ Even(epoch)
    IN
    /\ call[r].pc = "check"
    /\ IF usable
       THEN /\ call' = [call EXCEPT ![r].pc = "exists", ![r].summary = cached[s].summary]
            /\ UNCHANGED cached
       ELSE /\ call' = [call EXCEPT ![r].pc = "before"]
            /\ cached' = [cached EXCEPT ![s] = NoOne]
    /\ UNCHANGED <<dbVars, file, entryMap, holder, history>>

\* The file half of the hit test: Path::new(db_path).exists().
CheckExists(r) ==
    LET s == call[r].slot IN
    /\ call[r].pc = "exists"
    /\ \/ /\ file[call[r].path] # "gone"
          /\ call' = [call EXCEPT ![r].pc = "hit"]
          /\ holder' = [holder EXCEPT ![s] = NoOne]
          /\ UNCHANGED cached
       \/ /\ file[call[r].path] = "gone"
          /\ call' = [call EXCEPT ![r].pc = "before"]
          /\ cached' = [cached EXCEPT ![s] = NoOne]
          /\ UNCHANGED holder
    /\ UNCHANGED <<dbVars, file, entryMap, history>>

ReadEpochBefore(r) ==
    /\ call[r].pc = "before"
    /\ call' = [call EXCEPT ![r].pc = "load", ![r].epoch = epoch]
    /\ UNCHANGED <<dbVars, file, slotVars, history>>

\* The loader reads one SQLite snapshot.
LoadOk(r) ==
    LET p == call[r].path IN
    /\ call[r].pc = "load"
    /\ file[p] = "live"
    /\ call' = [call EXCEPT ![r].pc = "after", ![r].summary = db[p]]
    /\ UNCHANGED <<dbVars, file, slotVars, history>>

\* Faulty variant: the error is cached.
LoadErrCached(r) ==
    LET p == call[r].path
        s == call[r].slot
    IN
    /\ call[r].pc = "load"
    /\ file' = [file EXCEPT ![p] = IF @ = "gone" THEN "blank" ELSE @]
    /\ cached' = [cached EXCEPT ![s] = [epoch |-> call[r].epoch, error |-> TRUE]]
    /\ holder' = [holder EXCEPT ![s] = NoOne]
    /\ call' = [call EXCEPT ![r].pc = "err"]
    /\ UNCHANGED <<dbVars, entryMap, history>>

\* The loader fails: a busy timeout, or no wallet in the file.  Opening a
\* deleted path re-creates an empty file.  Errors are never cached.
LoadErr(r) ==
    LET p == call[r].path
        s == call[r].slot
    IN
    /\ call[r].pc = "load"
    /\ file' = [file EXCEPT ![p] = IF @ = "gone" THEN "blank" ELSE @]
    /\ cached' = [cached EXCEPT ![s] = NoOne]
    /\ holder' = [holder EXCEPT ![s] = NoOne]
    /\ call' = [call EXCEPT ![r].pc = "err"]
    /\ UNCHANGED <<dbVars, entryMap, history>>

\* Faulty variant: publishes under the epoch read after the load.
PublishLate(r) ==
    LET s == call[r].slot
        entry == [epoch |-> epoch, summary |-> call[r].summary]
    IN
    /\ call[r].pc = "after"
    /\ cached' = [cached EXCEPT ![s] = IF Even(epoch) THEN entry ELSE NoOne]
    /\ holder' = [holder EXCEPT ![s] = NoOne]
    /\ call' = [call EXCEPT ![r].pc = "ok"]
    /\ UNCHANGED <<dbVars, file, entryMap, history>>

\* Publish only a load no write section overlapped.
Publish(r) ==
    LET s == call[r].slot
        entry == [epoch |-> call[r].epoch, summary |-> call[r].summary]
        quiet == call[r].epoch = epoch /\ Even(epoch)
    IN
    /\ call[r].pc = "after"
    /\ cached' = [cached EXCEPT ![s] = IF quiet THEN entry ELSE NoOne]
    /\ holder' = [holder EXCEPT ![s] = NoOne]
    /\ call' = [call EXCEPT ![r].pc = "ok"]
    /\ UNCHANGED <<dbVars, file, entryMap, history>>

\* The caller takes the result; its clone of the Arc is dropped.
Return(r) ==
    /\ call[r].pc \in {"hit", "ok", "err"}
    /\ call' = [call EXCEPT ![r] = IdleCall]
    /\ late' = late \ {r}
    /\ UNCHANGED <<dbVars, file, slotVars, evicted>>

ReaderStep(r) ==
    \/ LockSlot(r)
    \/ CheckEpoch(r)
    \/ CheckExists(r)
    \/ ReadEpochBefore(r)
    \/ LoadOk(r)
    \/ LoadErr(r)
    \/ Publish(r)
    \/ Return(r)

Next ==
    \/ \E p \in Paths : BeginWrite(p) \/ EvictDb(p) \/ DeleteDb(p)
    \/ Commit
    \/ EndWrite
    \/ \E r \in Readers, p \in Paths : SlotFor(r, p)
    \/ \E r \in Readers : ReaderStep(r)

Spec == Init /\ [][Next]_vars

-----------------------------------------------------------------------------
(* Properties                                                              *)

Returning(r) == call[r].pc \in {"hit", "ok"}

(* A summary call never returns balances older than the last commit that   *)
(* preceded the call, whatever write sections overlap it: the promise of   *)
(* the seqlock epoch in get_or_load_with_epoch.                            *)
FreshSummary == \A r \in Readers : Returning(r) => call[r].summary >= call[r].floor

(* Once a deleted wallet has been evicted, the cache keeps none of its     *)
(* balances reachable and no later call returns them, not even when a slow *)
(* reader that cloned the old slot finishes afterwards: the promise of     *)
(* evict_db.                                                               *)
EvictedStaysGone ==
    /\ \A p \in evicted : entryMap[p] # NoOne => cached[entryMap[p]] = NoOne
    /\ \A r \in late : ~Returning(r)
=============================================================================
