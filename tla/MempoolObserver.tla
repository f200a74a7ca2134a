--------------------------- MODULE MempoolObserver ---------------------------
(***************************************************************************)
(* The mempool observer (sync_engine/mempool.rs): one run of the loop that *)
(* opens a channel, refreshes the chain tip, subscribes to the mempool     *)
(* stream and handles the transactions it delivers, with the cache of      *)
(* announced transactions, the short-lived cache of unmatched ones, the    *)
(* backoff between attempts and the cancel token that stop sets.           *)
(*                                                                         *)
(* Around it: the server, whose stream delivers its mempool again on every *)
(* connection and ends when a block is mined; the other writers of the     *)
(* wallet database; and time, which is only the rest of a cache entry's    *)
(* life.  Statistics and logging are left out.                             *)
(***************************************************************************)
EXTENDS Integers, Sequences, FiniteSets, SequencesExt

CONSTANTS
    Txs,          \* transactions
    Accounts,     \* accounts of the wallet
    Outputs,      \* Outputs[t]: the accounts a shielded output of t decrypts for
    SeenMax,      \* length of the cache of announced transactions
    UnmatchedMax, \* length of the cache of unmatched transactions
    Ttl           \* life of an unmatched entry, in ticks

ASSUME ObserverAssumption ==
    /\ Outputs \in [Txs -> SUBSET Accounts]
    /\ SeenMax \in Nat /\ UnmatchedMax \in Nat /\ Ttl \in Nat

VARIABLES
    pc,         \* where the loop is
    cancel,     \* the cancel token of this run
    errors,     \* consecutive_errors, 2 for any larger number
    delay,      \* the last reconnect delay
    seen,       \* TxidSeenCache
    unmatched,  \* TxidTtlCache: records [tx, left]
    cur,        \* the transaction being handled and what was found out about it
    mempool,    \* server: the transactions of its mempool
    stream,     \* transactions the open stream has still to deliver
    keys,       \* wallet database: the accounts whose viewing keys it holds
    rows,       \* wallet database: rows[t] is the row of t, with its accounts
    told,       \* accounts named to the app for t in this run
    quiet       \* stream errors in a row with no end of stream and no message between

loop   == <<pc, cancel, errors, delay>>
caches == <<seen, unmatched>>
vars   == <<loop, caches, cur, mempool, stream, keys, rows, told, quiet>>

None     == [tx |-> "none", known |-> {}, found |-> {}]
NoRow    == [state |-> "absent", accounts |-> {}]
Pending(t, as) == [state |-> "unmined", accounts |-> as]

Init ==
    /\ pc = "open" /\ cancel = FALSE /\ errors = 0 /\ delay = "none"
    /\ seen = <<>> /\ unmatched = <<>> /\ cur = None
    /\ mempool \in SUBSET Txs /\ stream = {}
    /\ keys \in SUBSET Accounts
    /\ rows = [t \in Txs |-> NoRow]
    /\ told = [t \in Txs |-> {}]
    /\ quiet = 0

-----------------------------------------------------------------------------
(* The caches. *)

\* faulty variant: an entry never makes room for another
FaultySeenInsert(s, t) == IF SeenMax = 0 \/ t \in Range(s) THEN s ELSE Append(s, t)
\* TxidSeenCache::insert: the oldest entries make room.
SeenInsert(s, t) ==
    IF SeenMax = 0 \/ t \in Range(s) THEN s
    ELSE LET grown == Append(s, t)
         IN  IF Len(grown) > SeenMax THEN Tail(grown) ELSE grown

\* faulty variant: an expired entry stays
FaultyPruneExpired(u) == u
\* TxidTtlCache::prune_expired: expired entries leave from the front.
PruneExpired(u) == SelectSeq(u, LAMBDA e : e.left > 0)

Unexpired(u, t) == \E e \in Range(PruneExpired(u)) : e.tx = t

\* TxidTtlCache::insert.
TtlInsert(u, t) ==
    LET grown == Append(PruneExpired(u), [tx |-> t, left |-> Ttl])
    IN  IF UnmatchedMax = 0 THEN u
        ELSE IF Len(grown) > UnmatchedMax THEN Tail(grown) ELSE grown

-----------------------------------------------------------------------------
(* The loop. *)

\* backoff_for: one second after the first failure, thirty after the next.
BackoffFor(n) == IF n <= 1 THEN "initial" ELSE "later"

Saturate(n) == IF n > 2 THEN 2 ELSE n

\* A step of the attempt failed: count it and sleep.
Fails(at) ==
    /\ pc = at
    /\ ~cancel
    /\ errors' = Saturate(errors + 1)
    /\ delay' = BackoffFor(errors + 1)
    /\ pc' = "sleep"
    /\ UNCHANGED <<cancel, caches, cur, mempool, stream, rows, told, quiet, keys>>

Reaches(at, next) ==
    /\ pc = at
    /\ ~cancel
    /\ pc' = next
    /\ UNCHANGED <<cancel, errors, delay, caches, cur, mempool, stream, rows, told, quiet, keys>>

\* open_lwd_channel: a fresh channel for this attempt.
OpenChannel == Reaches("open", "tip") \/ Fails("open")

\* get_latest_block_recorded, then update_mempool_chain_tip.
RefreshTip == Reaches("tip", "start") \/ Fails("tip")

\* start_mempool_stream: the server delivers its mempool from the start.
StartStream ==
    \/ /\ pc = "start" /\ ~cancel
       /\ stream' = mempool /\ pc' = "read" /\ errors' = 0
       /\ UNCHANGED <<cancel, delay, caches, cur, mempool, rows, told, quiet, keys>>
    \/ Fails("start")

\* stream.message() delivers a transaction; unparseable ones and those already
\* announced are dropped at once.
Message ==
    /\ pc = "read" /\ ~cancel
    /\ \E t \in stream :
         /\ stream' = stream \ {t}
         /\ IF t \in Range(seen)
              THEN UNCHANGED <<pc, cur, keys>>
              ELSE pc' = "lookup" /\ cur' = [None EXCEPT !.tx = t]
    /\ quiet' = 0
    /\ UNCHANGED <<cancel, errors, delay, caches, mempool, rows, told, keys>>

Unparsed ==
    /\ pc = "read" /\ ~cancel
    /\ \E t \in stream : stream' = stream \ {t}
    /\ quiet' = 0
    /\ UNCHANGED <<loop, caches, cur, mempool, rows, told, keys>>

\* Ok(None): a block was mined and the server closed the stream.
StreamEof ==
    /\ pc = "read" /\ ~cancel /\ stream = {}
    /\ errors' = 0 /\ delay' = "initial" /\ pc' = "sleep" /\ quiet' = 0
    /\ UNCHANGED <<cancel, caches, cur, mempool, stream, rows, told, keys>>

\* Err(e): the stream broke.
StreamError ==
    /\ pc = "read" /\ ~cancel
    /\ errors' = Saturate(errors + 1)
    /\ delay' = BackoffFor(errors + 1)
    /\ pc' = "sleep" /\ stream' = {} /\ quiet' = Saturate(quiet + 1)
    /\ UNCHANGED <<cancel, caches, cur, mempool, rows, told, keys>>

\* sleep_respecting_cancel, then the top of the loop.
Wake == Reaches("sleep", "open")

\* faulty variant: a read that blocks does not watch the token
FaultyStops ==
    /\ cancel
    /\ pc \in {"open", "tip", "start", "read", "sleep"}
    /\ pc' = IF pc = "read" THEN "read" ELSE "done"
    /\ UNCHANGED <<cancel, errors, delay, caches, cur, mempool, stream, rows, told, quiet, keys>>
\* watch_for_cancel: the token wins over whatever the loop is waiting for.
Stops ==
    /\ cancel
    /\ pc \in {"open", "tip", "start", "read", "sleep"}
    /\ pc' = "done"
    /\ UNCHANGED <<cancel, errors, delay, caches, cur, mempool, stream, rows, told, quiet, keys>>

-----------------------------------------------------------------------------
(* handle_mempool_tx *)

Skip ==
    /\ pc' = "read" /\ cur' = None
    /\ UNCHANGED <<cancel, errors, delay, mempool, stream, quiet, keys>>

\* emit_wallet_relevant_tx: remember the transaction and name the accounts.
Emit(t, as) ==
    /\ seen' = SeenInsert(seen, t)
    /\ told' = [told EXCEPT ![t] = @ \union as \union {"wallet"}]
    /\ Skip

\* lookup_known_pending_tx: an unmined row, and the accounts it maps to.
LookupFails ==
    /\ pc = "lookup"
    /\ Skip /\ UNCHANGED <<caches, rows, told>>

Lookup ==
    /\ pc = "lookup"
    /\ LET row == rows[cur.tx]
       IN  IF row.state = "unmined"
             THEN pc' = "known" /\ cur' = [cur EXCEPT !.known = row.accounts]
             ELSE pc' = "unknown" /\ cur' = cur
    /\ UNCHANGED <<cancel, errors, delay, caches, mempool, stream, rows, told, quiet, keys>>

\* decrypt_transaction under the viewing keys the wallet holds.
Found(t) == Outputs[t] \intersect keys

\* decrypt_and_store_transaction: the row exists with every decrypted account;
\* a transaction mined meanwhile stays mined.
Stored(t) ==
    [rows EXCEPT ![t] = [state |-> IF @.state = "mined" THEN "mined" ELSE "unmined",
                         accounts |-> @.accounts \union Found(t)]]

\* merge_account_uuids: whether decryption names an account the row lacks.
HasNewAccount(known, found) == ~(found \subseteq known)

\* faulty variant: the merged accounts are named although the store failed
FaultyKnownTx ==
    /\ pc = "known"
    /\ \E found \in {{}, Found(cur.tx)} :
         /\ \/ rows' = Stored(cur.tx)
            \/ rows' = rows
         /\ Emit(cur.tx, cur.known \union found)
    /\ UNCHANGED unmatched
\* An unmined row was found: trial decryption may add accounts, which are
\* stored before they are named.
KnownTx ==
    /\ pc = "known"
    /\ \E found \in {{}, Found(cur.tx)} :      \* a failed decryption finds none
         IF HasNewAccount(cur.known, found)
           THEN \/ /\ rows' = Stored(cur.tx)
                   /\ Emit(cur.tx, cur.known \union found)
                \/ /\ rows' = rows
                   /\ Emit(cur.tx, cur.known)
           ELSE /\ rows' = rows
                /\ Emit(cur.tx, cur.known)
    /\ UNCHANGED unmatched

\* No unmined row: a recent negative answer stands, else decrypt.
RecentlyUnmatched ==
    /\ pc = "unknown"
    /\ Unexpired(unmatched, cur.tx)
    /\ unmatched' = PruneExpired(unmatched)
    /\ Skip /\ UNCHANGED <<seen, rows, told>>

DecryptFails ==
    /\ pc = "unknown"
    /\ ~Unexpired(unmatched, cur.tx)
    /\ unmatched' = PruneExpired(unmatched)
    /\ Skip /\ UNCHANGED <<seen, rows, told>>

Decrypt ==
    /\ pc = "unknown"
    /\ ~Unexpired(unmatched, cur.tx)
    /\ IF Found(cur.tx) = {}
         THEN /\ unmatched' = TtlInsert(unmatched, cur.tx)
              /\ Skip
         ELSE /\ unmatched' = PruneExpired(unmatched)
              /\ pc' = "store" /\ cur' = [cur EXCEPT !.found = Found(cur.tx)]
              /\ UNCHANGED <<cancel, errors, delay, mempool, stream, quiet, keys>>
    /\ UNCHANGED <<seen, rows, told>>

StoreFails ==
    /\ pc = "store"
    /\ Skip /\ UNCHANGED <<caches, rows, told>>

StoreInbound ==
    /\ pc = "store"
    /\ rows' = Stored(cur.tx)
    /\ Emit(cur.tx, cur.found)
    /\ UNCHANGED unmatched

Handle == Lookup \/ KnownTx \/ RecentlyUnmatched \/ Decrypt \/ StoreInbound

-----------------------------------------------------------------------------
(* The rest of the world. *)

\* stop_mempool_observer sets the token of the run.
Stop ==
    /\ ~cancel
    /\ cancel' = TRUE
    /\ UNCHANGED <<pc, errors, delay, caches, cur, mempool, stream, rows, told, quiet, keys>>

\* The wallet records a transaction of its own; the recipient accounts are not
\* among the ones the row maps to yet.
WalletRecords(t) ==
    /\ rows[t] = NoRow
    /\ \E a \in keys : rows' = [rows EXCEPT ![t] = Pending(t, {a})]
    /\ UNCHANGED <<loop, caches, cur, mempool, stream, told, quiet, keys>>

\* An account is imported while the observer runs.
ImportAccount(a) ==
    /\ a \notin keys
    /\ keys' = keys \union {a}
    /\ UNCHANGED <<loop, caches, cur, mempool, stream, rows, told, quiet>>

\* A transaction enters the mempool, or a block takes it out; the scan then
\* sees it mined.
EntersMempool(t) ==
    /\ t \notin mempool /\ rows[t].state # "mined"
    /\ mempool' = mempool \union {t}
    /\ UNCHANGED <<loop, caches, cur, stream, rows, told, quiet, keys>>

MinedAndScanned(t) ==
    /\ t \in mempool
    /\ mempool' = mempool \ {t}
    /\ rows' = [rows EXCEPT ![t] = [state |-> "mined", accounts |-> @.accounts \union Found(t)]]
    /\ UNCHANGED <<loop, caches, cur, stream, told, quiet, keys>>

Tick ==
    /\ \E e \in Range(unmatched) : e.left > 0
    /\ unmatched' = [i \in DOMAIN unmatched |->
                       [unmatched[i] EXCEPT !.left = IF @ > 0 THEN @ - 1 ELSE @]]
    /\ UNCHANGED <<loop, seen, cur, mempool, stream, rows, told, quiet, keys>>

Done == pc = "done" /\ UNCHANGED vars

Next ==
    \/ OpenChannel \/ RefreshTip \/ StartStream
    \/ Message \/ Unparsed \/ StreamEof \/ StreamError \/ Wake \/ Stops
    \/ Lookup \/ LookupFails \/ KnownTx \/ RecentlyUnmatched
    \/ Decrypt \/ DecryptFails \/ StoreInbound \/ StoreFails
    \/ Stop \/ Tick \/ Done
    \/ \E a \in Accounts : ImportAccount(a)
    \/ \E t \in Txs : WalletRecords(t) \/ EntersMempool(t) \/ MinedAndScanned(t)

\* The task keeps running, and attempts that are repeated for ever succeed in
\* the end: the network, a database read and a database write do not fail for
\* ever, and a delivered transaction parses.
Fairness ==
    /\ SF_vars(Reaches("open", "tip")) /\ SF_vars(Reaches("tip", "start"))
    /\ SF_vars(pc' = "read" /\ StartStream)
    /\ WF_vars(Wake) /\ WF_vars(Stops) /\ WF_vars(Tick)
    /\ WF_vars(Handle) /\ WF_vars(StreamEof)
    /\ \A t \in Txs :
         /\ SF_vars(t \in stream /\ stream' = stream \ {t} /\ Message)
         /\ SF_vars(cur.tx = t /\ Lookup) /\ SF_vars(cur.tx = t /\ Decrypt)
         /\ SF_vars(cur.tx = t /\ StoreInbound)

Spec == Init /\ [][Next]_vars /\ Fairness

-----------------------------------------------------------------------------
TypeOK ==
    /\ pc \in {"open", "tip", "start", "read", "sleep", "done",
               "lookup", "known", "unknown", "store"}
    /\ cancel \in BOOLEAN /\ errors \in 0 .. 2 /\ quiet \in 0 .. 2
    /\ delay \in {"none", "initial", "later"}
    /\ Len(seen) <= SeenMax /\ Len(unmatched) <= UnmatchedMax
    /\ mempool \subseteq Txs /\ stream \subseteq Txs
    /\ told \in [Txs -> SUBSET (Accounts \union {"wallet"})]

(* The app is told of an account only after the row naming that account is
   committed, so the refresh the event triggers finds it
   (mempool.rs handle_mempool_tx: store, then emit). *)
ToldIsStored ==
    \A t \in Txs : told[t] \ {"wallet"} \subseteq rows[t].accounts

(* A transaction of ours that stays in the mempool, in a run nobody stops, is
   announced: neither a failed store nor a negative answer cached before the
   account was imported hides it for good. *)
Relevant(t) == Found(t) # {} \/ rows[t].state = "unmined"

AnnouncedInTheEnd ==
    \A t \in Txs :
        ([](t \in mempool /\ ~cancel) /\ <>Relevant(t)) => <>(told[t] # {})

(* A stop is heard wherever the loop waits: it ends. *)
Cancelled == cancel
Ended == pc = "done"
StopEnds == Cancelled ~> Ended

(* "(channel-open, RPC-start, AND stream-read failures -- the old code only
   applied it to the first two, leaving stream-read errors on a fixed 1s
   reconnect forever)": a server that accepts the stream and breaks it, twice in
   a row with nothing in between, is met with the long delay. *)
StreamErrorsBackOff == (quiet = 2 /\ pc = "sleep") => delay = "later"
=============================================================================
