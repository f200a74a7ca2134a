------------------------------ MODULE Enhancement ------------------------------
(***************************************************************************)
(* The enhancement pass of the sync (wallet/sync_engine/enhance.rs): what  *)
(* compact blocks leave out, the full transactions, their status and the   *)
(* history of transparent addresses, is asked of the server, and missing   *)
(* fees are worked out from the transactions that are spent.  A pass goes  *)
(* over the queue up to three times, since an answer may raise new         *)
(* requests.  The queue and the storing of a transaction belong to         *)
(* librustzcash: storing a transaction removes its request and may add     *)
(* requests for others.                                                    *)
(***************************************************************************)
EXTENDS Integers, FiniteSets, FiniteSetsExt

CONSTANTS
    Txs,        \* transactions
    Spends,     \* Spends[t]: transactions whose transparent outputs t spends
    Value,      \* Value[t]: what the output of t that is spent is worth
    Pays,       \* Pays[t]: what t pays out, fee excluded, less its shielded inputs
    Reveals,    \* Reveals[t]: transactions storing t asks for
    Known,      \* transactions the server knows
    Touching,   \* transactions that touch the account's transparent address
    MaxFailures \* bound: network failures, 0 for no bound

Rounds == 3

VARIABLES
    asks,      \* the queue: <<"status" or "enhance", t>>, and <<"address", open>>
    stored,    \* transactions whose bytes are stored
    settled,   \* transactions with a status: "mined" or "unmined" or "gone"
    fee,       \* stored fees, -1 for none
    pass,      \* the pass: [pc, round, left, failed, t, got]
    failures

vars == <<asks, stored, settled, fee, pass, failures>>

Idle == [pc |-> "idle", round |-> 0, left |-> {}, failed |-> {}, t |-> 0, back |-> "none", got |-> {}]

\* The fee a transaction really pays.
RealFee(t) == MapThenSumSet(LAMBDA p : Value[p], Spends[t]) - Pays[t]

Init ==
    /\ asks \in {{<<"enhance", t>>, <<"status", u>>, <<"address", b>>} : t, u \in Txs, b \in 0 .. 1}
    /\ stored = {} /\ settled = [t \in Txs |-> "none"] /\ fee = [t \in Txs |-> -1]
    /\ pass = Idle /\ failures = 0

-----------------------------------------------------------------------------

\* Address requests without an end height cannot be serviced.
IsActionable(a) == a[1] # "address" \/ a[2] = 1

\* stored_transaction_ids_missing_fee.
MissingFee == {t \in stored : fee[t] = -1}

Begin ==
    /\ pass.pc = "idle"
    /\ pass' = [Idle EXCEPT !.pc = "backfill", !.left = MissingFee]
    /\ UNCHANGED <<asks, stored, settled, fee, failures>>

\* backfill_stored_fees, one stored transaction after the other.
Backfill(t) ==
    /\ pass.pc = "backfill" /\ t \in pass.left
    /\ pass' = [pass EXCEPT !.pc = "fee", !.t = t, !.back = "backfill", !.left = @ \ {t}, !.got = {}]
    /\ UNCHANGED <<asks, stored, settled, fee, failures>>

\* The queue is read again for every round.
Round ==
    /\ pass.pc \in {"backfill", "requests"} /\ pass.left = {}
    /\ pass' = IF pass.round < Rounds /\ \E a \in asks : IsActionable(a)
               THEN [pass EXCEPT !.pc = "requests", !.round = @ + 1, !.left = asks]
               ELSE Idle
    /\ UNCHANGED <<asks, stored, settled, fee, failures>>

\* decrypt_and_store_transaction, and librustzcash's queue.
Store(t, more) ==
    /\ stored' = stored \union {t}
    /\ asks' = (asks \ (more \union {<<"enhance", t>>}))
                 \union IF t \in stored THEN {} ELSE {<<"enhance", u>> : u \in Reveals[t] \ (stored \union {t})}

Skip(a) ==
    /\ pass.pc = "requests" /\ a \in pass.left
    /\ ~IsActionable(a) \/ a[2] \in pass.failed
    /\ pass' = [pass EXCEPT !.left = @ \ {a}]
    /\ UNCHANGED <<asks, stored, settled, fee, failures>>

\* The server returns the transaction: it is stored, its fee looked up, and for
\* a status request its status set by the height it came with.
Answered(a) ==
    /\ pass.pc = "requests" /\ a \in pass.left /\ a[1] \in {"enhance", "status"}
    /\ a[2] \in Known /\ a[2] \notin pass.failed
    /\ Store(a[2], {a})
    /\ \E status \in {"mined", "unmined"} :
         settled' = IF a[1] = "status" THEN [settled EXCEPT ![a[2]] = status] ELSE settled
    /\ pass' = [pass EXCEPT !.pc = "fee", !.t = a[2], !.back = "requests", !.left = @ \ {a}, !.got = {}]
    /\ UNCHANGED <<fee, failures>>

\* An explicit "not found" settles the transaction.
NotRecognized(a) ==
    /\ pass.pc = "requests" /\ a \in pass.left /\ a[1] \in {"enhance", "status"}
    /\ a[2] \notin Known /\ a[2] \notin pass.failed
    /\ settled' = [settled EXCEPT ![a[2]] = "gone"]
    /\ asks' = asks \ {a}
    /\ pass' = [pass EXCEPT !.failed = @ \union {a[2]}, !.left = @ \ {a}]
    /\ UNCHANGED <<stored, fee, failures>>

\* faulty variant: any error of the server means the transaction is unknown
FaultyNetworkFails(a) ==
    /\ pass.pc = "requests" /\ a \in pass.left /\ IsActionable(a) /\ a[1] # "address"
    /\ settled' = [settled EXCEPT ![a[2]] = "gone"]
    /\ asks' = asks \ {a}
    /\ pass' = [pass EXCEPT !.left = @ \ {a}]
    /\ UNCHANGED <<stored, fee, failures>>

\* Every other error ends the pass and leaves the queue alone; the sync retries.
NetworkFails(a) ==
    /\ pass.pc = "requests" /\ a \in pass.left /\ IsActionable(a)
    /\ MaxFailures = 0 \/ failures < MaxFailures
    /\ failures' = IF MaxFailures = 0 THEN failures ELSE failures + 1
    /\ pass' = Idle
    /\ UNCHANGED <<asks, stored, settled, fee>>

\* get_taddress_txids: the transactions of the address in the range, one after
\* the other; the request is answered when the stream ends.
AddressTx(t) ==
    /\ pass.pc = "requests" /\ <<"address", 1>> \in pass.left /\ t \in Touching \ stored
    /\ Store(t, {})
    /\ pass' = [pass EXCEPT !.pc = "fee", !.t = t, !.back = "requests", !.got = {}]
    /\ UNCHANGED <<settled, fee, failures>>

AddressEnds ==
    /\ pass.pc = "requests" /\ <<"address", 1>> \in pass.left /\ Touching \subseteq stored
    /\ asks' = asks \ {<<"address", 1>>}
    /\ pass' = [pass EXCEPT !.left = @ \ {<<"address", 1>>}]
    /\ UNCHANGED <<stored, settled, fee, failures>>

-----------------------------------------------------------------------------
(* Fees *)

Resume == [pass EXCEPT !.pc = pass.back, !.t = 0, !.back = "none", !.got = {}]

\* should_fill_missing_fee.
FeeStands ==
    /\ pass.pc = "fee" /\ fee[pass.t] # -1 /\ pass' = Resume
    /\ UNCHANGED <<asks, stored, settled, fee, failures>>

\* fetch_transparent_prevout_values: each parent is a request of its own, and
\* one that cannot be had leaves the fee open.
FetchParent(p) ==
    /\ pass.pc = "fee" /\ fee[pass.t] = -1 /\ p \in Spends[pass.t] \ pass.got
    /\ p \in Known
    /\ pass' = [pass EXCEPT !.got = @ \union {p}]
    /\ UNCHANGED <<asks, stored, settled, fee, failures>>

\* faulty variant: a parent that cannot be had counts for nothing
FaultyParentMissing(p) ==
    /\ pass.pc = "fee" /\ fee[pass.t] = -1 /\ p \in Spends[pass.t] \ pass.got
    /\ fee' = [fee EXCEPT ![pass.t] = MapThenSumSet(LAMBDA q : Value[q], pass.got) - Pays[pass.t]]
    /\ pass' = Resume
    /\ UNCHANGED <<asks, stored, settled, failures>>

ParentMissing(p) ==
    /\ pass.pc = "fee" /\ fee[pass.t] = -1 /\ p \in Spends[pass.t] \ pass.got
    /\ \/ p \notin Known /\ UNCHANGED failures
       \/ p \in Known /\ failures < MaxFailures /\ failures' = failures + 1
    /\ pass' = Resume
    /\ UNCHANGED <<asks, stored, settled, fee>>

\* fee_from_prevout_values and persist_fee_if_missing.
PersistFee ==
    /\ pass.pc = "fee" /\ fee[pass.t] = -1 /\ pass.got = Spends[pass.t]
    /\ fee' = [fee EXCEPT ![pass.t] = MapThenSumSet(LAMBDA p : Value[p], pass.got) - Pays[pass.t]]
    /\ pass' = Resume
    /\ UNCHANGED <<asks, stored, settled, failures>>

-----------------------------------------------------------------------------

\* The app is killed, or the sync is stopped, in the middle of a pass.
Crash ==
    /\ pass.pc # "idle" /\ MaxFailures # 0 /\ failures < MaxFailures /\ failures' = failures + 1
    /\ pass' = Idle
    /\ UNCHANGED <<asks, stored, settled, fee>>

Progress ==
    \/ Begin \/ Round \/ AddressEnds \/ FeeStands \/ PersistFee
    \/ \E t \in Txs : Backfill(t) \/ FetchParent(t) \/ ParentMissing(t) \/ AddressTx(t)
    \/ \E a \in pass.left : pass.pc = "requests" /\ (Skip(a) \/ Answered(a) \/ NotRecognized(a))

Next == Progress \/ Crash \/ \E a \in pass.left : pass.pc = "requests" /\ NetworkFails(a)

\* The sync runs a pass after every batch, and the server answers in the end.
Spec == Init /\ [][Next]_vars /\ WF_vars(Progress)

-----------------------------------------------------------------------------

\* A fee that is stored is the fee: parents the server did not give, answers
\* lost half way and passes that were cut off never leave a wrong one.
FeeIsRight == \A t \in Txs : fee[t] # -1 => fee[t] = RealFee(t)

\* Whatever the wallet asked for and the server knows is stored in the end,
\* whichever request failed on the way and whatever it revealed.
Asked == {a[2] : a \in {b \in asks : b[1] # "address"}}
Waits(t) == t \in Asked
Stored(t) == t \in stored
EveryAskIsAnswered == \A t \in Known : Waits(t) ~> Stored(t)
=============================================================================
