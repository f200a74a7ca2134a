----------------------------- MODULE Resubmission -----------------------------
(***************************************************************************)
(* Automatic resubmission (wallet/sync/send.rs resubmit_pending_...,       *)
(* wallet/sync/transactions.rs get_resubmittable_txs): after a scan the    *)
(* wallet sends its pending outbound transactions to the server again,     *)
(* parents before the children that spend their transparent outputs, each  *)
(* at most twice, on the route of the moment, until the sync is cancelled. *)
(* A child whose pending parent was not accepted in the same pass waits.   *)
(*                                                                         *)
(* Transactions are numbers in the order of their txids.                   *)
(***************************************************************************)
EXTENDS Integers, Sequences, FiniteSets, FiniteSetsExt, SequencesExt

CONSTANTS
    N,           \* transactions
    Parents,     \* Parents[t]: transactions whose transparent outputs t spends
    Unreadable,  \* stored bytes that do not parse
    Refused,     \* transactions the server never accepts
    MaxPasses,   \* bound: passes, 0 for no bound
    MaxHeight    \* bound: height of the chain

VARIABLES
    row,      \* wallet: [mined, expiry, raw] of each transaction
    height,   \* height the sync has scanned to
    pool,     \* the server's mempool
    tor,      \* whether Tor is the route that is wanted
    pass,     \* the running pass, or None
    passes,   \* passes begun
    sends,    \* sends of each transaction in the running pass
    orphaned  \* transactions sent while a pending parent was unknown to the server

vars == <<row, height, pool, tor, pass, passes, sends, orphaned>>

None == [list |-> << >>, parents |-> << >>, succeeded |-> {}, retry |-> FALSE, cancel |-> FALSE, on |-> FALSE]

Queue == 1 .. N

\* The bytes a row holds parse to the transaction, or say nothing.
ReadParents(t) == IF t \in Unreadable THEN {} ELSE Parents[t]

Init ==
    /\ row \in [Queue -> {[mined |-> FALSE, expiry |-> e, raw |-> TRUE] : e \in {0, MaxHeight}}]
    /\ height = 1 /\ pool = {} /\ tor = FALSE /\ pass = None /\ passes = 0
    /\ sends = [t \in Queue |-> 0] /\ orphaned = {}

-----------------------------------------------------------------------------
(* Candidates *)

\* Unmined, with bytes, and not past the expiry height (zero for none).
Relayable(t) == ~row[t].mined /\ row[t].raw /\ (row[t].expiry = 0 \/ row[t].expiry > height)

\* has_pending_raw_transaction: the cheap query says no only when the full one
\* has no rows.
SkipView == \A t \in Queue : ~Relayable(t)

Candidates(excluded) == IF SkipView THEN {} ELSE {t \in Queue : Relayable(t)} \ excluded

InSetParents(t, cands) == ReadParents(t) \intersect cands

\* faulty variant: only the first level of parents comes first
FaultyReady(cands, done) ==
    {t \in cands \ done : \A p \in InSetParents(t, cands) : InSetParents(p, cands) = {} => p \in done}

\* Every parent in the set has been emitted.
Ready(cands, done) == {t \in cands \ done : InSetParents(t, cands) \subseteq done}

\* order_resubmittable_transactions: the smallest ready txid next; what is left
\* of a cycle comes last.
Order(cands) ==
    LET Emit[done \in SUBSET cands] ==
            IF Ready(cands, done) = {}
            THEN SetToSortSeq(cands \ done, <)
            ELSE LET t == Min(Ready(cands, done)) IN <<t>> \o Emit[done \union {t}]
    IN  Emit[{}]

\* faulty variant: a child is sent whatever became of its parent
FaultyDependenciesSucceeded(t, cands, succeeded) == TRUE

DependenciesSucceeded(t, cands, succeeded) == InSetParents(t, cands) \subseteq succeeded

-----------------------------------------------------------------------------
(* A pass *)

BeginPass(excluded) ==
    /\ ~pass.on /\ (MaxPasses = 0 \/ passes < MaxPasses)
    /\ passes' = IF MaxPasses = 0 THEN passes ELSE passes + 1
    /\ pass' = [None EXCEPT !.on = TRUE, !.list = Order(Candidates(excluded)),
                            !.parents = [t \in Candidates(excluded) |-> InSetParents(t, Candidates(excluded))]]
    /\ sends' = [t \in Queue |-> 0]
    /\ UNCHANGED <<row, height, pool, tor, orphaned>>

Current == Head(pass.list)
Drop(p) == [p EXCEPT !.list = Tail(@), !.retry = FALSE]

\* faulty variant: one transaction that fails ends the pass
FaultyAfterFailure == [pass EXCEPT !.list = << >>, !.retry = FALSE]

\* The others are tried all the same.
AfterFailure == Drop(pass)

\* The cancel check at the top of an iteration and before a retry.
StopsHere ==
    /\ pass.on /\ pass.list # << >> /\ pass.cancel
    /\ pass' = [pass EXCEPT !.list = << >>]
    /\ UNCHANGED <<row, height, pool, tor, passes, sends, orphaned>>

Defer ==
    /\ pass.on /\ pass.list # << >> /\ ~pass.cancel /\ ~pass.retry
    /\ ~DependenciesSucceeded(Current, DOMAIN pass.parents, pass.succeeded)
    /\ pass' = AfterFailure
    /\ UNCHANGED <<row, height, pool, tor, passes, sends, orphaned>>

\* The server can take a transaction whose inputs it knows.
Acceptable(t) == t \notin Refused /\ \A p \in Parents[t] : p \in pool \/ row[p].mined

\* faulty variant: a lost answer does not use up the retry
FaultyAttempt(answered) ==
    /\ pass.on /\ pass.list # << >> /\ ~pass.cancel
    /\ DependenciesSucceeded(Current, DOMAIN pass.parents, pass.succeeded)
    /\ sends' = [sends EXCEPT ![Current] = @ + 1]
    /\ pool' = IF Acceptable(Current) THEN pool \union {Current} ELSE pool
    /\ pass' = IF answered THEN [Drop(pass) EXCEPT !.succeeded = @ \union {Current}] ELSE pass
    /\ UNCHANGED <<row, height, tor, passes, orphaned>>

\* One attempt: over an isolated Tor circuit when Tor is wanted, otherwise on
\* the sync's own connection.  The answer may be lost after the fact.
Attempt(answered) ==
    /\ pass.on /\ pass.list # << >> /\ ~pass.cancel
    /\ DependenciesSucceeded(Current, DOMAIN pass.parents, pass.succeeded)
    /\ sends' = [sends EXCEPT ![Current] = @ + 1]
    /\ orphaned' = IF \E p \in ReadParents(Current) : p \notin pool /\ ~row[p].mined /\ p \in DOMAIN pass.parents
                   THEN orphaned \union {Current} ELSE orphaned
    /\ pool' = IF Acceptable(Current) THEN pool \union {Current} ELSE pool
    /\ pass' = IF answered /\ Acceptable(Current)
               THEN [Drop(pass) EXCEPT !.succeeded = @ \union {Current}]
               ELSE IF pass.retry THEN AfterFailure
               ELSE [pass EXCEPT !.retry = TRUE]
    /\ UNCHANGED <<row, height, tor, passes>>

EndPass ==
    /\ pass.on /\ pass.list = << >> /\ pass' = None
    /\ UNCHANGED <<row, height, pool, tor, passes, sends, orphaned>>

\* The sync is cancelled or changes its mode.
Cancel ==
    /\ pass.on /\ ~pass.cancel /\ pass' = [pass EXCEPT !.cancel = TRUE]
    /\ UNCHANGED <<row, height, pool, tor, passes, sends, orphaned>>

-----------------------------------------------------------------------------

\* A block: transactions of the mempool are mined, parents first.
Mine(t) ==
    /\ ~pass.on /\ height < MaxHeight - 1 /\ height' = height + 1
    /\ t \in pool /\ ~row[t].mined /\ \A p \in Parents[t] : row[p].mined
    /\ row' = [row EXCEPT ![t].mined = TRUE]
    /\ UNCHANGED <<pool, tor, pass, passes, sends, orphaned>>

SwitchRoute ==
    /\ tor' = ~tor
    /\ UNCHANGED <<row, height, pool, pass, passes, sends, orphaned>>

Next ==
    \/ \E x \in SUBSET Queue : Cardinality(x) <= 1 /\ BeginPass(x)
    \/ StopsHere \/ Defer \/ EndPass \/ Cancel
    \/ \E b \in BOOLEAN : Attempt(b)
    \/ \E t \in Queue : Mine(t)
    \/ SwitchRoute

\* Passes come with every batch, nobody cancels forever, and an attempt that is
\* made again and again is answered in the end.
Fairness ==
    /\ WF_vars(BeginPass({})) /\ WF_vars(StopsHere) /\ WF_vars(Defer) /\ WF_vars(EndPass)
    /\ SF_vars(Attempt(TRUE))

Spec == Init /\ [][Next]_vars

Quiet ==
    \/ BeginPass({}) \/ StopsHere \/ Defer \/ EndPass
    \/ \E b \in BOOLEAN : Attempt(b)
    \/ \E t \in Queue : Mine(t)

FairSpec == Init /\ [][Quiet]_vars /\ Fairness

-----------------------------------------------------------------------------

\* The server is never sent a transaction whose pending parent, known to this
\* pass, it does not have.
NoOrphanSent == orphaned = {}

\* The list of a pass puts every parent before its children, as far as the
\* stored bytes show them and unless they are in a cycle.
Ancestors(t, cands) ==
    LET Up[k \in 0 .. N] == IF k = 0 THEN InSetParents(t, cands)
                            ELSE Up[k - 1] \union UNION {InSetParents(p, cands) : p \in Up[k - 1]}
    IN  Up[N]

ParentsFirst ==
    \A i, j \in DOMAIN pass.list :
        /\ pass.list[j] \in Ancestors(pass.list[i], DOMAIN pass.parents)
        /\ pass.list[i] \notin Ancestors(pass.list[i], DOMAIN pass.parents)
        => j < i

\* No pass sends a transaction more than twice.
AtMostTwice == \A t \in Queue : sends[t] <= 2

\* A transaction that can be relayed reaches the server, whatever happens to
\* the other ones.
Relayed(t) == t \in pool

Reachable == {t \in Queue : /\ t \notin Unreadable /\ t \notin Refused
                            /\ \A p \in Ancestors(t, Queue) : p \notin Refused /\ p \notin Unreadable
                            /\ t \notin Ancestors(t, Queue) /\ \A p \in Ancestors(t, Queue) : p \notin Ancestors(p, Queue)}

EveryoneRelayed == \A t \in Reachable : <>Relayed(t)
=============================================================================
