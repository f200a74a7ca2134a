------------------------------ MODULE VotingLocks ------------------------------
(***************************************************************************)
(* The locks around the voting sidecar (wallet/voting/db.rs): a delivery   *)
(* context's mutex over its cached handle, the process-wide writer         *)
(* coordinator, and the lock around every open, which may migrate the      *)
(* schema.  SQLite itself has one writer; a statement that waits too long  *)
(* for it fails with "database is locked".                                 *)
(*                                                                         *)
(* Proofs run outside the coordinator and write at the end: an attempt     *)
(* that loses the race for SQLite's writer is repeated, from the second    *)
(* time on under the coordinator.                                          *)
(***************************************************************************)
EXTENDS Integers, FiniteSets

CONSTANTS
    Kind        \* Kind[c]: "write", "read", "context" or "proof" for each call

MaxLockRetries == 3   \* MAX_LOCK_RETRIES of retry_voting_db_locks

Free == "free"
Calls == DOMAIN Kind

VARIABLES
    pc,        \* where each call is
    ctx,       \* the context's mutex: its holder
    writer,    \* the coordinator: its holder
    opening,   \* the open lock: its holder
    sqlite,    \* the connection that is writing
    cached,    \* the context has an open handle
    attempt,   \* attempts of a proof that lost the race
    lostTo     \* calls whose transaction an attempt lost to

vars == <<pc, ctx, writer, opening, sqlite, cached, attempt, lostTo>>

Init ==
    /\ pc = [c \in Calls |-> "start"]
    /\ ctx = Free /\ writer = Free /\ opening = Free /\ sqlite = Free
    /\ cached = FALSE
    /\ attempt = [c \in Calls |-> 0] /\ lostTo = [c \in Calls |-> {}]

Go(c, where) == pc' = [pc EXCEPT ![c] = where]

-----------------------------------------------------------------------------

\* helper_delivery_db: the context's mutex first, then the coordinator.
LockContext(c) ==
    /\ pc[c] = "start" /\ Kind[c] = "context" /\ ctx = Free /\ ctx' = c
    /\ Go(c, IF cached THEN "unlockContext" ELSE "lockWriter")
    /\ UNCHANGED <<writer, opening, sqlite, cached, attempt, lostTo>>

\* with_voting_sidecar_write_lock.
StartWrite(c) ==
    /\ pc[c] = "start" /\ Kind[c] = "write" /\ Go(c, "lockWriter")
    /\ UNCHANGED <<ctx, writer, opening, sqlite, cached, attempt, lostTo>>

\* faulty variant: the open lock is taken first and kept
FaultyLockWriter(c) ==
    /\ pc[c] = "lockWriter"
    /\ \/ opening = Free /\ opening' = c /\ UNCHANGED <<pc, writer>>
       \/ opening = c /\ writer = Free /\ writer' = c /\ UNCHANGED opening
          /\ Go(c, IF Kind[c] = "proof" THEN "prove" ELSE "open")
    /\ UNCHANGED <<ctx, sqlite, cached, attempt, lostTo>>

LockWriter(c) ==
    /\ pc[c] = "lockWriter" /\ writer = Free /\ writer' = c
    /\ Go(c, IF Kind[c] = "proof" THEN "prove" ELSE "lockOpen")
    /\ UNCHANGED <<ctx, opening, sqlite, cached, attempt, lostTo>>

\* open_voting_db: callers may hold the coordinator, the open lock is always
\* the last.  A read takes nothing else.
StartRead(c) ==
    /\ pc[c] = "start" /\ Kind[c] = "read" /\ Go(c, "lockOpen")
    /\ UNCHANGED <<ctx, writer, opening, sqlite, cached, attempt, lostTo>>

LockOpen(c) ==
    /\ pc[c] = "lockOpen" /\ opening = Free /\ opening' = c /\ Go(c, "open")
    /\ UNCHANGED <<ctx, writer, sqlite, cached, attempt, lostTo>>

\* open_voting_db_unlocked: retried while SQLite is locked; SQLite's writer
\* is free again before the retries are used up.
Open(c) ==
    /\ pc[c] = "open" /\ sqlite = Free /\ opening' = Free
    /\ Go(c, IF Kind[c] = "write" THEN "begin" ELSE "unlock")
    /\ cached' = (cached \/ Kind[c] = "context")
    /\ UNCHANGED <<ctx, writer, sqlite, attempt, lostTo>>

\* An open that fails releases everything on the way out.
OpenFails(c) ==
    /\ pc[c] = "open" /\ opening' = Free /\ Go(c, "unlock")
    /\ UNCHANGED <<ctx, writer, sqlite, cached, attempt, lostTo>>

\* retry_voting_db_locks_coordinated: the first attempt takes no lock.
StartProof(c) ==
    /\ pc[c] = "start" /\ Kind[c] = "proof" /\ Go(c, "prove")
    /\ UNCHANGED <<ctx, writer, opening, sqlite, cached, attempt, lostTo>>

Prove(c) ==
    /\ pc[c] = "prove" /\ Go(c, "begin")
    /\ UNCHANGED <<ctx, writer, opening, sqlite, cached, attempt, lostTo>>

\* The transaction at the end of an operation.
BeginWrite(c) ==
    /\ pc[c] = "begin" /\ sqlite = Free /\ sqlite' = c /\ Go(c, "commit")
    /\ UNCHANGED <<ctx, writer, opening, cached, attempt, lostTo>>

\* retry_voting_db_locks: attempts 0 ..= MAX_LOCK_RETRIES.
MayRetry(n) == n < MaxLockRetries

\* faulty variant: the repeated attempts take no lock either
FaultyRetryAt(c) == "prove"

RetryAt(c) == "lockWriter"

\* Somebody else writes for longer than the busy timeout.  The coordinator is
\* released between two attempts, and a transaction is over before an attempt
\* that lost to it has been repeated.  The two retry loops of a write are one.
LosesRace(c) ==
    /\ pc[c] = "begin" /\ sqlite # Free /\ sqlite \notin lostTo[c] /\ Kind[c] = "proof"
    /\ lostTo' = [lostTo EXCEPT ![c] = @ \union {sqlite}]
    /\ writer' = IF writer = c THEN Free ELSE writer
    /\ IF MayRetry(attempt[c])
       THEN /\ attempt' = [attempt EXCEPT ![c] = @ + 1]
            /\ Go(c, RetryAt(c))
       ELSE /\ Go(c, "locked") /\ UNCHANGED attempt
    /\ UNCHANGED <<ctx, opening, sqlite, cached>>

Commit(c) ==
    /\ pc[c] = "commit" /\ sqlite' = Free /\ Go(c, "unlock")
    /\ UNCHANGED <<ctx, writer, opening, cached, attempt, lostTo>>

\* The guards are dropped in the reverse order.
Unlock(c) ==
    /\ pc[c] = "unlock"
    /\ writer' = IF writer = c THEN Free ELSE writer
    /\ Go(c, IF ctx = c THEN "unlockContext" ELSE "done")
    /\ UNCHANGED <<ctx, opening, sqlite, cached, attempt, lostTo>>

UnlockContext(c) ==
    /\ pc[c] = "unlockContext" /\ ctx' = Free /\ Go(c, "done")
    /\ UNCHANGED <<writer, opening, sqlite, cached, attempt, lostTo>>

Step(c) ==
    \/ LockContext(c) \/ StartWrite(c) \/ LockWriter(c) \/ StartRead(c) \/ LockOpen(c)
    \/ Open(c) \/ OpenFails(c) \/ StartProof(c) \/ Prove(c) \/ BeginWrite(c) \/ LosesRace(c)
    \/ Commit(c) \/ Unlock(c) \/ UnlockContext(c)

Over == \A c \in Calls : pc[c] \in {"done", "locked"}

Moves == \E c \in Calls : Step(c)

Next == Moves \/ (Over /\ UNCHANGED vars)

\* Every thread is scheduled, and a mutex is handed to a waiter in the end.
Fairness == \A c \in Calls : WF_vars(Step(c)) /\ SF_vars(LockContext(c) \/ LockWriter(c) \/ LockOpen(c))

Spec == Init /\ [][Next]_vars /\ Fairness

-----------------------------------------------------------------------------

\* Everybody gets through: no order of the three locks, cached handle or
\* repeated proof makes the calls wait for each other.
NobodyStuck == Over \/ ENABLED Moves
CallsFinish == <>Over

\* A proof is never lost to "database is locked" while the other writers are
\* the coordinated ones and the first attempts of the other proofs.
ProofsSurvive == \A c \in Calls : pc[c] # "locked"
=============================================================================
