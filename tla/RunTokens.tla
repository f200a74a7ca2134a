------------------------------ MODULE RunTokens ------------------------------
(***************************************************************************)
(* The cancel token that belongs to one run (api/sync.rs): the mempool     *)
(* observer's state holds at most one, the payment-link claim syncs hold   *)
(* one per claim.  A run installs a fresh token under the mutex, works     *)
(* under it, and takes the entry out when it ends; a stop writes to the    *)
(* token that is installed at that moment.                                 *)
(*                                                                         *)
(* Key "mempool" stands for the observer's state, the other keys are the   *)
(* claim ids; both kinds of entry are one token, or none.                  *)
(***************************************************************************)
EXTENDS Integers, FiniteSets

CONSTANTS
    Runs,    \* calls of start_mempool_observer or run_payment_link_claim_sync
    KeyOf,   \* the key each call is about
    Keys     \* "mempool" and the claim ids

None == "none"

VARIABLES
    entry,   \* entry[k]: the run whose token is installed, or none
    token,   \* token[r]: the cancel token of run r
    pc,
    asked    \* a stop for the run's key arrived while the run was under way

vars == <<entry, token, pc, asked>>

Init ==
    /\ entry = [k \in Keys |-> None]
    /\ token = [r \in Runs |-> FALSE]
    /\ pc = [r \in Runs |-> "idle"]
    /\ asked = [r \in Runs |-> FALSE]

-----------------------------------------------------------------------------
\* faulty variant: the check is not under the mutex that installs the token
FaultyInstall(r) ==
    /\ pc[r] = "idle"
    /\ entry' = [entry EXCEPT ![KeyOf[r]] = r]
    /\ token' = [token EXCEPT ![r] = FALSE]
    /\ asked' = [asked EXCEPT ![r] = FALSE]
    /\ pc' = [pc EXCEPT ![r] = "setup"]
\* The check for a running entry and the installation of a fresh token are one
\* step under the mutex.
Install(r) ==
    /\ pc[r] = "idle"
    /\ IF entry[KeyOf[r]] # None
         THEN UNCHANGED vars
         ELSE /\ entry' = [entry EXCEPT ![KeyOf[r]] = r]
              /\ token' = [token EXCEPT ![r] = FALSE]
              /\ asked' = [asked EXCEPT ![r] = FALSE]
              /\ pc' = [pc EXCEPT ![r] = "setup"]

\* start_mempool_observer: state.running is checked, a token installed.
StartObserver(r) == KeyOf[r] = "mempool" /\ Install(r)

\* run_payment_link_claim_sync: one run per claim id.
StartClaim(r) == KeyOf[r] # "mempool" /\ Install(r)

\* parse_network_and_migrate, the runtime, then the loop.
Work(r) ==
    /\ pc[r] = "setup"
    /\ \E next \in {"work", "ended"} : pc' = [pc EXCEPT ![r] = next]
    /\ UNCHANGED <<entry, token, asked>>

Returns(r) ==
    /\ pc[r] = "work"
    /\ pc' = [pc EXCEPT ![r] = "ended"]
    /\ UNCHANGED <<entry, token, asked>>

\* faulty variant: a run that was cancelled returns before the entry is taken out
FaultyTakeOut(r) ==
    /\ pc[r] = "ended" /\ ~token[r]
    /\ entry' = [entry EXCEPT ![KeyOf[r]] = None]
    /\ pc' = [pc EXCEPT ![r] = "idle"]
    /\ UNCHANGED <<token, asked>>
TakeOut(r) ==
    /\ pc[r] = "ended"
    /\ entry' = [entry EXCEPT ![KeyOf[r]] = None]
    /\ pc' = [pc EXCEPT ![r] = "idle"]
    /\ UNCHANGED <<token, asked>>

\* Teardown of the observer: running is cleared and the token dropped.
ObserverEnds(r) == KeyOf[r] = "mempool" /\ TakeOut(r)

\* The claim's entry is removed.
ClaimEnds(r) == KeyOf[r] # "mempool" /\ TakeOut(r)

Signal(k) ==
    /\ token' = [r \in Runs |-> token[r] \/ entry[k] = r]
    /\ asked' = [r \in Runs |-> asked[r] \/ (KeyOf[r] = k /\ pc[r] # "idle")]
    /\ UNCHANGED <<entry, pc>>

StopObserver == Signal("mempool")

\* faulty variant: cancelling a claim stops every claim
FaultyCancelClaim(k) ==
    /\ k # "mempool"
    /\ token' = [r \in Runs |-> token[r] \/ (KeyOf[r] # "mempool" /\ pc[r] # "idle")]
    /\ asked' = [r \in Runs |-> asked[r] \/ (KeyOf[r] = k /\ pc[r] # "idle")]
    /\ UNCHANGED <<entry, pc>>
CancelClaim(k) == k # "mempool" /\ Signal(k)

Next ==
    \/ \E r \in Runs :
         StartObserver(r) \/ StartClaim(r) \/ Work(r) \/ Returns(r)
         \/ ObserverEnds(r) \/ ClaimEnds(r)
    \/ StopObserver
    \/ \E k \in Keys : CancelClaim(k)

\* The threads keep running, and the work looks at its token ten times a second.
Obeys(r) == token[r] /\ Returns(r)
Fairness ==
    \A r \in Runs :
      /\ WF_vars(Work(r)) /\ WF_vars(ObserverEnds(r) \/ ClaimEnds(r))
      /\ WF_vars(Obeys(r))

Spec == Init /\ [][Next]_vars /\ Fairness

-----------------------------------------------------------------------------
TypeOK ==
    /\ entry \in [Keys -> Runs \union {None}]
    /\ token \in [Runs -> BOOLEAN] /\ asked \in [Runs -> BOOLEAN]
    /\ pc \in [Runs -> {"idle", "setup", "work", "ended"}]

(* "There is no longer a window in which a stop can be lost", and a stop reaches
   nobody else: the token of a run under way is set exactly when a stop for its
   key arrived since the run installed it. *)
StopsReachTheirRun ==
    \A r \in Runs : pc[r] \in {"setup", "work"} => (token[r] <=> asked[r])

(* At most one run per key is under way, and its entry is the one a stop finds. *)
OneRunPerKey ==
    \A r \in Runs : pc[r] # "idle" => entry[KeyOf[r]] = r

(* A run that was told to stop ends and leaves its key free for the next. *)
Asked(r) == asked[r]
Left(r) == pc[r] = "idle" \/ ~asked[r]
StoppedRunsLeave == \A r \in Runs : Asked(r) ~> Left(r)
=============================================================================
