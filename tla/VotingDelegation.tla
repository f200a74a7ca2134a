--------------------------- MODULE VotingDelegation ---------------------------
(***************************************************************************)
(* The delegation of one voting bundle (wallet/voting/delegation.rs and    *)
(* its entry points in api/voting.rs): the background job that proves it   *)
(* ahead of time, the call that proves and signs it in software, and the   *)
(* Keystone pair of a signing request and a proof for the signed request.  *)
(*                                                                         *)
(* The calls run at the same time on their own database connections.  Each *)
(* starts a thread that connects to the first PIR endpoint while the       *)
(* bundle is prepared under the sidecar's write lock, and proves outside   *)
(* of it, trying the next endpoint after a transport failure.  The rows of *)
(* the bundle belong to the zcash_voting crate: a setup (a number here,    *)
(* standing for the transaction to be signed) is written once, a proof is  *)
(* for the stored setup, and a signed bundle is refused when its signature *)
(* is for another one.                                                     *)
(***************************************************************************)
EXTENDS Integers, FiniteSets

CONSTANTS
    Jobs,       \* Jobs[j]: "background", "software", "keystone", "pir" or "cache"
    Endpoints,  \* PIR endpoints a call was given
    MaxSetups,  \* bound: setups ever built
    MaxStarts   \* bound: calls ever started

VARIABLES
    setup,     \* sidecar: the stored setup of the bundle, 0 for none
    proof,     \* sidecar: the setup the stored proof is for, 0 for none
    ksig,      \* sidecar: the setup the stored Keystone signature is for
    sent,      \* sidecar: "no", "submitted" or "confirmed"
    built,     \* setups built so far
    starts,    \* calls started so far
    device,    \* the setup the device has been asked to sign, 0 for none
    job,       \* the state of each call
    given      \* whether a signed payload was handed to the app

rows == <<setup, proof, ksig, sent>>
vars == <<rows, built, starts, device, job, given>>

Idle == [pc |-> "idle", thread |-> FALSE, endpoint |-> 0, fresh |-> FALSE, why |-> "none"]

Init ==
    /\ setup = 0 /\ proof = 0 /\ ksig = 0 /\ sent = "no"
    /\ built = 0 /\ starts = 0 /\ device = 0
    /\ job = [j \in DOMAIN Jobs |-> Idle]
    /\ given = FALSE

Done(j, why) == job' = [job EXCEPT ![j] = [Idle EXCEPT !.pc = "done", !.why = why]]

\* phase_has_persisted_delegation_proof: proved, submitted or confirmed.
Persisted == proof # 0

-----------------------------------------------------------------------------
(* The crate's rows *)

\* Setup is write-once: a bundle that has one refuses another.
CrateSetup ==
    IF setup = 0
    THEN built' = built + 1 /\ setup' = built + 1
    ELSE UNCHANGED <<built, setup>>

CanSetUp == setup # 0 \/ built < MaxSetups

CrateProve == proof' = IF proof = 0 THEN setup ELSE proof

-----------------------------------------------------------------------------
(* The calls *)

\* The entry points of api/voting.rs check their arguments and fetch the
\* round's inputs from lightwalletd before anything else.
Call(j) ==
    /\ job[j].pc \in {"idle", "done"} /\ starts < MaxStarts /\ starts' = starts + 1
    /\ job' = [job EXCEPT ![j] = [Idle EXCEPT !.pc = "resolve"]]
    /\ UNCHANGED <<rows, built, device, given>>

CallBackground(j) == Jobs[j] = "background" /\ Call(j)
CallSoftware(j) == Jobs[j] = "software" /\ Call(j)
CallKeystone(j) == Jobs[j] = "keystone" /\ ksig # 0 /\ Call(j)
CallPir(j) == Jobs[j] = "pir" /\ Call(j)
CallCache(j) == Jobs[j] = "cache" /\ Call(j)

InputsFail(j) ==
    /\ job[j].pc = "resolve" /\ Done(j, "error")
    /\ UNCHANGED <<rows, built, starts, device, given>>

Start(j, pc, thread) ==
    /\ job' = [job EXCEPT ![j].pc = pc, ![j].thread = thread]
    /\ UNCHANGED <<rows, built, starts, device, given>>

\* A bundle with a stored proof needs no connection, and no more work unless
\* it is to be signed.
StartBackground(j) ==
    /\ job[j].pc = "resolve" /\ Jobs[j] = "background"
    /\ IF Persisted THEN Done(j, "ok") /\ UNCHANGED <<rows, built, starts, device, given>>
       ELSE Start(j, "prepare", TRUE)

StartSoftware(j) ==
    job[j].pc = "resolve" /\ Jobs[j] = "software" /\ Start(j, "prepare", ~Persisted)

\* The signed request is never set up again.
StartSigned(j) ==
    job[j].pc = "resolve" /\ Jobs[j] = "keystone" /\ Start(j, "prepareSigned", TRUE)

\* The warm-ups connect, prepare or select notes, and only fill caches.
StartPir(j) ==
    job[j].pc = "resolve" /\ Jobs[j] = "pir" /\ Start(j, "warm", TRUE)

StartCache(j) ==
    job[j].pc = "resolve" /\ Jobs[j] = "cache" /\ Start(j, "warm", TRUE)

\* faulty variant: the error returns without waiting for the connection
FaultyDrain(j, why) == job' = [job EXCEPT ![j].pc = "done", ![j].why = why]

\* Every early return joins the connection thread first, the ones that do not
\* do it themselves by dropping its handle.
Drain(j, why) == Done(j, why)

PrepareFails(j) ==
    /\ job[j].pc \in {"prepare", "prepareSigned", "warm"}
    /\ Drain(j, "error")
    /\ UNCHANGED <<rows, built, starts, device, given>>

\* The caches are keyed by what they hold and written again without harm.
Warm(j) ==
    /\ job[j].pc = "warm" /\ Drain(j, "ok")
    /\ UNCHANGED <<rows, built, starts, device, given>>

\* prepare_delegation_setup: one critical section of the sidecar.
Prepare(j) ==
    /\ job[j].pc = "prepare"
    /\ IF Persisted
       THEN /\ IF Jobs[j] = "background" THEN Drain(j, "ok")
               ELSE job' = [job EXCEPT ![j].pc = "sign", ![j].thread = FALSE]
            /\ UNCHANGED <<setup, built>>
       ELSE /\ CanSetUp /\ CrateSetup
            /\ job' = [job EXCEPT ![j].pc = "prove", ![j].thread = TRUE,
                                  ![j].fresh = setup = 0, ![j].endpoint = 1]
    /\ UNCHANGED <<proof, ksig, sent, starts, device, given>>

\* faulty variant: the bundle is set up again for the proof
FaultyPrepareSigned(j) ==
    /\ job[j].pc = "prepareSigned" /\ built < MaxSetups
    /\ built' = built + 1 /\ setup' = built + 1
    /\ job' = [job EXCEPT ![j].pc = "prove", ![j].endpoint = 1]
    /\ UNCHANGED <<proof, ksig, sent, starts, device, given>>

PrepareSigned(j) ==
    /\ job[j].pc = "prepareSigned"
    /\ job' = [job EXCEPT ![j].pc = "prove", ![j].endpoint = 1]
    /\ UNCHANGED <<rows, built, starts, device, given>>

\* prove_delegation_bundle with its endpoint joined and its rows persisted.
Prove(j) ==
    /\ job[j].pc = "prove" /\ setup # 0
    /\ CrateProve
    /\ IF Jobs[j] = "background" THEN Done(j, "ok")
       ELSE job' = [job EXCEPT ![j].pc = "sign", ![j].thread = FALSE]
    /\ UNCHANGED <<setup, ksig, sent, built, starts, device, given>>

\* faulty variant: one endpoint too many
FaultyFailoverPast(k) == k <= Endpoints

\* faulty variant: the last endpoint is not tried
FaultyHasFailover(k) == k + 1 < Endpoints

HasFailover(k) == k < Endpoints

\* A retryable failure moves to the next endpoint, which is dialled in place.
EndpointFails(j, retryable) ==
    /\ job[j].pc = "prove"
    /\ IF retryable /\ HasFailover(job[j].endpoint)
       THEN job' = [job EXCEPT ![j].endpoint = @ + 1, ![j].thread = FALSE]
       ELSE job' = [job EXCEPT ![j].pc = "done", ![j].thread = FALSE,
                               ![j].why = IF retryable THEN "transport" ELSE "error"]
    /\ UNCHANGED <<rows, built, starts, device, given>>

\* The setup the call prepared has been reset meanwhile.
ProveRefused(j) ==
    /\ job[j].pc = "prove" /\ setup = 0
    /\ Drain(j, "error")
    /\ UNCHANGED <<rows, built, starts, device, given>>

\* The wallet signs the setup it reads, with the key of the account named in
\* it; another wallet's seed is refused.
SoftwareSignature == setup

SignatureOf(j) == IF Jobs[j] = "keystone" THEN ksig ELSE SoftwareSignature

Sign(j) ==
    /\ job[j].pc = "sign"
    /\ IF proof # 0 /\ SignatureOf(j) = setup
       THEN job' = [job EXCEPT ![j].pc = "emit"]
       ELSE Done(j, "error")
    /\ UNCHANGED <<rows, built, starts, device, given>>

\* The last event of the stream carries the payload, unless nobody listens
\* any more: the rows stay and a later call signs again.
Emit(j, listening) ==
    /\ job[j].pc = "emit"
    /\ given' = (given \/ listening)
    /\ Done(j, "ok")
    /\ UNCHANGED <<rows, built, starts, device>>

-----------------------------------------------------------------------------
(* Keystone *)

\* build_keystone_delegation_requests: prepared and built under the lock.
KeystoneRequest ==
    /\ "keystone" \in {Jobs[j] : j \in DOMAIN Jobs}
    /\ ~Persisted /\ CanSetUp
    /\ CrateSetup /\ device' = setup'
    /\ UNCHANGED <<proof, ksig, sent, starts, job, given>>

\* store_keystone_signatures_batch: the same context again is accepted, a
\* different one conflicts and changes nothing.
StoreKeystoneSignature ==
    /\ device # 0
    /\ ksig' = IF ksig = 0 THEN device ELSE ksig
    /\ device' = 0
    /\ UNCHANGED <<setup, proof, sent, built, starts, job, given>>

-----------------------------------------------------------------------------
(* After the payload *)

MarkSubmitted ==
    /\ sent = "no" /\ given /\ sent' = "submitted"
    /\ UNCHANGED <<setup, proof, ksig, built, starts, device, job, given>>

ConfirmSubmission ==
    /\ sent = "submitted" /\ sent' = "confirmed"
    /\ UNCHANGED <<setup, proof, ksig, built, starts, device, job, given>>

\* faulty variant: the setup of a proved bundle is cleared too
FaultyReset ==
    /\ device = 0 /\ setup # 0 /\ setup' = 0
    /\ UNCHANGED <<proof, ksig, sent, built, starts, device, job, given>>

\* reset_voting_session_state: unsigned setups only, and not while the user
\* may be signing; calls that are running are not stopped.
Reset ==
    /\ device = 0 /\ setup # 0 /\ proof = 0 /\ ksig = 0
    /\ setup' = 0
    /\ UNCHANGED <<proof, ksig, sent, built, starts, device, job, given>>

\* The process ends: calls, threads and the device's answer are gone.
Crash ==
    /\ \E j \in DOMAIN Jobs : job[j].pc \notin {"idle", "done"}
    /\ job' = [j \in DOMAIN Jobs |-> Idle] /\ device' = 0
    /\ UNCHANGED <<rows, built, starts, given>>

Next ==
    \/ \E j \in DOMAIN Jobs :
        \/ CallBackground(j) \/ CallSoftware(j) \/ CallKeystone(j) \/ CallPir(j) \/ CallCache(j)
        \/ InputsFail(j) \/ StartBackground(j) \/ StartSoftware(j) \/ StartSigned(j)
        \/ StartPir(j) \/ StartCache(j) \/ Warm(j) \/ PrepareFails(j) \/ Prepare(j) \/ PrepareSigned(j)
        \/ Prove(j) \/ ProveRefused(j) \/ Sign(j)
        \/ \E b \in BOOLEAN : EndpointFails(j, b) \/ Emit(j, b)
    \/ KeystoneRequest \/ StoreKeystoneSignature
    \/ MarkSubmitted \/ ConfirmSubmission \/ Reset \/ Crash

Spec == Init /\ [][Next]_vars

-----------------------------------------------------------------------------
(* What the calls promise *)

TypeOK ==
    /\ setup \in 0 .. MaxSetups /\ proof \in 0 .. MaxSetups /\ ksig \in 0 .. MaxSetups
    /\ given \in BOOLEAN /\ sent \in {"no", "submitted", "confirmed"}
    /\ job \in [DOMAIN Jobs -> [pc : {"idle", "resolve", "prepare", "prepareSigned", "warm", "prove",
                                      "sign", "emit", "done"},
                                thread : BOOLEAN, endpoint : 0 .. Endpoints, fresh : BOOLEAN,
                                why : {"none", "ok", "error", "transport"}]]

\* A stored proof is for the stored setup: no call that was slower, no reset
\* and no later attempt separates them, so the bundle can always be signed.
ProofFitsSetup == proof # 0 => proof = setup

\* A signature the device gave stays usable: the setup it is for is still the
\* stored one when the proof is made.
DeviceSignatureFits == ksig # 0 => ksig = setup

\* A call that is over has no connection thread left behind.
NoThreadLeft == \A j \in DOMAIN Jobs : job[j].pc = "done" => ~job[j].thread

\* A call gives up over a transport failure only at its last endpoint.
EveryEndpointTried ==
    \A j \in DOMAIN Jobs : job[j].why = "transport" => job[j].endpoint = Endpoints

=============================================================================
