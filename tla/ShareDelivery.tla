----------------------------- MODULE ShareDelivery -----------------------------
(***************************************************************************)
(* One vote of one bundle, from the ballot to the helper servers that hold *)
(* its encrypted share (api/voting.rs, the session of                      *)
(* voting_session_provider.dart that drives it, helper_transport.rs).      *)
(*                                                                         *)
(* The order is what makes a crash harmless: the commitment is stored, the *)
(* placement of its shares is stored, only then is the vote sent to the    *)
(* vote chain, and only after its confirmation is stored are the shares    *)
(* posted.  A share is journaled as attempted before it is posted, and the *)
(* transport tells a POST that was certainly not dispatched from one that  *)
(* may have been: the first is forgotten, the second is only ever polled.  *)
(* The journal and the placement belong to the zcash_voting crate.         *)
(***************************************************************************)
EXTENDS Integers, FiniteSets

CONSTANTS
    Helpers,     \* configured helper servers
    Planned,     \* how many helpers a share is placed on
    MaxCrashes,  \* bound: restarts of the app
    MaxTries     \* bound: POSTs ever begun

VARIABLES
    intent,   \* sidecar: a ballot choice is stored
    vote,     \* sidecar: "none", "committed", "submitted" or "confirmed"
    plan,     \* sidecar: helpers the share is placed on, {} for no plan
    journal,  \* sidecar: "none", "attempting", "accepted" or "ambiguous" for each helper
    shown,    \* sidecar: the share is confirmed
    chain,    \* vote chain: "no", "sent", "mined"
    cast,     \* the foreground cast: the step it is at
    pass,     \* the tracking pass: "none", "open", "track"
    cancel,   \* the handle of the pass was cancelled
    req,      \* requests: [by, phase, route] for each helper
    posts,    \* POSTs a helper can have received, ever
    crashes, tries

stored == <<intent, vote, plan, journal, shown>>
vars == <<stored, chain, cast, pass, cancel, req, posts, crashes, tries>>

NoRequest == [by |-> "none", phase |-> "none", route |-> "none"]

Init ==
    /\ intent = FALSE /\ vote = "none" /\ plan = {} /\ shown = FALSE
    /\ journal = [h \in Helpers |-> "none"]
    /\ chain = "no" /\ cast = "idle" /\ pass = "none" /\ cancel = FALSE
    /\ req = [h \in Helpers |-> NoRequest]
    /\ posts = [h \in Helpers |-> 0] /\ crashes = 0 /\ tries = 0

-----------------------------------------------------------------------------
(* The cast *)

SetBallotIntent ==
    /\ vote = "none" /\ cast = "idle" /\ intent' = TRUE
    /\ UNCHANGED <<vote, plan, journal, shown, chain, cast, pass, cancel, req, posts, crashes, tries>>

Goto(step) == cast' = step /\ UNCHANGED <<pass, cancel, req, posts, crashes, tries>>

\* get_round_plan and get_round_recovery_state: what is left to do is read off
\* the sidecar, and a vote that got further is resumed there.
Resume ==
    /\ cast = "idle" /\ intent
    /\ CASE vote = "none" -> Goto("build")
         [] vote = "submitted" -> Goto("await")
         [] OTHER -> ~shown /\ Goto("recover")
    /\ UNCHANGED <<stored, chain>>

\* build_vote_commitments_result: proved outside the lock, persisted under it.
BuildCommitments ==
    /\ cast = "build" /\ vote' = "committed" /\ Goto("prepare")
    /\ UNCHANGED <<intent, plan, journal, shown, chain>>

\* recover_vote_commitment: the stored commitment again, never a new one.
RecoverCommitment ==
    /\ cast = "recover" /\ vote \in {"committed", "confirmed"} /\ Goto("prepare")
    /\ UNCHANGED <<stored, chain>>

\* faulty variant: the placement is left for the delivery to make
FaultyPrepareDelivery(ready) ==
    /\ cast = "prepare" /\ Goto(IF vote = "confirmed" THEN "submit" ELSE "broadcast")
    /\ UNCHANGED <<stored, chain>>

\* prepare_committed_share_delivery: a stored plan is used again as it is.
PrepareDelivery(ready) ==
    /\ cast = "prepare" /\ Cardinality(ready) = Planned
    /\ plan' = IF plan = {} THEN ready ELSE plan
    /\ Goto(IF vote = "confirmed" THEN "submit" ELSE "broadcast")
    /\ UNCHANGED <<intent, vote, journal, shown, chain>>

\* The vote is posted to the vote chain; the answer may be lost.
Broadcast(answered) ==
    /\ cast = "broadcast"
    /\ chain' = IF chain = "no" THEN "sent" ELSE chain
    /\ Goto(IF answered THEN "mark" ELSE "idle")
    /\ UNCHANGED stored

MarkSubmitted ==
    /\ cast = "mark" /\ vote' = "submitted" /\ Goto("await")
    /\ UNCHANGED <<intent, plan, journal, shown, chain>>

ChainMines ==
    /\ chain = "sent" /\ chain' = "mined"
    /\ UNCHANGED <<stored, cast, pass, cancel, req, posts, crashes, tries>>

\* confirm_vote_submission, in the cast or in the polling of a restart, which
\* then reads the plan again.
ConfirmVote ==
    /\ cast = "await" /\ chain = "mined" /\ vote' = "confirmed"
    /\ \/ Goto("submit")
       \/ Goto("idle")
    /\ UNCHANGED <<intent, plan, journal, shown, chain>>

NotConfirmedInTime ==
    /\ cast = "await" /\ Goto("idle")
    /\ UNCHANGED <<stored, chain>>

-----------------------------------------------------------------------------
(* Requests *)

\* The attempt is journaled before anything is dialled.  The crate posts to the
\* helpers of the plan first and later to the ones that missed the share.
Begin(h, by) ==
    /\ journal[h] = "none" /\ req[h] = NoRequest /\ tries < MaxTries /\ tries' = tries + 1
    /\ journal' = [journal EXCEPT ![h] = "attempting"]
    /\ req' = [req EXCEPT ![h] = [by |-> by, phase |-> "route", route |-> "none"]]
    /\ UNCHANGED <<intent, vote, plan, shown, chain, cast, pass, cancel, posts, crashes>>

\* submit_prepared_shares_to_helpers: never cancelled.
Submit(h) == cast = "submit" /\ vote = "confirmed" /\ h \in plan /\ Begin(h, "cast")

SubmitEnds ==
    /\ cast = "submit" /\ \A h \in Helpers : req[h].by # "cast" /\ (h \in plan => journal[h] # "none")
    /\ Goto("idle")
    /\ UNCHANGED <<stored, chain>>

\* Helper refusals and lost answers end the delivery of the others too.
SubmitStops ==
    /\ cast = "submit" /\ \A h \in Helpers : req[h].by # "cast"
    /\ Goto("idle")
    /\ UNCHANGED <<stored, chain>>

\* request: the route is resolved inside the request's own time.
Route(h, route) ==
    /\ req[h].phase = "route"
    /\ req' = [req EXCEPT ![h].phase = "connect", ![h].route = route]
    /\ UNCHANGED <<stored, chain, cast, pass, cancel, posts, crashes, tries>>

\* request_direct, request_over_tor: TCP, the circuit and TLS are up, and the
\* request is constructed; from here on the helper can have received it.
Dispatch(h) ==
    /\ req[h].phase = "connect"
    /\ req' = [req EXCEPT ![h].phase = "sent"]
    /\ posts' = [posts EXCEPT ![h] = @ + 1]
    /\ UNCHANGED <<stored, chain, cast, pass, cancel, crashes, tries>>

\* The failures the libraries report at a phase.
Errors(route, phase) ==
    IF phase = "sent" THEN {"io", "read", "timeout"}
    ELSE IF route = "tor" THEN {"circuit", "tls", "connect timeout", "timeout"}
    ELSE {"connect", "connect timeout"}

\* faulty variant: the deadline of the whole request says nothing was sent
FaultyTorOuterTimeout(started) == TRUE

\* classify_tor_outer_timeout: before the headers are built nothing was sent.
TorOuterTimeout(started) == ~started

\* classify_tor_error: the errors that prove a POST was never dispatched.
TorErrorDefinite(error) == error \in {"circuit", "tls", "connect timeout"}

\* The direct connector's deadline covers TCP and TLS and comes back as a
\* connect error; the whole-request timer is ambiguous.
DirectDefinite(error) == error \in {"connect", "connect timeout"}

Definite(h, error) ==
    CASE req[h].route = "none" -> TRUE
      [] req[h].route = "direct" -> DirectDefinite(error)
      [] OTHER -> IF error = "timeout" THEN TorOuterTimeout(req[h].phase = "sent") ELSE TorErrorDefinite(error)

Outcome(h, row) ==
    /\ journal' = [journal EXCEPT ![h] = row]
    /\ req' = [req EXCEPT ![h] = NoRequest]
    /\ UNCHANGED <<intent, vote, plan, shown, chain, cast, pass, cancel, posts, crashes, tries>>

\* No route in time, or a broken Tor route: nothing is sent another way.
RouteFails(h) == req[h].phase = "route" /\ Outcome(h, "none")

RequestFails(h, error) ==
    /\ req[h].phase \in {"connect", "sent"} /\ error \in Errors(req[h].route, req[h].phase)
    /\ Outcome(h, IF Definite(h, error) THEN "none" ELSE "ambiguous")

RequestAnswered(h) == req[h].phase = "sent" /\ Outcome(h, "accepted")

-----------------------------------------------------------------------------
(* Tracking *)

\* begin_share_tracking_pass: the handle exists before the call runs.
BeginPass ==
    /\ pass = "none" /\ pass' = "open" /\ cancel' = FALSE
    /\ \E h \in Helpers : journal[h] # "none"
    /\ UNCHANGED <<stored, chain, cast, req, posts, crashes, tries>>

CancelPass ==
    /\ pass # "none" /\ ~cancel /\ cancel' = TRUE
    /\ UNCHANGED <<stored, chain, cast, pass, req, posts, crashes, tries>>

\* track_pending_shares: the sidecar is opened under its lock, the pass runs
\* without it.
TrackStarts ==
    /\ pass = "open" /\ pass' = "track"
    /\ UNCHANGED <<stored, chain, cast, cancel, req, posts, crashes, tries>>

\* An overdue share is offered to a helper that missed it.
TrackPosts(h) ==
    /\ pass = "track" /\ ~cancel /\ ~shown /\ vote = "confirmed" /\ plan # {}
    /\ Begin(h, "pass")

\* Two helpers, or the only one, say they hold the share.
Holders == {h \in Helpers : posts[h] > 0}

Quorum == IF Cardinality(Helpers) = 1 THEN 1 ELSE 2

\* confirm_share_with_helpers and the polling of a pass.
ConfirmShare ==
    /\ pass = "track" /\ ~cancel /\ ~shown /\ Cardinality(Holders) >= Quorum
    /\ shown' = TRUE
    /\ UNCHANGED <<intent, vote, plan, journal, chain, cast, pass, cancel, req, posts, crashes, tries>>

PassEnds ==
    /\ pass = "track" /\ \A h \in Helpers : req[h].by # "pass"
    /\ pass' = "none" /\ cancel' = FALSE
    /\ UNCHANGED <<stored, chain, cast, req, posts, crashes, tries>>

-----------------------------------------------------------------------------

\* The app is killed: attempts stay journaled as attempts.
Crash ==
    /\ crashes < MaxCrashes /\ crashes' = crashes + 1
    /\ cast' = "idle" /\ pass' = "none" /\ cancel' = FALSE
    /\ req' = [h \in Helpers |-> NoRequest]
    /\ UNCHANGED <<stored, chain, posts, tries>>

Next ==
    \/ SetBallotIntent \/ Resume \/ BuildCommitments \/ RecoverCommitment
    \/ \E r \in SUBSET Helpers : PrepareDelivery(r)
    \/ \E b \in BOOLEAN : Broadcast(b)
    \/ MarkSubmitted \/ ChainMines \/ ConfirmVote \/ NotConfirmedInTime
    \/ \E h \in Helpers :
        \/ Submit(h) \/ Dispatch(h) \/ RouteFails(h) \/ RequestAnswered(h) \/ TrackPosts(h)
        \/ \E r \in {"direct", "tor"} : Route(h, r)
        \/ \E e \in {"io", "read", "timeout", "circuit", "tls", "connect", "connect timeout"} : RequestFails(h, e)
    \/ SubmitEnds \/ SubmitStops
    \/ BeginPass \/ CancelPass \/ TrackStarts \/ ConfirmShare \/ PassEnds
    \/ Crash

Spec == Init /\ [][Next]_vars

-----------------------------------------------------------------------------
(* What a voter relies on *)

\* No helper can receive a share twice: not after a crash, a timeout on either
\* route, a second session or a tracking pass beside the cast.
OnePostPerHelper == \A h \in Helpers : posts[h] <= 1

\* A vote the chain can have seen always has the placement of its shares on
\* disk: whatever happens next, its shares can still be delivered.
PlannedBeforeSent == chain # "no" => plan # {}

=============================================================================
