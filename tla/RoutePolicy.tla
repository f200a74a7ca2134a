----------------------------- MODULE RoutePolicy -----------------------------
(***************************************************************************)
(* The process-wide network route: direct, or Tor with no fallback.        *)
(*                                                                         *)
(*   rust/src/network_privacy.rs               the policy                  *)
(*   rust/src/wallet/sync_engine/lwd.rs        its lightwalletd clients    *)
(*   lib/src/providers/network_privacy_provider.dart  who switches it      *)
(*                                                                         *)
(* A switch is one route change made by the app: turning Tor on is         *)
(* begin_tor_enable, a wait for the direct connections to close, and then  *)
(* enable_tor or, if the app gives up, fail_tor_enable; turning it off is  *)
(* disable_tor.  Switches overlap: they run on different threads.  A       *)
(* request resolves the route and, if that is direct, opens a connection   *)
(* under a DirectRouteLease.                                               *)
(***************************************************************************)
EXTENDS Naturals, FiniteSets

CONSTANTS
    Switches,     \* route changes
    Requests,     \* network tasks
    NoOne         \* nobody holds the lock

ASSUME RouteAssumption ==
    /\ NoOne \notin Switches \cup Requests
    /\ Switches \cap Requests = {}

VARIABLES
    desired,      \* TOR_DESIRED
    status,       \* TOR_STATUS
    client,       \* TOR_CLIENT is Some
    epoch,        \* DIRECT_ROUTE_EPOCH
    wakers,       \* DIRECT_IO_WAKERS: leases whose task can be woken
    wakersLock,   \* holder of the mutex of that map
    slotLock,     \* holder of the write lock of TOR_CLIENT
    initLock,     \* holder of TOR_INIT_LOCK
    dormant,      \* TOR_DORMANT
    mode,         \* whether the client was last put to sleep
    applying,     \* set_tor_dormant is between its store and its apply
    pc,           \* pc[c]: where switch c is
    at,           \* at[r]: where request r is
    hasClient,    \* hasClient[r]: r read a client from the slot
    leaseEpoch,   \* leaseEpoch[r]: epoch of r's lease
    parked,       \* parked[r]: r's task sleeps until a waker is called
    fenced,       \* history: a begin_tor_enable that no disable_tor has followed
    doomed        \* history: leases that were open when a begin_tor_enable ran

policyVars == <<desired, status, client>>
dormantVars == <<dormant, mode, applying>>
leaseVars == <<at, hasClient, leaseEpoch, parked>>
history == <<fenced, doomed>>
vars == <<policyVars, epoch, wakers, wakersLock, slotLock, initLock, dormantVars, pc,
          leaseVars, history>>

SwitchPCs == {"idle", "bstatus", "bepoch", "bclear", "drain", "drained", "wait", "check",
              "ready", "slot", "start", "boot", "publish", "bootfail", "fail", "dstatus", "done"}
RequestPCs == {"idle", "desired", "status", "wait", "tor", "refused",
               "direct", "lease", "io", "polling", "drop"}

TypeOK ==
    /\ desired \in BOOLEAN /\ client \in BOOLEAN
    /\ status \in {"direct", "bootstrapping", "ready", "failed"}
    /\ epoch \in Nat
    /\ wakers \subseteq Requests
    /\ wakersLock \in Switches \cup Requests \cup {NoOne}
    /\ slotLock \in Switches \cup {NoOne}
    /\ initLock \in Switches \cup {NoOne}
    /\ dormant \in BOOLEAN /\ mode \in BOOLEAN /\ applying \in BOOLEAN
    /\ pc \in [Switches -> SwitchPCs]
    /\ at \in [Requests -> RequestPCs]
    /\ hasClient \in [Requests -> BOOLEAN]
    /\ leaseEpoch \in [Requests -> Nat]
    /\ parked \in [Requests -> BOOLEAN]
    /\ fenced \in BOOLEAN
    /\ doomed \subseteq Requests

Init ==
    /\ desired = FALSE /\ status = "direct" /\ client = FALSE
    /\ epoch = 0
    /\ wakers = {}
    /\ wakersLock = NoOne /\ slotLock = NoOne /\ initLock = NoOne
    /\ dormant = FALSE /\ mode = FALSE /\ applying = FALSE
    /\ pc = [c \in Switches |-> "idle"]
    /\ at = [r \in Requests |-> "idle"]
    /\ hasClient = [r \in Requests |-> FALSE]
    /\ leaseEpoch = [r \in Requests |-> 0]
    /\ parked = [r \in Requests |-> FALSE]
    /\ fenced = FALSE
    /\ doomed = {}

Goto(c, l) == pc' = [pc EXCEPT ![c] = l]
Move(r, l) == at' = [at EXCEPT ![r] = l]

-----------------------------------------------------------------------------
(* begin_tor_enable: three stores under the wakers mutex, then the slot.   *)

BeginDesired(c) ==
    /\ pc[c] = "idle" /\ wakersLock = NoOne
    /\ wakersLock' = c
    /\ desired' = TRUE
    /\ fenced' = TRUE
    /\ Goto(c, "bstatus")
    /\ UNCHANGED <<status, client, epoch, wakers, slotLock, initLock, dormantVars, leaseVars, doomed>>

BeginStatus(c) ==
    /\ pc[c] = "bstatus"
    /\ status' = "bootstrapping"
    /\ Goto(c, "bepoch")
    /\ UNCHANGED <<desired, client, epoch, wakers, wakersLock, slotLock, initLock, dormantVars,
                   leaseVars, history>>

\* Leases whose epoch is already read; the others will read the new one.
Open == {r \in Requests : at[r] \in {"io", "polling"}}

\* Faulty variant: leaves the sleeping tasks alone.
BeginEpochSilently(c) ==
    /\ pc[c] = "bepoch"
    /\ epoch' = epoch + 1
    /\ wakersLock' = NoOne
    /\ doomed' = doomed \cup Open
    /\ Goto(c, "bclear")
    /\ UNCHANGED <<policyVars, wakers, slotLock, initLock, dormantVars, leaseVars, fenced>>

\* Advance the epoch, drain the wakers, and wake their tasks.
BeginEpoch(c) ==
    /\ pc[c] = "bepoch"
    /\ epoch' = epoch + 1
    /\ wakers' = {}
    /\ parked' = [r \in Requests |-> parked[r] /\ r \notin wakers]
    /\ wakersLock' = NoOne
    /\ doomed' = doomed \cup Open
    /\ Goto(c, "bclear")
    /\ UNCHANGED <<policyVars, slotLock, initLock, dormantVars, at, hasClient, leaseEpoch, fenced>>

BeginClear(c) ==
    /\ pc[c] = "bclear" /\ slotLock = NoOne
    /\ client' = FALSE
    /\ Goto(c, "drain")
    /\ UNCHANGED <<desired, status, epoch, wakers, wakersLock, slotLock, initLock, dormantVars,
                   leaseVars, history>>

\* ACTIVE_DIRECT_IO counts these.
Active == {r \in Requests : at[r] \in {"lease", "io", "polling", "drop"}}

\* wait_for_direct_connections_to_close returns; or times out, and the app gives up.
Drain(c) ==
    /\ pc[c] = "drain"
    /\ \/ Active = {} /\ Goto(c, "drained")
       \/ Goto(c, "fail")
    /\ UNCHANGED <<policyVars, epoch, wakers, wakersLock, slotLock, initLock, dormantVars,
                   leaseVars, history>>

-----------------------------------------------------------------------------
(* enable_tor, bootstrap_tor, install_bootstrapped_client.                 *)

EnableDesired(c) ==
    /\ pc[c] = "drained"
    /\ desired' = TRUE
    /\ Goto(c, "wait")
    /\ UNCHANGED <<status, client, epoch, wakers, wakersLock, slotLock, initLock, dormantVars,
                   leaseVars, history>>

\* Only a bootstrap holds the init lock for as long as a deadline.
EnableLock(c) ==
    /\ pc[c] = "wait"
    /\ \/ initLock = NoOne /\ initLock' = c /\ Goto(c, "check")
       \/ /\ initLock # NoOne /\ pc[initLock] = "boot"
          /\ Goto(c, "fail") \/ Goto(c, "done")
          /\ UNCHANGED initLock
    /\ UNCHANGED <<policyVars, epoch, wakers, wakersLock, slotLock, dormantVars, leaseVars, history>>

EnableCheck(c) ==
    /\ pc[c] = "check"
    /\ \/ desired /\ Goto(c, "ready") /\ UNCHANGED initLock
       \/ ~desired /\ Goto(c, "done") /\ initLock' = NoOne
    /\ UNCHANGED <<policyVars, epoch, wakers, wakersLock, slotLock, dormantVars, leaseVars, history>>

\* Already connected?  The status is read first, the slot after it.
EnableReady(c) ==
    /\ pc[c] = "ready"
    /\ Goto(c, IF status = "ready" THEN "slot" ELSE "start")
    /\ UNCHANGED <<policyVars, epoch, wakers, wakersLock, slotLock, initLock, dormantVars,
                   leaseVars, history>>

EnableSlot(c) ==
    /\ pc[c] = "slot" /\ slotLock = NoOne
    /\ \/ ~client /\ Goto(c, "start") /\ UNCHANGED initLock
       \/ client /\ Goto(c, "done") /\ initLock' = NoOne
    /\ UNCHANGED <<policyVars, epoch, wakers, wakersLock, slotLock, dormantVars, leaseVars, history>>

EnableStart(c) ==
    /\ pc[c] = "start"
    /\ status' = "bootstrapping"
    /\ Goto(c, "boot")
    /\ UNCHANGED <<desired, client, epoch, wakers, wakersLock, slotLock, initLock, dormantVars,
                   leaseVars, history>>

\* The directory or the bootstrap fails, or it is abandoned, or it runs out of time.
Bootstrap(c) ==
    /\ pc[c] = "boot"
    /\ Goto(c, "publish") \/ Goto(c, "bootfail")
    /\ UNCHANGED <<policyVars, epoch, wakers, wakersLock, slotLock, initLock, dormantVars,
                   leaseVars, history>>

\* Faulty variants: the route is not read again; the pending mode is not adopted.
PublishUnchecked(c) ==
    /\ pc[c] = "publish" /\ slotLock = NoOne
    /\ client' = TRUE
    /\ mode' = dormant
    /\ status' = "ready"
    /\ initLock' = NoOne
    /\ Goto(c, "done")
    /\ UNCHANGED <<desired, epoch, wakers, wakersLock, slotLock, dormant, applying, leaseVars, history>>

PublishAwake(c) ==
    /\ pc[c] = "publish" /\ slotLock = NoOne
    /\ \/ /\ desired
          /\ client' = TRUE
          /\ mode' = FALSE
          /\ status' = "ready"
       \/ ~desired /\ UNCHANGED <<status, client, mode>>
    /\ initLock' = NoOne
    /\ Goto(c, "done")
    /\ UNCHANGED <<desired, epoch, wakers, wakersLock, slotLock, dormant, applying, leaseVars, history>>

\* Under the slot lock: read the route again, adopt the pending mode, install.
Publish(c) ==
    /\ pc[c] = "publish" /\ slotLock = NoOne
    /\ \/ /\ desired
          /\ client' = TRUE
          /\ mode' = dormant
          /\ status' = "ready"
       \/ ~desired /\ UNCHANGED <<status, client, mode>>
    /\ initLock' = NoOne
    /\ Goto(c, "done")
    /\ UNCHANGED <<desired, epoch, wakers, wakersLock, slotLock, dormant, applying, leaseVars, history>>

\* set_tor_failed: a route that went direct keeps its status.
SetTorFailed ==
    /\ slotLock = NoOne
    /\ client' = FALSE
    /\ status' = IF desired THEN "failed" ELSE status
    /\ UNCHANGED desired

\* The bootstrap publishes its failure; the app may publish it again.
BootstrapFails(c) ==
    /\ pc[c] = "bootfail"
    /\ SetTorFailed
    /\ initLock' = NoOne
    /\ Goto(c, "fail") \/ Goto(c, "done")
    /\ UNCHANGED <<epoch, wakers, wakersLock, slotLock, dormantVars, leaseVars, history>>

\* Faulty variant: reports nothing.
FailTorEnableSilently(c) ==
    /\ pc[c] = "fail" /\ slotLock = NoOne
    /\ Goto(c, "done")
    /\ UNCHANGED <<policyVars, epoch, wakers, wakersLock, slotLock, initLock, dormantVars, leaseVars, history>>

FailTorEnable(c) ==
    /\ pc[c] = "fail"
    /\ SetTorFailed
    /\ Goto(c, "done")
    /\ UNCHANGED <<epoch, wakers, wakersLock, slotLock, initLock, dormantVars, leaseVars, history>>

-----------------------------------------------------------------------------
(* disable_tor: under the slot lock.                                       *)

DisableDesired(c) ==
    /\ pc[c] = "idle" /\ slotLock = NoOne
    /\ slotLock' = c
    /\ desired' = FALSE
    /\ fenced' = FALSE
    /\ Goto(c, "dstatus")
    /\ UNCHANGED <<status, client, epoch, wakers, wakersLock, initLock, dormantVars, leaseVars, doomed>>

DisableStatus(c) ==
    /\ pc[c] = "dstatus"
    /\ status' = "direct"
    /\ client' = FALSE
    /\ slotLock' = NoOne
    /\ Goto(c, "done")
    /\ UNCHANGED <<desired, epoch, wakers, wakersLock, initLock, dormantVars, leaseVars, history>>

-----------------------------------------------------------------------------
(* set_tor_dormant: a store and an apply, under a lock of its own.         *)

DormantStore(d) ==
    /\ ~applying
    /\ dormant # d
    /\ dormant' = d
    /\ applying' = TRUE
    /\ UNCHANGED <<policyVars, epoch, wakers, wakersLock, slotLock, initLock, mode, pc, leaseVars, history>>

DormantApply ==
    /\ applying /\ slotLock = NoOne
    /\ mode' = IF client THEN dormant ELSE mode
    /\ applying' = FALSE
    /\ UNCHANGED <<policyVars, epoch, wakers, wakersLock, slotLock, initLock, dormant, pc, leaseVars, history>>

-----------------------------------------------------------------------------
(* tor_client_for_route: three reads, a decision, and perhaps a wait.      *)

ReadClient(r) ==
    /\ at[r] = "idle" /\ slotLock = NoOne
    /\ hasClient' = [hasClient EXCEPT ![r] = client]
    /\ Move(r, "desired")
    /\ UNCHANGED <<policyVars, epoch, wakers, wakersLock, slotLock, initLock, dormantVars, pc,
                   leaseEpoch, parked, history>>

ReadDesired(r) ==
    /\ at[r] = "desired"
    /\ Move(r, IF desired THEN "status" ELSE "direct")
    /\ UNCHANGED <<policyVars, epoch, wakers, wakersLock, slotLock, initLock, dormantVars, pc,
                   hasClient, leaseEpoch, parked, history>>

\* Faulty variant: hands the status on instead of a decision.
RouteDecisionRaw(s, has) == IF s = "ready" /\ has THEN "tor" ELSE s

RouteDecision(s, has) ==
    CASE s = "ready" /\ has -> "tor"
      [] s = "bootstrapping" -> "wait"
      [] OTHER -> "refused"

ReadStatus(r) ==
    /\ at[r] = "status"
    /\ Move(r, RouteDecision(status, hasClient[r]))
    /\ UNCHANGED <<policyVars, epoch, wakers, wakersLock, slotLock, initLock, dormantVars, pc,
                   hasClient, leaseEpoch, parked, history>>

\* A notification or the tick; the request is then resolved afresh.
ProbeAgain(r) ==
    /\ at[r] = "wait"
    /\ Move(r, "idle")
    /\ UNCHANGED <<policyVars, epoch, wakers, wakersLock, slotLock, initLock, dormantVars, pc,
                   hasClient, leaseEpoch, parked, history>>

\* The caller is cancelled or the deadline passes.
StopWaiting(r) ==
    /\ at[r] = "wait"
    /\ Move(r, "refused")
    /\ UNCHANGED <<policyVars, epoch, wakers, wakersLock, slotLock, initLock, dormantVars, pc,
                   hasClient, leaseEpoch, parked, history>>

\* The request is over; its task makes another.
EndRequest(r) ==
    /\ at[r] \in {"tor", "refused"}
    /\ Move(r, "idle")
    /\ UNCHANGED <<policyVars, epoch, wakers, wakersLock, slotLock, initLock, dormantVars, pc,
                   hasClient, leaseEpoch, parked, history>>

-----------------------------------------------------------------------------
(* DirectRouteLease: new counts the lease and reads the epoch.             *)

LeaseNew(r) ==
    /\ at[r] = "direct"
    /\ Move(r, "lease")
    /\ UNCHANGED <<policyVars, epoch, wakers, wakersLock, slotLock, initLock, dormantVars, pc,
                   hasClient, leaseEpoch, parked, history>>

LeaseEpoch(r) ==
    /\ at[r] = "lease"
    /\ leaseEpoch' = [leaseEpoch EXCEPT ![r] = epoch]
    /\ Move(r, "io")
    /\ UNCHANGED <<policyVars, epoch, wakers, wakersLock, slotLock, initLock, dormantVars, pc,
                   hasClient, parked, history>>

\* Faulty variant: only the route is checked.
PollAnyEpoch(r) ==
    /\ at[r] = "io" /\ ~parked[r] /\ wakersLock = NoOne
    /\ \/ desired /\ Move(r, "drop") /\ UNCHANGED <<wakers, wakersLock>>
       \/ /\ ~desired
          /\ wakersLock' = r
          /\ wakers' = wakers \cup {r}
          /\ Move(r, "polling")
    /\ UNCHANGED <<policyVars, epoch, slotLock, initLock, dormantVars, pc, hasClient, leaseEpoch,
                   parked, history>>

\* DirectRouteLease::poll: check and register under the lock, which is kept
\* through the inner poll.
Poll(r) ==
    /\ at[r] = "io" /\ ~parked[r] /\ wakersLock = NoOne
    /\ \/ /\ desired \/ leaseEpoch[r] # epoch
          /\ Move(r, "drop")
          /\ UNCHANGED <<wakers, wakersLock>>
       \/ /\ ~desired /\ leaseEpoch[r] = epoch
          /\ wakersLock' = r
          /\ wakers' = wakers \cup {r}
          /\ Move(r, "polling")
    /\ UNCHANGED <<policyVars, epoch, slotLock, initLock, dormantVars, pc, hasClient, leaseEpoch,
                   parked, history>>

\* The inner poll: bytes may move; it makes progress, sleeps, or ends.
PollInner(r) ==
    /\ at[r] = "polling"
    /\ wakersLock' = NoOne
    /\ \/ Move(r, "io") /\ \E asleep \in BOOLEAN : parked' = [parked EXCEPT ![r] = asleep]
       \/ Move(r, "drop") /\ UNCHANGED parked
    /\ UNCHANGED <<policyVars, epoch, wakers, slotLock, initLock, dormantVars, pc, hasClient,
                   leaseEpoch, history>>

\* The peer sends something, or a timer fires.
IoReady(r) ==
    /\ parked[r]
    /\ parked' = [parked EXCEPT ![r] = FALSE]
    /\ UNCHANGED <<policyVars, epoch, wakers, wakersLock, slotLock, initLock, dormantVars, pc, at,
                   hasClient, leaseEpoch, history>>

LeaseDrop(r) ==
    /\ at[r] = "drop" /\ wakersLock = NoOne
    /\ wakers' = wakers \ {r}
    /\ Move(r, "idle")
    /\ doomed' = doomed \ {r}
    /\ UNCHANGED <<policyVars, epoch, wakersLock, slotLock, initLock, dormantVars, pc, hasClient,
                   leaseEpoch, parked, fenced>>

-----------------------------------------------------------------------------
SwitchStep(c) ==
    \/ BeginStatus(c) \/ BeginEpoch(c) \/ BeginClear(c) \/ Drain(c)
    \/ EnableDesired(c) \/ EnableLock(c) \/ EnableCheck(c) \/ EnableReady(c)
    \/ EnableSlot(c) \/ EnableStart(c)
    \/ Bootstrap(c) \/ Publish(c) \/ BootstrapFails(c) \/ FailTorEnable(c)
    \/ DisableStatus(c)

\* What a request's task does by itself once it runs.
RequestStep(r) ==
    \/ ReadDesired(r) \/ ReadStatus(r) \/ ProbeAgain(r) \/ EndRequest(r)
    \/ LeaseNew(r) \/ LeaseEpoch(r) \/ Poll(r) \/ PollInner(r) \/ LeaseDrop(r)

Next ==
    \/ \E c \in Switches : BeginDesired(c) \/ DisableDesired(c) \/ SwitchStep(c)
    \/ \E d \in BOOLEAN : DormantStore(d)
    \/ DormantApply
    \/ \E r \in Requests : ReadClient(r) \/ StopWaiting(r) \/ IoReady(r) \/ RequestStep(r)

Spec == Init /\ [][Next]_vars

-----------------------------------------------------------------------------
(* Properties                                                              *)

(* No byte moves on a direct connection once begin_tor_enable has run,     *)
(* until the user turns Tor off; and none ever moves again on a connection *)
(* that was open when it ran, even after Tor is off.                       *)
FailClosed == \A r \in Requests :
    at[r] = "polling" => ~fenced /\ r \notin doomed

(* A finishing bootstrap and a disable_tor never interleave into a ready   *)
(* status, or a Tor client, on a direct route.                             *)
ReadyIsTor == status = "ready" \/ client => desired \/ slotLock # NoOne

\* No route change is in progress.
Settled == \A c \in Switches : pc[c] \in {"idle", "done"}

(* When Tor is the route and no switch is running, the status is definite  *)
(* and matches the client slot: no request waits for a bootstrap nobody    *)
(* started.                                                                *)
SettledIsDefinite == Settled /\ desired =>
    /\ status \in {"ready", "failed"}
    /\ client <=> status = "ready"

(* A client is asleep exactly when the app last asked for sleep, also when *)
(* it asked before there was a client.                                     *)
DormancyApplied == client /\ ~applying => mode = dormant

(* "Bootstrapping and Failed both mean that app network requests are       *)
(* blocked while Tor remains the desired route" (get_network_privacy_status)*)
BlockedStatusMeansTor == Settled /\ status \in {"bootstrapping", "failed"} => desired

-----------------------------------------------------------------------------
(* Liveness.  Threads that can run do; mutexes are handed over, so a       *)
(* switch is not kept from one for ever; a bootstrap has a deadline.  The  *)
(* peer of a direct connection may stay silent for ever, and the user may  *)
(* never touch the setting.                                                *)
FairSpec ==
    /\ Spec
    /\ \A c \in Switches : SF_vars(SwitchStep(c))
    /\ \A r \in Requests : SF_vars(RequestStep(r)) /\ WF_vars(ReadClient(r))

(* A connection that was open when begin_tor_enable ran is closed, also if *)
(* its task was asleep on a silent peer.                                   *)
OpenConnectionsClose == \A r \in Requests : r \in doomed ~> r \notin doomed

(* A request that waits for a bootstrap is answered, without the help of   *)
(* its own deadline.                                                       *)
WaitersAreAnswered == \A r \in Requests :
    at[r] = "wait" ~> at[r] \in {"tor", "refused", "direct"}
=============================================================================
