-------------------------- MODULE RoutePolicyProofs --------------------------
(***************************************************************************)
(* Proofs that RoutePolicy fails closed, for any number of overlapping     *)
(* switches and requests.  Each property needs to know who holds which     *)
(* lock; FailClosed also needs the order of epochs, and SettledIsDefinite  *)
(* that a route that is not yet definite has a switch at work on it, also  *)
(* when an enable_tor returns because it saw a client that another switch  *)
(* is about to remove.                                                     *)
(***************************************************************************)
EXTENDS RoutePolicy, TLAPS

\* Who holds the wakers mutex and the slot's write lock.
LockInv ==
    /\ \A r \in Requests : at[r] = "polling" => wakersLock = r
    /\ \A c \in Switches : pc[c] \in {"bstatus", "bepoch"} => wakersLock = c
    /\ \A c \in Switches : pc[c] = "dstatus" <=> slotLock = c

\* A fence is a wish for Tor; a lease from before a fence has an old epoch.
FenceInv ==
    /\ fenced => desired
    /\ \A r \in Requests : leaseEpoch[r] <= epoch
    /\ \A r \in doomed : leaseEpoch[r] < epoch /\ at[r] \in {"io", "drop"}
    /\ \A r \in Requests : at[r] = "polling" => ~fenced

\* The switches inside bootstrap_tor, past the init lock.
InitHeld ==
    \A c \in Switches :
        initLock = c <=> pc[c] \in {"check", "ready", "slot", "start", "boot", "publish", "bootfail"}

\* A begin_tor_enable that has still to empty the slot.
Clearing(c) == pc[c] \in {"bepoch", "bclear"}

\* A client without a ready status, or under an enable_tor that found the
\* route not connected, is one that a begin_tor_enable is about to remove.
StaleClient ==
    client => /\ status # "ready" => \E d \in Switches : Clearing(d)
              /\ \A c \in Switches : pc[c] = "start" => \E d \in Switches : Clearing(d)

\* A switch that is at work on turning Tor on.
Working(c) == pc[c] \notin {"idle", "dstatus", "done"}

Definite ==
    /\ status \in {"ready", "failed"}
    /\ client <=> status = "ready"

\* A Tor route that is not definite, or is about to be disturbed by a
\* disable_tor in its critical section, has a switch at work.
OwedInv == desired /\ (slotLock # NoOne \/ ~Definite) => \E c \in Switches : Working(c)

IInv == TypeOK /\ LockInv /\ FenceInv /\ ReadyIsTor /\ InitHeld /\ StaleClient /\ OwedInv
        /\ DormancyApplied

-----------------------------------------------------------------------------
\* A request changes neither the policy nor a switch.
LEMMA RequestsKeepPolicy ==
    ASSUME NEW r \in Requests,
           ReadClient(r) \/ StopWaiting(r) \/ IoReady(r) \/ RequestStep(r)
    PROVE  UNCHANGED <<policyVars, slotLock, initLock, dormantVars, pc>>
<1>1. CASE ReadClient(r)
  BY <1>1 DEF ReadClient
<1>2. CASE ReadDesired(r)
  BY <1>2 DEF ReadDesired
<1>3. CASE ReadStatus(r)
  BY <1>3 DEF ReadStatus
<1>4. CASE ProbeAgain(r)
  BY <1>4 DEF ProbeAgain
<1>5. CASE StopWaiting(r)
  BY <1>5 DEF StopWaiting
<1>6. CASE EndRequest(r)
  BY <1>6 DEF EndRequest
<1>7. CASE LeaseNew(r)
  BY <1>7 DEF LeaseNew
<1>8. CASE LeaseEpoch(r)
  BY <1>8 DEF LeaseEpoch
<1>9. CASE Poll(r)
  BY <1>9 DEF Poll
<1>10. CASE PollInner(r)
  BY <1>10 DEF PollInner
<1>11. CASE IoReady(r)
  BY <1>11 DEF IoReady
<1>12. CASE LeaseDrop(r)
  BY <1>12 DEF LeaseDrop
<1> QED
  BY <1>1, <1>2, <1>3, <1>4, <1>5, <1>6, <1>7, <1>8, <1>9, <1>10, <1>11, <1>12 DEF RequestStep

\* Every step keeps the types.
LEMMA TypeStep ==
    ASSUME TypeOK, [Next]_vars
    PROVE  TypeOK'
<1> USE RouteAssumption DEF TypeOK, SwitchPCs, RequestPCs
<1>1. ASSUME NEW c \in Switches, BeginDesired(c) PROVE TypeOK'
  BY <1>1 DEF BeginDesired, Goto, dormantVars, leaseVars
<1>2. ASSUME NEW c \in Switches, BeginStatus(c) PROVE TypeOK'
  BY <1>2 DEF BeginStatus, Goto, dormantVars, leaseVars, history
<1>3. ASSUME NEW c \in Switches, BeginEpoch(c) PROVE TypeOK'
  BY <1>3 DEF BeginEpoch, Open, Goto, policyVars, dormantVars
<1>4. ASSUME NEW c \in Switches, BeginClear(c) PROVE TypeOK'
  BY <1>4 DEF BeginClear, Goto, dormantVars, leaseVars, history
<1>5. ASSUME NEW c \in Switches, Drain(c) PROVE TypeOK'
  BY <1>5 DEF Drain, Active, Goto, policyVars, dormantVars, leaseVars, history
<1>6. ASSUME NEW c \in Switches, EnableDesired(c) PROVE TypeOK'
  BY <1>6 DEF EnableDesired, Goto, dormantVars, leaseVars, history
<1>7. ASSUME NEW c \in Switches, EnableLock(c) PROVE TypeOK'
  BY <1>7 DEF EnableLock, Goto, policyVars, dormantVars, leaseVars, history
<1>8. ASSUME NEW c \in Switches, EnableCheck(c) PROVE TypeOK'
  BY <1>8 DEF EnableCheck, Goto, policyVars, dormantVars, leaseVars, history
<1>9. ASSUME NEW c \in Switches, EnableReady(c) PROVE TypeOK'
  BY <1>9 DEF EnableReady, Goto, policyVars, dormantVars, leaseVars, history
<1>10. ASSUME NEW c \in Switches, EnableSlot(c) PROVE TypeOK'
  BY <1>10 DEF EnableSlot, Goto, policyVars, dormantVars, leaseVars, history
<1>11. ASSUME NEW c \in Switches, EnableStart(c) PROVE TypeOK'
  BY <1>11 DEF EnableStart, Goto, dormantVars, leaseVars, history
<1>12. ASSUME NEW c \in Switches, Bootstrap(c) PROVE TypeOK'
  BY <1>12 DEF Bootstrap, Goto, policyVars, dormantVars, leaseVars, history
<1>13. ASSUME NEW c \in Switches, Publish(c) PROVE TypeOK'
  BY <1>13 DEF Publish, Goto, leaseVars, history
<1>14. ASSUME NEW c \in Switches, BootstrapFails(c) PROVE TypeOK'
  BY <1>14 DEF BootstrapFails, SetTorFailed, Goto, dormantVars, leaseVars, history
<1>15. ASSUME NEW c \in Switches, FailTorEnable(c) PROVE TypeOK'
  BY <1>15 DEF FailTorEnable, SetTorFailed, Goto, dormantVars, leaseVars, history
<1>16. ASSUME NEW c \in Switches, DisableDesired(c) PROVE TypeOK'
  BY <1>16 DEF DisableDesired, Goto, dormantVars, leaseVars
<1>17. ASSUME NEW c \in Switches, DisableStatus(c) PROVE TypeOK'
  BY <1>17 DEF DisableStatus, Goto, dormantVars, leaseVars, history
<1>18. ASSUME NEW d \in BOOLEAN, DormantStore(d) PROVE TypeOK'
  BY <1>18 DEF DormantStore, policyVars, leaseVars, history
<1>19. CASE DormantApply
  BY <1>19 DEF DormantApply, policyVars, leaseVars, history
<1>20. ASSUME NEW r \in Requests, ReadClient(r) PROVE TypeOK'
  BY <1>20 DEF ReadClient, Move, policyVars, dormantVars, history
<1>21. ASSUME NEW r \in Requests, ReadDesired(r) PROVE TypeOK'
  BY <1>21 DEF ReadDesired, Move, policyVars, dormantVars, history
<1>22. ASSUME NEW r \in Requests, ReadStatus(r) PROVE TypeOK'
  BY <1>22 DEF ReadStatus, RouteDecision, Move, policyVars, dormantVars, history
<1>23. ASSUME NEW r \in Requests, ProbeAgain(r) PROVE TypeOK'
  BY <1>23 DEF ProbeAgain, Move, policyVars, dormantVars, history
<1>24. ASSUME NEW r \in Requests, StopWaiting(r) PROVE TypeOK'
  BY <1>24 DEF StopWaiting, Move, policyVars, dormantVars, history
<1>25. ASSUME NEW r \in Requests, EndRequest(r) PROVE TypeOK'
  BY <1>25 DEF EndRequest, Move, policyVars, dormantVars, history
<1>26. ASSUME NEW r \in Requests, LeaseNew(r) PROVE TypeOK'
  BY <1>26 DEF LeaseNew, Move, policyVars, dormantVars, history
<1>27. ASSUME NEW r \in Requests, LeaseEpoch(r) PROVE TypeOK'
  BY <1>27 DEF LeaseEpoch, Move, policyVars, dormantVars, history
<1>28. ASSUME NEW r \in Requests, Poll(r) PROVE TypeOK'
  BY <1>28 DEF Poll, Move, policyVars, dormantVars, history
<1>29. ASSUME NEW r \in Requests, PollInner(r) PROVE TypeOK'
  BY <1>29 DEF PollInner, Move, policyVars, dormantVars, history
<1>30. ASSUME NEW r \in Requests, IoReady(r) PROVE TypeOK'
  BY <1>30 DEF IoReady, policyVars, dormantVars, history
<1>31. ASSUME NEW r \in Requests, LeaseDrop(r) PROVE TypeOK'
  BY <1>31 DEF LeaseDrop, Move, policyVars, dormantVars
<1>32. CASE UNCHANGED vars
  BY <1>32 DEF vars, policyVars, dormantVars, leaseVars, history
<1> QED
  BY <1>1, <1>2, <1>3, <1>4, <1>5, <1>6, <1>7, <1>8, <1>9, <1>10, <1>11,
     <1>12, <1>13, <1>14, <1>15, <1>16, <1>17, <1>18, <1>19, <1>20, <1>21,
     <1>22, <1>23, <1>24, <1>25, <1>26, <1>27, <1>28, <1>29, <1>30, <1>31,
     <1>32
  DEF Next, SwitchStep, RequestStep

\* Every step keeps the mutexes with their holders.
LEMMA LockStep ==
    ASSUME TypeOK, LockInv, [Next]_vars
    PROVE  LockInv'
<1> USE RouteAssumption DEF TypeOK, LockInv
<1>1. ASSUME NEW c \in Switches, BeginDesired(c) PROVE LockInv'
  BY <1>1 DEF BeginDesired, Goto, dormantVars, leaseVars
<1>2. ASSUME NEW c \in Switches, BeginStatus(c) PROVE LockInv'
  BY <1>2 DEF BeginStatus, Goto, dormantVars, leaseVars, history
<1>3. ASSUME NEW c \in Switches, BeginEpoch(c) PROVE LockInv'
  BY <1>3 DEF BeginEpoch, Open, Goto, policyVars, dormantVars
<1>4. ASSUME NEW c \in Switches, BeginClear(c) PROVE LockInv'
  BY <1>4 DEF BeginClear, Goto, dormantVars, leaseVars, history
<1>5. ASSUME NEW c \in Switches, Drain(c) PROVE LockInv'
  BY <1>5 DEF Drain, Active, Goto, policyVars, dormantVars, leaseVars, history
<1>6. ASSUME NEW c \in Switches, EnableDesired(c) PROVE LockInv'
  BY <1>6 DEF EnableDesired, Goto, dormantVars, leaseVars, history
<1>7. ASSUME NEW c \in Switches, EnableLock(c) PROVE LockInv'
  BY <1>7 DEF EnableLock, Goto, policyVars, dormantVars, leaseVars, history
<1>8. ASSUME NEW c \in Switches, EnableCheck(c) PROVE LockInv'
  BY <1>8 DEF EnableCheck, Goto, policyVars, dormantVars, leaseVars, history
<1>9. ASSUME NEW c \in Switches, EnableReady(c) PROVE LockInv'
  BY <1>9 DEF EnableReady, Goto, policyVars, dormantVars, leaseVars, history
<1>10. ASSUME NEW c \in Switches, EnableSlot(c) PROVE LockInv'
  BY <1>10 DEF EnableSlot, Goto, policyVars, dormantVars, leaseVars, history
<1>11. ASSUME NEW c \in Switches, EnableStart(c) PROVE LockInv'
  BY <1>11 DEF EnableStart, Goto, dormantVars, leaseVars, history
<1>12. ASSUME NEW c \in Switches, Bootstrap(c) PROVE LockInv'
  BY <1>12 DEF Bootstrap, Goto, policyVars, dormantVars, leaseVars, history
<1>13. ASSUME NEW c \in Switches, Publish(c) PROVE LockInv'
  BY <1>13 DEF Publish, Goto, leaseVars, history
<1>14. ASSUME NEW c \in Switches, BootstrapFails(c) PROVE LockInv'
  BY <1>14 DEF BootstrapFails, SetTorFailed, Goto, dormantVars, leaseVars, history
<1>15. ASSUME NEW c \in Switches, FailTorEnable(c) PROVE LockInv'
  BY <1>15 DEF FailTorEnable, SetTorFailed, Goto, dormantVars, leaseVars, history
<1>16. ASSUME NEW c \in Switches, DisableDesired(c) PROVE LockInv'
  BY <1>16 DEF DisableDesired, Goto, dormantVars, leaseVars
<1>17. ASSUME NEW c \in Switches, DisableStatus(c) PROVE LockInv'
  BY <1>17 DEF DisableStatus, Goto, dormantVars, leaseVars, history
<1>18. ASSUME NEW d \in BOOLEAN, DormantStore(d) PROVE LockInv'
  BY <1>18 DEF DormantStore, policyVars, leaseVars, history
<1>19. CASE DormantApply
  BY <1>19 DEF DormantApply, policyVars, leaseVars, history
<1>20. ASSUME NEW r \in Requests, ReadClient(r) PROVE LockInv'
  BY <1>20 DEF ReadClient, Move, policyVars, dormantVars, history
<1>21. ASSUME NEW r \in Requests, ReadDesired(r) PROVE LockInv'
  BY <1>21 DEF ReadDesired, Move, policyVars, dormantVars, history
<1>22. ASSUME NEW r \in Requests, ReadStatus(r) PROVE LockInv'
  BY <1>22 DEF ReadStatus, RouteDecision, Move, policyVars, dormantVars, history
<1>23. ASSUME NEW r \in Requests, ProbeAgain(r) PROVE LockInv'
  BY <1>23 DEF ProbeAgain, Move, policyVars, dormantVars, history
<1>24. ASSUME NEW r \in Requests, StopWaiting(r) PROVE LockInv'
  BY <1>24 DEF StopWaiting, Move, policyVars, dormantVars, history
<1>25. ASSUME NEW r \in Requests, EndRequest(r) PROVE LockInv'
  BY <1>25 DEF EndRequest, Move, policyVars, dormantVars, history
<1>26. ASSUME NEW r \in Requests, LeaseNew(r) PROVE LockInv'
  BY <1>26 DEF LeaseNew, Move, policyVars, dormantVars, history
<1>27. ASSUME NEW r \in Requests, LeaseEpoch(r) PROVE LockInv'
  BY <1>27 DEF LeaseEpoch, Move, policyVars, dormantVars, history
<1>28. ASSUME NEW r \in Requests, Poll(r) PROVE LockInv'
  BY <1>28 DEF Poll, Move, policyVars, dormantVars, history
<1>29. ASSUME NEW r \in Requests, PollInner(r) PROVE LockInv'
  BY <1>29 DEF PollInner, Move, policyVars, dormantVars, history
<1>30. ASSUME NEW r \in Requests, IoReady(r) PROVE LockInv'
  BY <1>30 DEF IoReady, policyVars, dormantVars, history
<1>31. ASSUME NEW r \in Requests, LeaseDrop(r) PROVE LockInv'
  BY <1>31 DEF LeaseDrop, Move, policyVars, dormantVars
<1>32. CASE UNCHANGED vars
  BY <1>32 DEF vars, policyVars, dormantVars, leaseVars, history
<1> QED
  BY <1>1, <1>2, <1>3, <1>4, <1>5, <1>6, <1>7, <1>8, <1>9, <1>10, <1>11,
     <1>12, <1>13, <1>14, <1>15, <1>16, <1>17, <1>18, <1>19, <1>20, <1>21,
     <1>22, <1>23, <1>24, <1>25, <1>26, <1>27, <1>28, <1>29, <1>30, <1>31,
     <1>32
  DEF Next, SwitchStep, RequestStep

\* Every step keeps leases behind the fences they met.
LEMMA FenceStep ==
    ASSUME TypeOK, LockInv, FenceInv, [Next]_vars
    PROVE  FenceInv'
<1> USE RouteAssumption DEF TypeOK, LockInv, FenceInv
<1>1. ASSUME NEW c \in Switches, BeginDesired(c) PROVE FenceInv'
  BY <1>1 DEF BeginDesired, Goto, dormantVars, leaseVars
<1>2. ASSUME NEW c \in Switches, BeginStatus(c) PROVE FenceInv'
  BY <1>2 DEF BeginStatus, Goto, dormantVars, leaseVars, history
<1>3. ASSUME NEW c \in Switches, BeginEpoch(c) PROVE FenceInv'
  BY <1>3 DEF BeginEpoch, Open, Goto, policyVars, dormantVars
<1>4. ASSUME NEW c \in Switches, BeginClear(c) PROVE FenceInv'
  BY <1>4 DEF BeginClear, Goto, dormantVars, leaseVars, history
<1>5. ASSUME NEW c \in Switches, Drain(c) PROVE FenceInv'
  BY <1>5 DEF Drain, Active, Goto, policyVars, dormantVars, leaseVars, history
<1>6. ASSUME NEW c \in Switches, EnableDesired(c) PROVE FenceInv'
  BY <1>6 DEF EnableDesired, Goto, dormantVars, leaseVars, history
<1>7. ASSUME NEW c \in Switches, EnableLock(c) PROVE FenceInv'
  BY <1>7 DEF EnableLock, Goto, policyVars, dormantVars, leaseVars, history
<1>8. ASSUME NEW c \in Switches, EnableCheck(c) PROVE FenceInv'
  BY <1>8 DEF EnableCheck, Goto, policyVars, dormantVars, leaseVars, history
<1>9. ASSUME NEW c \in Switches, EnableReady(c) PROVE FenceInv'
  BY <1>9 DEF EnableReady, Goto, policyVars, dormantVars, leaseVars, history
<1>10. ASSUME NEW c \in Switches, EnableSlot(c) PROVE FenceInv'
  BY <1>10 DEF EnableSlot, Goto, policyVars, dormantVars, leaseVars, history
<1>11. ASSUME NEW c \in Switches, EnableStart(c) PROVE FenceInv'
  BY <1>11 DEF EnableStart, Goto, dormantVars, leaseVars, history
<1>12. ASSUME NEW c \in Switches, Bootstrap(c) PROVE FenceInv'
  BY <1>12 DEF Bootstrap, Goto, policyVars, dormantVars, leaseVars, history
<1>13. ASSUME NEW c \in Switches, Publish(c) PROVE FenceInv'
  BY <1>13 DEF Publish, Goto, leaseVars, history
<1>14. ASSUME NEW c \in Switches, BootstrapFails(c) PROVE FenceInv'
  BY <1>14 DEF BootstrapFails, SetTorFailed, Goto, dormantVars, leaseVars, history
<1>15. ASSUME NEW c \in Switches, FailTorEnable(c) PROVE FenceInv'
  BY <1>15 DEF FailTorEnable, SetTorFailed, Goto, dormantVars, leaseVars, history
<1>16. ASSUME NEW c \in Switches, DisableDesired(c) PROVE FenceInv'
  BY <1>16 DEF DisableDesired, Goto, dormantVars, leaseVars
<1>17. ASSUME NEW c \in Switches, DisableStatus(c) PROVE FenceInv'
  BY <1>17 DEF DisableStatus, Goto, dormantVars, leaseVars, history
<1>18. ASSUME NEW d \in BOOLEAN, DormantStore(d) PROVE FenceInv'
  BY <1>18 DEF DormantStore, policyVars, leaseVars, history
<1>19. CASE DormantApply
  BY <1>19 DEF DormantApply, policyVars, leaseVars, history
<1>20. ASSUME NEW r \in Requests, ReadClient(r) PROVE FenceInv'
  BY <1>20 DEF ReadClient, Move, policyVars, dormantVars, history
<1>21. ASSUME NEW r \in Requests, ReadDesired(r) PROVE FenceInv'
  BY <1>21 DEF ReadDesired, Move, policyVars, dormantVars, history
<1>22. ASSUME NEW r \in Requests, ReadStatus(r) PROVE FenceInv'
  BY <1>22 DEF ReadStatus, RouteDecision, Move, policyVars, dormantVars, history
<1>23. ASSUME NEW r \in Requests, ProbeAgain(r) PROVE FenceInv'
  BY <1>23 DEF ProbeAgain, Move, policyVars, dormantVars, history
<1>24. ASSUME NEW r \in Requests, StopWaiting(r) PROVE FenceInv'
  BY <1>24 DEF StopWaiting, Move, policyVars, dormantVars, history
<1>25. ASSUME NEW r \in Requests, EndRequest(r) PROVE FenceInv'
  BY <1>25 DEF EndRequest, Move, policyVars, dormantVars, history
<1>26. ASSUME NEW r \in Requests, LeaseNew(r) PROVE FenceInv'
  BY <1>26 DEF LeaseNew, Move, policyVars, dormantVars, history
<1>27. ASSUME NEW r \in Requests, LeaseEpoch(r) PROVE FenceInv'
  BY <1>27 DEF LeaseEpoch, Move, policyVars, dormantVars, history
<1>28. ASSUME NEW r \in Requests, Poll(r) PROVE FenceInv'
  BY <1>28 DEF Poll, Move, policyVars, dormantVars, history
<1>29. ASSUME NEW r \in Requests, PollInner(r) PROVE FenceInv'
  BY <1>29 DEF PollInner, Move, policyVars, dormantVars, history
<1>30. ASSUME NEW r \in Requests, IoReady(r) PROVE FenceInv'
  BY <1>30 DEF IoReady, policyVars, dormantVars, history
<1>31. ASSUME NEW r \in Requests, LeaseDrop(r) PROVE FenceInv'
  BY <1>31 DEF LeaseDrop, Move, policyVars, dormantVars
<1>32. CASE UNCHANGED vars
  BY <1>32 DEF vars, policyVars, dormantVars, leaseVars, history
<1> QED
  BY <1>1, <1>2, <1>3, <1>4, <1>5, <1>6, <1>7, <1>8, <1>9, <1>10, <1>11,
     <1>12, <1>13, <1>14, <1>15, <1>16, <1>17, <1>18, <1>19, <1>20, <1>21,
     <1>22, <1>23, <1>24, <1>25, <1>26, <1>27, <1>28, <1>29, <1>30, <1>31,
     <1>32
  DEF Next, SwitchStep, RequestStep

\* Every step keeps clients off a direct route.
LEMMA ReadyStep ==
    ASSUME TypeOK, LockInv, ReadyIsTor, [Next]_vars
    PROVE  ReadyIsTor'
<1> USE RouteAssumption DEF TypeOK, LockInv, ReadyIsTor
<1>1. ASSUME NEW c \in Switches, BeginDesired(c) PROVE ReadyIsTor'
  BY <1>1 DEF BeginDesired, Goto, dormantVars, leaseVars
<1>2. ASSUME NEW c \in Switches, BeginStatus(c) PROVE ReadyIsTor'
  BY <1>2 DEF BeginStatus, Goto, dormantVars, leaseVars, history
<1>3. ASSUME NEW c \in Switches, BeginEpoch(c) PROVE ReadyIsTor'
  BY <1>3 DEF BeginEpoch, Open, Goto, policyVars, dormantVars
<1>4. ASSUME NEW c \in Switches, BeginClear(c) PROVE ReadyIsTor'
  BY <1>4 DEF BeginClear, Goto, dormantVars, leaseVars, history
<1>5. ASSUME NEW c \in Switches, Drain(c) PROVE ReadyIsTor'
  BY <1>5 DEF Drain, Active, Goto, policyVars, dormantVars, leaseVars, history
<1>6. ASSUME NEW c \in Switches, EnableDesired(c) PROVE ReadyIsTor'
  BY <1>6 DEF EnableDesired, Goto, dormantVars, leaseVars, history
<1>7. ASSUME NEW c \in Switches, EnableLock(c) PROVE ReadyIsTor'
  BY <1>7 DEF EnableLock, Goto, policyVars, dormantVars, leaseVars, history
<1>8. ASSUME NEW c \in Switches, EnableCheck(c) PROVE ReadyIsTor'
  BY <1>8 DEF EnableCheck, Goto, policyVars, dormantVars, leaseVars, history
<1>9. ASSUME NEW c \in Switches, EnableReady(c) PROVE ReadyIsTor'
  BY <1>9 DEF EnableReady, Goto, policyVars, dormantVars, leaseVars, history
<1>10. ASSUME NEW c \in Switches, EnableSlot(c) PROVE ReadyIsTor'
  BY <1>10 DEF EnableSlot, Goto, policyVars, dormantVars, leaseVars, history
<1>11. ASSUME NEW c \in Switches, EnableStart(c) PROVE ReadyIsTor'
  BY <1>11 DEF EnableStart, Goto, dormantVars, leaseVars, history
<1>12. ASSUME NEW c \in Switches, Bootstrap(c) PROVE ReadyIsTor'
  BY <1>12 DEF Bootstrap, Goto, policyVars, dormantVars, leaseVars, history
<1>13. ASSUME NEW c \in Switches, Publish(c) PROVE ReadyIsTor'
  BY <1>13 DEF Publish, Goto, leaseVars, history
<1>14. ASSUME NEW c \in Switches, BootstrapFails(c) PROVE ReadyIsTor'
  BY <1>14 DEF BootstrapFails, SetTorFailed, Goto, dormantVars, leaseVars, history
<1>15. ASSUME NEW c \in Switches, FailTorEnable(c) PROVE ReadyIsTor'
  BY <1>15 DEF FailTorEnable, SetTorFailed, Goto, dormantVars, leaseVars, history
<1>16. ASSUME NEW c \in Switches, DisableDesired(c) PROVE ReadyIsTor'
  BY <1>16 DEF DisableDesired, Goto, dormantVars, leaseVars
<1>17. ASSUME NEW c \in Switches, DisableStatus(c) PROVE ReadyIsTor'
  BY <1>17 DEF DisableStatus, Goto, dormantVars, leaseVars, history
<1>18. ASSUME NEW d \in BOOLEAN, DormantStore(d) PROVE ReadyIsTor'
  BY <1>18 DEF DormantStore, policyVars, leaseVars, history
<1>19. CASE DormantApply
  BY <1>19 DEF DormantApply, policyVars, leaseVars, history
<1>20. ASSUME NEW r \in Requests, ReadClient(r) \/ StopWaiting(r) \/ IoReady(r) \/ RequestStep(r)
       PROVE  ReadyIsTor'
  BY <1>20, RequestsKeepPolicy DEF policyVars, dormantVars
<1>21. CASE UNCHANGED vars
  BY <1>21 DEF vars, policyVars, dormantVars, leaseVars, history
<1> QED
  BY <1>1, <1>2, <1>3, <1>4, <1>5, <1>6, <1>7, <1>8, <1>9, <1>10, <1>11,
     <1>12, <1>13, <1>14, <1>15, <1>16, <1>17, <1>18, <1>19, <1>20, <1>21
  DEF Next, SwitchStep

\* Every step keeps one switch inside bootstrap_tor.
LEMMA InitStep ==
    ASSUME TypeOK, InitHeld, [Next]_vars
    PROVE  InitHeld'
<1> USE RouteAssumption DEF TypeOK, InitHeld
<1>1. ASSUME NEW c \in Switches, BeginDesired(c) PROVE InitHeld'
  BY <1>1 DEF BeginDesired, Goto, dormantVars, leaseVars
<1>2. ASSUME NEW c \in Switches, BeginStatus(c) PROVE InitHeld'
  BY <1>2 DEF BeginStatus, Goto, dormantVars, leaseVars, history
<1>3. ASSUME NEW c \in Switches, BeginEpoch(c) PROVE InitHeld'
  BY <1>3 DEF BeginEpoch, Open, Goto, policyVars, dormantVars
<1>4. ASSUME NEW c \in Switches, BeginClear(c) PROVE InitHeld'
  BY <1>4 DEF BeginClear, Goto, dormantVars, leaseVars, history
<1>5. ASSUME NEW c \in Switches, Drain(c) PROVE InitHeld'
  BY <1>5 DEF Drain, Active, Goto, policyVars, dormantVars, leaseVars, history
<1>6. ASSUME NEW c \in Switches, EnableDesired(c) PROVE InitHeld'
  BY <1>6 DEF EnableDesired, Goto, dormantVars, leaseVars, history
<1>7. ASSUME NEW c \in Switches, EnableLock(c) PROVE InitHeld'
  BY <1>7 DEF EnableLock, Goto, policyVars, dormantVars, leaseVars, history
<1>8. ASSUME NEW c \in Switches, EnableCheck(c) PROVE InitHeld'
  BY <1>8 DEF EnableCheck, Goto, policyVars, dormantVars, leaseVars, history
<1>9. ASSUME NEW c \in Switches, EnableReady(c) PROVE InitHeld'
  BY <1>9 DEF EnableReady, Goto, policyVars, dormantVars, leaseVars, history
<1>10. ASSUME NEW c \in Switches, EnableSlot(c) PROVE InitHeld'
  BY <1>10 DEF EnableSlot, Goto, policyVars, dormantVars, leaseVars, history
<1>11. ASSUME NEW c \in Switches, EnableStart(c) PROVE InitHeld'
  BY <1>11 DEF EnableStart, Goto, dormantVars, leaseVars, history
<1>12. ASSUME NEW c \in Switches, Bootstrap(c) PROVE InitHeld'
  BY <1>12 DEF Bootstrap, Goto, policyVars, dormantVars, leaseVars, history
<1>13. ASSUME NEW c \in Switches, Publish(c) PROVE InitHeld'
  BY <1>13 DEF Publish, Goto, leaseVars, history
<1>14. ASSUME NEW c \in Switches, BootstrapFails(c) PROVE InitHeld'
  BY <1>14 DEF BootstrapFails, SetTorFailed, Goto, dormantVars, leaseVars, history
<1>15. ASSUME NEW c \in Switches, FailTorEnable(c) PROVE InitHeld'
  BY <1>15 DEF FailTorEnable, SetTorFailed, Goto, dormantVars, leaseVars, history
<1>16. ASSUME NEW c \in Switches, DisableDesired(c) PROVE InitHeld'
  BY <1>16 DEF DisableDesired, Goto, dormantVars, leaseVars
<1>17. ASSUME NEW c \in Switches, DisableStatus(c) PROVE InitHeld'
  BY <1>17 DEF DisableStatus, Goto, dormantVars, leaseVars, history
<1>18. ASSUME NEW d \in BOOLEAN, DormantStore(d) PROVE InitHeld'
  BY <1>18 DEF DormantStore, policyVars, leaseVars, history
<1>19. CASE DormantApply
  BY <1>19 DEF DormantApply, policyVars, leaseVars, history
<1>20. ASSUME NEW r \in Requests, ReadClient(r) \/ StopWaiting(r) \/ IoReady(r) \/ RequestStep(r)
       PROVE  InitHeld'
  BY <1>20, RequestsKeepPolicy DEF policyVars, dormantVars
<1>21. CASE UNCHANGED vars
  BY <1>21 DEF vars, policyVars, dormantVars, leaseVars, history
<1> QED
  BY <1>1, <1>2, <1>3, <1>4, <1>5, <1>6, <1>7, <1>8, <1>9, <1>10, <1>11,
     <1>12, <1>13, <1>14, <1>15, <1>16, <1>17, <1>18, <1>19, <1>20, <1>21
  DEF Next, SwitchStep

\* Every step keeps a stale client with the switch that removes it.
LEMMA StaleStep ==
    ASSUME TypeOK, InitHeld, StaleClient, [Next]_vars
    PROVE  StaleClient'
<1> USE RouteAssumption DEF TypeOK, InitHeld, StaleClient, Clearing
<1>1. ASSUME NEW c \in Switches, BeginDesired(c) PROVE StaleClient'
  BY <1>1 DEF BeginDesired, Goto, dormantVars, leaseVars
<1>2. ASSUME NEW c \in Switches, BeginStatus(c) PROVE StaleClient'
  BY <1>2 DEF BeginStatus, Goto, dormantVars, leaseVars, history
<1>3. ASSUME NEW c \in Switches, BeginEpoch(c) PROVE StaleClient'
  BY <1>3 DEF BeginEpoch, Open, Goto, policyVars, dormantVars
<1>4. ASSUME NEW c \in Switches, BeginClear(c) PROVE StaleClient'
  BY <1>4 DEF BeginClear, Goto, dormantVars, leaseVars, history
<1>5. ASSUME NEW c \in Switches, Drain(c) PROVE StaleClient'
  BY <1>5 DEF Drain, Active, Goto, policyVars, dormantVars, leaseVars, history
<1>6. ASSUME NEW c \in Switches, EnableDesired(c) PROVE StaleClient'
  BY <1>6 DEF EnableDesired, Goto, dormantVars, leaseVars, history
<1>7. ASSUME NEW c \in Switches, EnableLock(c) PROVE StaleClient'
  BY <1>7 DEF EnableLock, Goto, policyVars, dormantVars, leaseVars, history
<1>8. ASSUME NEW c \in Switches, EnableCheck(c) PROVE StaleClient'
  BY <1>8 DEF EnableCheck, Goto, policyVars, dormantVars, leaseVars, history
<1>9. ASSUME NEW c \in Switches, EnableReady(c) PROVE StaleClient'
  BY <1>9 DEF EnableReady, Goto, policyVars, dormantVars, leaseVars, history
<1>10. ASSUME NEW c \in Switches, EnableSlot(c) PROVE StaleClient'
  BY <1>10 DEF EnableSlot, Goto, policyVars, dormantVars, leaseVars, history
<1>11. ASSUME NEW c \in Switches, EnableStart(c) PROVE StaleClient'
  BY <1>11 DEF EnableStart, Goto, dormantVars, leaseVars, history
<1>12. ASSUME NEW c \in Switches, Bootstrap(c) PROVE StaleClient'
  BY <1>12 DEF Bootstrap, Goto, policyVars, dormantVars, leaseVars, history
<1>13. ASSUME NEW c \in Switches, Publish(c) PROVE StaleClient'
  BY <1>13 DEF Publish, Goto, leaseVars, history
<1>14. ASSUME NEW c \in Switches, BootstrapFails(c) PROVE StaleClient'
  BY <1>14 DEF BootstrapFails, SetTorFailed, Goto, dormantVars, leaseVars, history
<1>15. ASSUME NEW c \in Switches, FailTorEnable(c) PROVE StaleClient'
  BY <1>15 DEF FailTorEnable, SetTorFailed, Goto, dormantVars, leaseVars, history
<1>16. ASSUME NEW c \in Switches, DisableDesired(c) PROVE StaleClient'
  BY <1>16 DEF DisableDesired, Goto, dormantVars, leaseVars
<1>17. ASSUME NEW c \in Switches, DisableStatus(c) PROVE StaleClient'
  BY <1>17 DEF DisableStatus, Goto, dormantVars, leaseVars, history
<1>18. ASSUME NEW d \in BOOLEAN, DormantStore(d) PROVE StaleClient'
  BY <1>18 DEF DormantStore, policyVars, leaseVars, history
<1>19. CASE DormantApply
  BY <1>19 DEF DormantApply, policyVars, leaseVars, history
<1>20. ASSUME NEW r \in Requests, ReadClient(r) \/ StopWaiting(r) \/ IoReady(r) \/ RequestStep(r)
       PROVE  StaleClient'
  BY <1>20, RequestsKeepPolicy DEF policyVars, dormantVars
<1>21. CASE UNCHANGED vars
  BY <1>21 DEF vars, policyVars, dormantVars, leaseVars, history
<1> QED
  BY <1>1, <1>2, <1>3, <1>4, <1>5, <1>6, <1>7, <1>8, <1>9, <1>10, <1>11,
     <1>12, <1>13, <1>14, <1>15, <1>16, <1>17, <1>18, <1>19, <1>20, <1>21
  DEF Next, SwitchStep

\* Every step keeps a switch at work on an indefinite Tor route.
LEMMA OwedStep ==
    ASSUME TypeOK, LockInv, StaleClient, OwedInv, [Next]_vars
    PROVE  OwedInv'
<1> USE RouteAssumption DEF TypeOK, LockInv, StaleClient, Clearing, OwedInv, Working, Definite
<1>1. ASSUME NEW c \in Switches, BeginDesired(c) PROVE OwedInv'
  BY <1>1 DEF BeginDesired, Goto, dormantVars, leaseVars
<1>2. ASSUME NEW c \in Switches, BeginStatus(c) PROVE OwedInv'
  BY <1>2 DEF BeginStatus, Goto, dormantVars, leaseVars, history
<1>3. ASSUME NEW c \in Switches, BeginEpoch(c) PROVE OwedInv'
  BY <1>3 DEF BeginEpoch, Open, Goto, policyVars, dormantVars
<1>4. ASSUME NEW c \in Switches, BeginClear(c) PROVE OwedInv'
  BY <1>4 DEF BeginClear, Goto, dormantVars, leaseVars, history
<1>5. ASSUME NEW c \in Switches, Drain(c) PROVE OwedInv'
  BY <1>5 DEF Drain, Active, Goto, policyVars, dormantVars, leaseVars, history
<1>6. ASSUME NEW c \in Switches, EnableDesired(c) PROVE OwedInv'
  BY <1>6 DEF EnableDesired, Goto, dormantVars, leaseVars, history
<1>7. ASSUME NEW c \in Switches, EnableLock(c) PROVE OwedInv'
  BY <1>7 DEF EnableLock, Goto, policyVars, dormantVars, leaseVars, history
<1>8. ASSUME NEW c \in Switches, EnableCheck(c) PROVE OwedInv'
  BY <1>8 DEF EnableCheck, Goto, policyVars, dormantVars, leaseVars, history
<1>9. ASSUME NEW c \in Switches, EnableReady(c) PROVE OwedInv'
  BY <1>9 DEF EnableReady, Goto, policyVars, dormantVars, leaseVars, history
<1>10. ASSUME NEW c \in Switches, EnableSlot(c) PROVE OwedInv'
  BY <1>10 DEF EnableSlot, Goto, policyVars, dormantVars, leaseVars, history
<1>11. ASSUME NEW c \in Switches, EnableStart(c) PROVE OwedInv'
  BY <1>11 DEF EnableStart, Goto, dormantVars, leaseVars, history
<1>12. ASSUME NEW c \in Switches, Bootstrap(c) PROVE OwedInv'
  BY <1>12 DEF Bootstrap, Goto, policyVars, dormantVars, leaseVars, history
<1>13. ASSUME NEW c \in Switches, Publish(c) PROVE OwedInv'
  BY <1>13 DEF Publish, Goto, leaseVars, history
<1>14. ASSUME NEW c \in Switches, BootstrapFails(c) PROVE OwedInv'
  BY <1>14 DEF BootstrapFails, SetTorFailed, Goto, dormantVars, leaseVars, history
<1>15. ASSUME NEW c \in Switches, FailTorEnable(c) PROVE OwedInv'
  BY <1>15 DEF FailTorEnable, SetTorFailed, Goto, dormantVars, leaseVars, history
<1>16. ASSUME NEW c \in Switches, DisableDesired(c) PROVE OwedInv'
  BY <1>16 DEF DisableDesired, Goto, dormantVars, leaseVars
<1>17. ASSUME NEW c \in Switches, DisableStatus(c) PROVE OwedInv'
  BY <1>17 DEF DisableStatus, Goto, dormantVars, leaseVars, history
<1>18. ASSUME NEW d \in BOOLEAN, DormantStore(d) PROVE OwedInv'
  BY <1>18 DEF DormantStore, policyVars, leaseVars, history
<1>19. CASE DormantApply
  BY <1>19 DEF DormantApply, policyVars, leaseVars, history
<1>20. ASSUME NEW r \in Requests, ReadClient(r) \/ StopWaiting(r) \/ IoReady(r) \/ RequestStep(r)
       PROVE  OwedInv'
  BY <1>20, RequestsKeepPolicy DEF policyVars, dormantVars
<1>21. CASE UNCHANGED vars
  BY <1>21 DEF vars, policyVars, dormantVars, leaseVars, history
<1> QED
  BY <1>1, <1>2, <1>3, <1>4, <1>5, <1>6, <1>7, <1>8, <1>9, <1>10, <1>11,
     <1>12, <1>13, <1>14, <1>15, <1>16, <1>17, <1>18, <1>19, <1>20, <1>21
  DEF Next, SwitchStep

\* Every step keeps the client in the mode asked for.
LEMMA DormantStep ==
    ASSUME TypeOK, DormancyApplied, [Next]_vars
    PROVE  DormancyApplied'
<1> USE RouteAssumption DEF TypeOK, DormancyApplied
<1>1. ASSUME NEW c \in Switches, BeginDesired(c) PROVE DormancyApplied'
  BY <1>1 DEF BeginDesired, Goto, dormantVars, leaseVars
<1>2. ASSUME NEW c \in Switches, BeginStatus(c) PROVE DormancyApplied'
  BY <1>2 DEF BeginStatus, Goto, dormantVars, leaseVars, history
<1>3. ASSUME NEW c \in Switches, BeginEpoch(c) PROVE DormancyApplied'
  BY <1>3 DEF BeginEpoch, Open, Goto, policyVars, dormantVars
<1>4. ASSUME NEW c \in Switches, BeginClear(c) PROVE DormancyApplied'
  BY <1>4 DEF BeginClear, Goto, dormantVars, leaseVars, history
<1>5. ASSUME NEW c \in Switches, Drain(c) PROVE DormancyApplied'
  BY <1>5 DEF Drain, Active, Goto, policyVars, dormantVars, leaseVars, history
<1>6. ASSUME NEW c \in Switches, EnableDesired(c) PROVE DormancyApplied'
  BY <1>6 DEF EnableDesired, Goto, dormantVars, leaseVars, history
<1>7. ASSUME NEW c \in Switches, EnableLock(c) PROVE DormancyApplied'
  BY <1>7 DEF EnableLock, Goto, policyVars, dormantVars, leaseVars, history
<1>8. ASSUME NEW c \in Switches, EnableCheck(c) PROVE DormancyApplied'
  BY <1>8 DEF EnableCheck, Goto, policyVars, dormantVars, leaseVars, history
<1>9. ASSUME NEW c \in Switches, EnableReady(c) PROVE DormancyApplied'
  BY <1>9 DEF EnableReady, Goto, policyVars, dormantVars, leaseVars, history
<1>10. ASSUME NEW c \in Switches, EnableSlot(c) PROVE DormancyApplied'
  BY <1>10 DEF EnableSlot, Goto, policyVars, dormantVars, leaseVars, history
<1>11. ASSUME NEW c \in Switches, EnableStart(c) PROVE DormancyApplied'
  BY <1>11 DEF EnableStart, Goto, dormantVars, leaseVars, history
<1>12. ASSUME NEW c \in Switches, Bootstrap(c) PROVE DormancyApplied'
  BY <1>12 DEF Bootstrap, Goto, policyVars, dormantVars, leaseVars, history
<1>13. ASSUME NEW c \in Switches, Publish(c) PROVE DormancyApplied'
  BY <1>13 DEF Publish, Goto, leaseVars, history
<1>14. ASSUME NEW c \in Switches, BootstrapFails(c) PROVE DormancyApplied'
  BY <1>14 DEF BootstrapFails, SetTorFailed, Goto, dormantVars, leaseVars, history
<1>15. ASSUME NEW c \in Switches, FailTorEnable(c) PROVE DormancyApplied'
  BY <1>15 DEF FailTorEnable, SetTorFailed, Goto, dormantVars, leaseVars, history
<1>16. ASSUME NEW c \in Switches, DisableDesired(c) PROVE DormancyApplied'
  BY <1>16 DEF DisableDesired, Goto, dormantVars, leaseVars
<1>17. ASSUME NEW c \in Switches, DisableStatus(c) PROVE DormancyApplied'
  BY <1>17 DEF DisableStatus, Goto, dormantVars, leaseVars, history
<1>18. ASSUME NEW d \in BOOLEAN, DormantStore(d) PROVE DormancyApplied'
  BY <1>18 DEF DormantStore, policyVars, leaseVars, history
<1>19. CASE DormantApply
  BY <1>19 DEF DormantApply, policyVars, leaseVars, history
<1>20. ASSUME NEW r \in Requests, ReadClient(r) \/ StopWaiting(r) \/ IoReady(r) \/ RequestStep(r)
       PROVE  DormancyApplied'
  BY <1>20, RequestsKeepPolicy DEF policyVars, dormantVars
<1>21. CASE UNCHANGED vars
  BY <1>21 DEF vars, policyVars, dormantVars, leaseVars, history
<1> QED
  BY <1>1, <1>2, <1>3, <1>4, <1>5, <1>6, <1>7, <1>8, <1>9, <1>10, <1>11,
     <1>12, <1>13, <1>14, <1>15, <1>16, <1>17, <1>18, <1>19, <1>20, <1>21
  DEF Next, SwitchStep

-----------------------------------------------------------------------------
\* Every reachable state satisfies the inductive invariant.
THEOREM RouteInductive == Spec => []IInv
<1>1. Init => IInv
  <2> SUFFICES ASSUME Init PROVE IInv
    OBVIOUS
  <2>1. TypeOK
    BY DEF Init, TypeOK, SwitchPCs, RequestPCs
  <2>2. LockInv
    BY RouteAssumption DEF Init, LockInv
  <2>3. FenceInv
    BY RouteAssumption DEF Init, FenceInv
  <2>4. ReadyIsTor
    BY DEF Init, ReadyIsTor
  <2>5. OwedInv
    BY DEF Init, OwedInv, Working, Definite
  <2>6. DormancyApplied
    BY DEF Init, DormancyApplied
  <2>7. InitHeld
    BY RouteAssumption DEF Init, InitHeld
  <2>8. StaleClient
    BY DEF Init, StaleClient
  <2> QED
    BY <2>1, <2>2, <2>3, <2>4, <2>5, <2>6, <2>7, <2>8 DEF IInv
<1>2. IInv /\ [Next]_vars => IInv'
  BY TypeStep, LockStep, FenceStep, ReadyStep, InitStep, StaleStep,
     OwedStep, DormantStep DEF IInv
<1> QED
  BY <1>1, <1>2, PTL DEF Spec

(* The policy's state always has its declared types.                       *)
THEOREM RouteTypeCorrect == Spec => []TypeOK
<1>1. IInv => TypeOK
  BY DEF IInv
<1> QED
  BY <1>1, RouteInductive, PTL

(* DirectRouteLease::poll and begin_tor_enable: no byte moves on a direct  *)
(* connection under a fence, nor ever on one that a fence has met, however *)
(* many switches overlap.                                                  *)
THEOREM RouteFailsClosed == Spec => []FailClosed
<1>1. IInv => FailClosed
  BY DEF IInv, FenceInv, FailClosed, TypeOK
<1> QED
  BY <1>1, RouteInductive, PTL

(* install_bootstrapped_client and disable_tor share the slot lock: there  *)
(* is never a ready status or a client on a direct route.                  *)
THEOREM ReadyMeansTor == Spec => []ReadyIsTor
<1>1. IInv => ReadyIsTor
  BY DEF IInv
<1> QED
  BY <1>1, RouteInductive, PTL

(* Once the switches are over, a Tor route is ready with a client or has   *)
(* failed: no request waits for a bootstrap nobody started.                *)
THEOREM SettledRoutesAreDefinite == Spec => []SettledIsDefinite
<1>1. IInv => SettledIsDefinite
  BY DEF IInv, LockInv, OwedInv, Working, Definite, Settled, SettledIsDefinite, TypeOK
<1> QED
  BY <1>1, RouteInductive, PTL

(* set_tor_dormant and the adoption of the pending mode at installation    *)
(* never leave a client in a mode other than the one last asked for.       *)
THEOREM DormancyIsApplied == Spec => []DormancyApplied
<1>1. IInv => DormancyApplied
  BY DEF IInv
<1> QED
  BY <1>1, RouteInductive, PTL
=============================================================================
