--------------------------- MODULE SendLocksProofs ---------------------------
(***************************************************************************)
(* Proofs about SendLocks.  Four layers, each inductive on top of the one  *)
(* before it: types; the bookkeeping of calls, rows and the write lock     *)
(* (LocksRecoverable); custody of the inputs of a transaction the network  *)
(* may have (AtLargeStaysLocked); and exclusion of conflicting spends      *)
(* (NoDoubleSpend).                                                        *)
(***************************************************************************)
EXTENDS SendLocks, TLAPS

-----------------------------------------------------------------------------
(* Bookkeeping                                                             *)

\* The write lock belongs to the call that is inside its write section.
WriterHeld == \A p \in Proposals :
    pc[p] \in {"persisted", "locked", "update", "build"} => writer = p

\* A proposal not made yet has left no trace.
NewFresh == \A p \in Proposals : pc[p] = "new" =>
    rowSession[p] = 0 /\ touched[p] = 0 /\ stored[p] = 0 /\ screen[p] = "open"

\* A wallet lock names an input of a proposal that got as far as locking.
OwnersKnown == \A o \in Outputs : owner[o] \in Proposals =>
    pc[owner[o]] \notin {"new", "persisted"} /\ o \in inputs[owner[o]]

\* Rows of an earlier process belong to calls that are over.
RowsCurrent == \A p \in Proposals : pc[p] # "done" => rowSession[p] \in {0, session}

\* A capability, and a call about to get one, has rows of this process.
SessionRows == \A p \in Proposals :
    p \in capabilities \/ pc[p] \in {"persisted", "locked"} => rowSession[p] = session

\* The calls during which a capability may exist, and those that need one.
CapabilityCalls == \A p \in Proposals :
    /\ p \in capabilities => pc[p] \notin {"new", "persisted", "locked", "rowdrop", "broadcast"}
    /\ pc[p] \in {"update", "build", "send"} => p \in capabilities

\* The recovery pass works on rows of an earlier process.
TodoOld == \A p \in todo : rowSession[p] \notin {0, session}

\* What the calls have stored, and what they are about to store.
StoredCalls == \A p \in Proposals :
    /\ pc[p] # "new" => steps[p] > 0
    /\ stored[p] > 0 => pc[p] \in {"finish", "rowdrop", "broadcast", "done"}
    /\ pc[p] \in {"finish", "rowdrop", "broadcast"} => stored[p] > 0
    /\ pc[p] = "store" => plan[p] > 0 /\ touched[p] > 0

\* Where a call can be once its screen has been left.
LeftScreens == \A p \in Proposals :
    /\ p \in cancelling => screen[p] = "left"
    /\ screen[p] = "left" =>
          /\ p \notin proposals
          /\ pc[p] \in {"review", "tip", "create", "update", "build", "signing", "fail", "done"}
          /\ pc[p] \notin {"review", "done"} => kind[p] = "hardware"
    /\ pc[p] \in {"send", "store", "retain"} => screen[p] = "handed"
    /\ p \in proposals => pc[p] = "review"

BookInv ==
    /\ TypeOK /\ WriterHeld /\ NewFresh /\ OwnersKnown /\ RowsCurrent /\ SessionRows
    /\ CapabilityCalls /\ TodoOld /\ StoredCalls /\ LeftScreens /\ LocksRecoverable

-----------------------------------------------------------------------------
(* Custody                                                                 *)

\* Every input of p is locked for p up to the expiry of its transactions.
Locked(p) == \A o \in inputs[p] : owner[o] = p /\ lockExpiry[o] = expiry[p]

\* The recovery rows of p make a restart keep its locks that long.
Marked(p) == p \in retained /\ rowExpiry[p] = expiry[p]

Custody(p) == Target < expiry[p] => Locked(p) /\ Marked(p)

\* A call that builds a transaction holds the locks; its rows follow.
BuildCustody == \A p \in Proposals :
    /\ pc[p] \in {"update", "build"} => Locked(p)
    /\ pc[p] = "build" => rowExpiry[p] = expiry[p]

\* So does a PCZT out for signing, unless it was cancelled, and a signed one.
SignCustody == \A p \in Proposals :
    \/ pc[p] = "signing" /\ p \in capabilities /\ screen[p] = "open"
    \/ pc[p] = "send"
    => Custody(p)

\* ... and a transaction at large, whatever became of its call.
LargeCustody == \A p \in Proposals : touched[p] > 0 /\ stored[p] = 0 =>
    /\ screen[p] = "handed"
    /\ pc[p] \in {"send", "store", "retain", "done"}
    /\ Custody(p)

\* The recovery pass releases no marked lock in force.
TodoSafe == \A p \in todo : p \notin retained \/ Target >= rowExpiry[p]

\* A proposal about to lock its inputs found them free, and they still are.
PersistFree == \A p \in Proposals : pc[p] = "persisted" =>
    \A o \in inputs[p] : ~Held(o) /\ ~Spent(o)

CustodyInv == BuildCustody /\ SignCustody /\ LargeCustody /\ TodoSafe /\ PersistFree

-----------------------------------------------------------------------------
(* Exclusion                                                               *)

\* An output spent by a stored transaction is not locked for another send.
SpentUnlocked == \A p \in Proposals : stored[p] > 0 /\ Target < expiry[p] =>
    \A o \in inputs[p] : owner[o] \in Proposals /\ Held(o) => owner[o] = p

\* Two stored transactions that can still be mined spend different outputs.
StoredDisjoint == \A p, q \in Proposals :
    /\ p # q
    /\ stored[p] > 0 /\ stored[q] > 0
    /\ Target < expiry[p] /\ Target < expiry[q]
    => inputs[p] \cap inputs[q] = {}

ExclusionInv == SpentUnlocked /\ StoredDisjoint

\* A released proposal has no way on to the network.
ReleasedInv == \A p \in released :
    /\ p \notin capabilities /\ p \notin proposals
    /\ pc[p] \in {"review", "tip", "create", "signing", "fail", "done"}

-----------------------------------------------------------------------------
(* Types                                                                   *)

LEMMA TypeInit == Init => TypeOK
  BY SendAssumption DEF Init, TypeOK, PCs

LEMMA TypeCall ==
    ASSUME TypeOK, NEW p \in Proposals, CallStep(p) \/ Discard(p) \/ FinishDiscard(p)
    PROVE  TypeOK'
<1> USE SendAssumption DEF TypeOK, PCs, chainVars, lockVars, rowVars, storeVars,
           proposalVars, sendVars, callVars
<1>1. CASE ProposePersist(p)
  BY <1>1 DEF ProposePersist, Persist, SendProposalLockExpiry, Target
<1>2. CASE ProposeLock(p)
  BY <1>2 DEF ProposeLock, LockOutputs, RemoveRows, SendProposalLockExpiry
<1>3. CASE ProposeInsert(p)
  BY <1>3 DEF ProposeInsert
<1>4. CASE Consume(p, "software")
  BY <1>4 DEF Consume
<1>5. CASE Consume(p, "hardware")
  BY <1>5 DEF Consume
<1>6. CASE LiveTip(p)
  BY <1>6 DEF LiveTip, SeenTips, SendExpiryHeightForLiveTip
<1>7. CASE Relock(p)
  BY <1>7 DEF Relock, MayRelock, LockOutputs
<1>8. CASE UpdateExpiry(p)
  BY <1>8 DEF UpdateExpiry
<1>9. CASE CreateTransactions(p)
  BY <1>9 DEF CreateTransactions, UnlockOutputs
<1>10. CASE CreatePczt(p)
  BY <1>10 DEF CreatePczt, MarkRetain
<1>11. CASE BuildFails(p)
  BY <1>11 DEF BuildFails
<1>12. CASE FinishRelease(p)
  BY <1>12 DEF FinishRelease, Unlock, UnlockOutputs, RemoveRows
<1>13. CASE FinishKeep(p)
  BY <1>13 DEF FinishKeep, AfterFinish
<1>14. CASE DropRows(p)
  BY <1>14 DEF DropRows, AfterFinish, RemoveRows
<1>15. CASE BroadcastCreated(p)
  BY <1>15 DEF BroadcastCreated
<1>16. CASE SubmitPczts(p)
  BY <1>16 DEF SubmitPczts
<1>17. CASE BroadcastPczt(p)
  BY <1>17 DEF BroadcastPczt, PrefixToKeep
<1>18. CASE StorePczts(p)
  BY <1>18 DEF StorePczts, UnlockOutputs
<1>19. CASE Retain(p)
  BY <1>19 DEF Retain, MarkRetain
<1>20. CASE Discard(p)
  BY <1>20 DEF Discard, MayDiscard
<1>21. CASE FinishDiscard(p)
  BY <1>21 DEF FinishDiscard, Unlock, UnlockOutputs, RemoveRows
<1> QED
  BY <1>1, <1>2, <1>3, <1>4, <1>5, <1>6, <1>7, <1>8, <1>9, <1>10, <1>11, <1>12, <1>13, <1>14,
     <1>15, <1>16, <1>17, <1>18, <1>19, <1>20, <1>21 DEF CallStep

LEMMA TypeOther ==
    ASSUME TypeOK,
           \/ RecoverStep
           \/ \E o \in Outputs : MigrationLock(o) \/ MigrationUnlock(o)
           \/ NewBlock \/ SyncTip \/ Restart
    PROVE  TypeOK'
<1> USE SendAssumption DEF TypeOK, PCs, chainVars, lockVars, rowVars, storeVars,
           proposalVars, sendVars, callVars
<1>1. CASE RecoverBegin
  BY <1>1 DEF RecoverBegin, ShouldReleaseAfterRestart
<1>2. CASE \E p \in Proposals, o \in Outputs : RecoverUnlock(p, o)
  BY <1>2 DEF RecoverUnlock, UnlockOutputs
<1>3. CASE RecoverDelete
  BY <1>3 DEF RecoverDelete
<1>4. CASE RecoverFail
  BY <1>4 DEF RecoverFail
<1>5. CASE \E o \in Outputs : MigrationLock(o)
  BY <1>5 DEF MigrationLock, LockOutputs
<1>6. CASE \E o \in Outputs : MigrationUnlock(o)
  BY <1>6 DEF MigrationUnlock, UnlockOutputs
<1>7. CASE NewBlock
  BY <1>7 DEF NewBlock
<1>8. CASE SyncTip
  BY <1>8 DEF SyncTip
<1>9. CASE Restart
  BY <1>9 DEF Restart
<1> QED
  BY <1>1, <1>2, <1>3, <1>4, <1>5, <1>6, <1>7, <1>8, <1>9 DEF RecoverStep

LEMMA TypeStep == TypeOK /\ [Next]_vars => TypeOK'
<1> SUFFICES ASSUME TypeOK, [Next]_vars PROVE TypeOK'
  OBVIOUS
<1>1. CASE Next
  BY <1>1, TypeCall, TypeOther DEF Next
<1>2. CASE UNCHANGED vars
  BY <1>2 DEF TypeOK, vars, chainVars, lockVars, rowVars, storeVars, proposalVars, sendVars,
     callVars
<1> QED
  BY <1>1, <1>2

(* Every variable keeps its type; in particular the heights that the       *)
(* expiry computations produce stay natural numbers.                       *)
THEOREM SendTypeCorrect == Spec => []TypeOK
<1>1. Init => TypeOK
  BY TypeInit
<1>2. TypeOK /\ [Next]_vars => TypeOK'
  BY TypeStep
<1> QED
  BY <1>1, <1>2, PTL DEF Spec

-----------------------------------------------------------------------------
(* Bookkeeping is inductive.                                               *)

LEMMA BookInit == Init => BookInv
  BY TypeInit, SendAssumption DEF Init, BookInv, WriterHeld, NewFresh, OwnersKnown, RowsCurrent,
     SessionRows, CapabilityCalls, TodoOld, StoredCalls, LeftScreens, LocksRecoverable

LEMMA BookCall ==
    ASSUME BookInv, TypeOK',
           NEW p \in Proposals, CallStep(p) \/ Discard(p) \/ FinishDiscard(p)
    PROVE  BookInv'
<1> USE SendAssumption DEF BookInv, WriterHeld, NewFresh, OwnersKnown, RowsCurrent,
           SessionRows, CapabilityCalls, TodoOld, StoredCalls, LeftScreens, LocksRecoverable, TypeOK,
           chainVars, lockVars, rowVars, storeVars, proposalVars, sendVars, callVars
<1>1. CASE ProposePersist(p)
  BY <1>1 DEF ProposePersist, Persist, SendProposalLockExpiry, Target
<1>2. CASE ProposeLock(p)
  <2>1. OwnersKnown' /\ LocksRecoverable'
    BY <1>2 DEF ProposeLock, LockOutputs, RemoveRows, SendProposalLockExpiry
  <2>2. WriterHeld' /\ NewFresh' /\ RowsCurrent' /\ SessionRows' /\ CapabilityCalls'
    BY <1>2 DEF ProposeLock, LockOutputs, RemoveRows, SendProposalLockExpiry
  <2>3. TodoOld' /\ StoredCalls' /\ LeftScreens'
    BY <1>2 DEF ProposeLock, LockOutputs, RemoveRows, SendProposalLockExpiry
  <2> QED
    BY <2>1, <2>2, <2>3
<1>3. CASE ProposeInsert(p)
  BY <1>3 DEF ProposeInsert
<1>4. CASE Consume(p, "software")
  BY <1>4 DEF Consume
<1>5. CASE Consume(p, "hardware")
  BY <1>5 DEF Consume
<1>6. CASE LiveTip(p)
  BY <1>6 DEF LiveTip, SeenTips, SendExpiryHeightForLiveTip
<1>7. CASE Relock(p)
  <2>1. OwnersKnown' /\ LocksRecoverable'
    BY <1>7 DEF Relock, MayRelock, LockOutputs
  <2>2. WriterHeld' /\ NewFresh' /\ RowsCurrent' /\ SessionRows' /\ CapabilityCalls'
    BY <1>7 DEF Relock, MayRelock, LockOutputs
  <2>3. TodoOld' /\ StoredCalls' /\ LeftScreens'
    BY <1>7 DEF Relock, MayRelock, LockOutputs
  <2> QED
    BY <2>1, <2>2, <2>3
<1>8. CASE UpdateExpiry(p)
  BY <1>8 DEF UpdateExpiry
<1>9. CASE CreateTransactions(p)
  BY <1>9 DEF CreateTransactions, UnlockOutputs
<1>10. CASE CreatePczt(p)
  BY <1>10 DEF CreatePczt, MarkRetain
<1>11. CASE BuildFails(p)
  BY <1>11 DEF BuildFails
<1>12. CASE FinishRelease(p)
  <2>1. OwnersKnown' /\ LocksRecoverable'
    BY <1>12 DEF FinishRelease, Unlock, UnlockOutputs, RemoveRows
  <2>2. WriterHeld' /\ NewFresh' /\ RowsCurrent' /\ SessionRows' /\ CapabilityCalls'
    BY <1>12 DEF FinishRelease, Unlock, UnlockOutputs, RemoveRows
  <2>3. TodoOld' /\ StoredCalls' /\ LeftScreens'
    BY <1>12 DEF FinishRelease, Unlock, UnlockOutputs, RemoveRows
  <2> QED
    BY <2>1, <2>2, <2>3
<1>13. CASE FinishKeep(p)
  BY <1>13 DEF FinishKeep, AfterFinish
<1>14. CASE DropRows(p)
  BY <1>14 DEF DropRows, AfterFinish, RemoveRows
<1>15. CASE BroadcastCreated(p)
  BY <1>15 DEF BroadcastCreated
<1>16. CASE SubmitPczts(p)
  BY <1>16 DEF SubmitPczts
<1>17. CASE BroadcastPczt(p)
  BY <1>17 DEF BroadcastPczt, PrefixToKeep
<1>18. CASE StorePczts(p)
  <2>1. OwnersKnown' /\ LocksRecoverable'
    BY <1>18 DEF StorePczts, UnlockOutputs
  <2>2. WriterHeld' /\ NewFresh' /\ RowsCurrent' /\ SessionRows' /\ CapabilityCalls'
    BY <1>18 DEF StorePczts, UnlockOutputs
  <2>3. TodoOld' /\ StoredCalls' /\ LeftScreens'
    BY <1>18 DEF StorePczts, UnlockOutputs
  <2> QED
    BY <2>1, <2>2, <2>3
<1>19. CASE Retain(p)
  BY <1>19 DEF Retain, MarkRetain
<1>20. CASE Discard(p)
  BY <1>20 DEF Discard, MayDiscard
<1>21. CASE FinishDiscard(p)
  <2>1. OwnersKnown' /\ LocksRecoverable'
    BY <1>21 DEF FinishDiscard, Unlock, UnlockOutputs, RemoveRows
  <2>2. WriterHeld' /\ NewFresh' /\ RowsCurrent' /\ SessionRows' /\ CapabilityCalls'
    BY <1>21 DEF FinishDiscard, Unlock, UnlockOutputs, RemoveRows
  <2>3. TodoOld' /\ StoredCalls' /\ LeftScreens'
    BY <1>21 DEF FinishDiscard, Unlock, UnlockOutputs, RemoveRows
  <2> QED
    BY <2>1, <2>2, <2>3
<1> QED
  BY <1>1, <1>2, <1>3, <1>4, <1>5, <1>6, <1>7, <1>8, <1>9, <1>10, <1>11, <1>12, <1>13, <1>14,
     <1>15, <1>16, <1>17, <1>18, <1>19, <1>20, <1>21 DEF CallStep

LEMMA BookOther ==
    ASSUME BookInv, TypeOK',
           \/ RecoverStep
           \/ \E o \in Outputs : MigrationLock(o) \/ MigrationUnlock(o)
           \/ NewBlock \/ SyncTip \/ Restart
    PROVE  BookInv'
<1> USE SendAssumption DEF BookInv, WriterHeld, NewFresh, OwnersKnown, RowsCurrent,
           SessionRows, CapabilityCalls, TodoOld, StoredCalls, LeftScreens, LocksRecoverable, TypeOK,
           chainVars, lockVars, rowVars, storeVars, proposalVars, sendVars, callVars
<1>1. CASE RecoverBegin
  BY <1>1 DEF RecoverBegin, ShouldReleaseAfterRestart
<1>2. CASE \E p \in Proposals, o \in Outputs : RecoverUnlock(p, o)
  BY <1>2 DEF RecoverUnlock, UnlockOutputs
<1>3. CASE RecoverDelete
  BY <1>3 DEF RecoverDelete
<1>4. CASE RecoverFail
  BY <1>4 DEF RecoverFail
<1>5. CASE \E o \in Outputs : MigrationLock(o)
  BY <1>5 DEF MigrationLock, LockOutputs
<1>6. CASE \E o \in Outputs : MigrationUnlock(o)
  BY <1>6 DEF MigrationUnlock, UnlockOutputs
<1>7. CASE NewBlock
  BY <1>7 DEF NewBlock
<1>8. CASE SyncTip
  BY <1>8 DEF SyncTip
<1>9. CASE Restart
  BY <1>9 DEF Restart
<1> QED
  BY <1>1, <1>2, <1>3, <1>4, <1>5, <1>6, <1>7, <1>8, <1>9 DEF RecoverStep
-----------------------------------------------------------------------------
(* Custody is inductive.                                                   *)

LEMMA CustodyInit == Init => CustodyInv
  BY SendAssumption DEF Init, CustodyInv, BuildCustody, SignCustody, LargeCustody, TodoSafe,
     PersistFree

LEMMA CustodyCall ==
    ASSUME BookInv, CustodyInv, TypeOK',
           NEW p \in Proposals, CallStep(p) \/ Discard(p) \/ FinishDiscard(p)
    PROVE  CustodyInv'
<1> USE SendAssumption DEF BookInv, CustodyInv, WriterHeld, NewFresh, OwnersKnown,
           RowsCurrent, SessionRows, CapabilityCalls, TodoOld, StoredCalls, LeftScreens,
           LocksRecoverable, BuildCustody, SignCustody, LargeCustody, TodoSafe, PersistFree, Custody,
           Locked, Marked, Held, Spent, Target, CanLock, TypeOK, chainVars, lockVars, rowVars,
           storeVars, proposalVars, sendVars, callVars
<1>1. CASE ProposePersist(p)
  BY <1>1 DEF ProposePersist, Persist, SendProposalLockExpiry, Target
<1>2. CASE ProposeLock(p)
  <2>1. \A q \in Proposals : q # p /\ Target < expiry[q] /\ Locked(q) => inputs[p] \cap inputs[q] = {}
    BY <1>2 DEF ProposeLock
  <2>2. \A q \in Proposals : q # p /\ pc[q] \in {"update", "build"} => FALSE
    BY <1>2 DEF ProposeLock
  <2>3. UNCHANGED <<walletTip, inputs, expiry, touched, stored, screen, capabilities, todo>>
    BY <1>2 DEF ProposeLock
  <2>4. \A q \in Proposals : q # p =>
          /\ pc'[q] = pc[q] /\ rowExpiry'[q] = rowExpiry[q]
          /\ (q \in retained' <=> q \in retained)
          /\ \A o \in Outputs \ inputs[p] : owner'[o] = owner[o] /\ lockExpiry'[o] = lockExpiry[o]
    BY <1>2 DEF ProposeLock, LockOutputs, RemoveRows
  <2>5. pc'[p] \in {"locked", "done"} /\ p \notin capabilities /\ p \notin todo
    BY <1>2 DEF ProposeLock
  <2>6. touched[p] > 0 => stored[p] > 0
    BY <1>2 DEF ProposeLock
  <2>7. \A q \in Proposals : q # p /\ Custody(q) => Custody(q)'
    BY <2>1, <2>3, <2>4
  <2>8. BuildCustody'
    BY <2>2, <2>4, <2>5
  <2>9. SignCustody'
    BY <2>3, <2>4, <2>5, <2>7
  <2>10. LargeCustody'
    BY <2>3, <2>4, <2>5, <2>6, <2>7
  <2>11. TodoSafe'
    BY <2>3, <2>4, <2>5
  <2>12. PersistFree'
    BY <1>2, <2>4, <2>5 DEF ProposeLock
  <2> QED
    BY <2>8, <2>9, <2>10, <2>11, <2>12
<1>3. CASE ProposeInsert(p)
  BY <1>3 DEF ProposeInsert
<1>4. CASE Consume(p, "software")
  BY <1>4 DEF Consume
<1>5. CASE Consume(p, "hardware")
  BY <1>5 DEF Consume
<1>6. CASE LiveTip(p)
  <2>1. BuildCustody'
    BY <1>6 DEF LiveTip, SeenTips, SendExpiryHeightForLiveTip
  <2>2. SignCustody'
    BY <1>6 DEF LiveTip, SeenTips, SendExpiryHeightForLiveTip
  <2>3. LargeCustody'
    BY <1>6 DEF LiveTip, SeenTips, SendExpiryHeightForLiveTip
  <2>4. TodoSafe'
    BY <1>6 DEF LiveTip, SeenTips, SendExpiryHeightForLiveTip
  <2>5. PersistFree'
    BY <1>6 DEF LiveTip, SeenTips, SendExpiryHeightForLiveTip
  <2> QED
    BY <2>1, <2>2, <2>3, <2>4, <2>5
<1>7. CASE Relock(p)
  <2>1. UNCHANGED <<walletTip, inputs, expiry, touched, stored, screen, capabilities, todo, retained,
                    rowExpiry>>
    BY <1>7 DEF Relock
  <2>2. CASE pc'[p] = "fail"
    <3>1. UNCHANGED <<owner, lockExpiry>> /\ pc' = [pc EXCEPT ![p] = "fail"] /\ pc[p] = "create"
      BY <1>7, <2>2 DEF Relock
    <3>2. \A q \in Proposals : Custody(q) => Custody(q)'
      BY <2>1, <3>1
    <3>3. BuildCustody' /\ SignCustody' /\ LargeCustody'
      BY <2>1, <3>1, <3>2
    <3>4. TodoSafe' /\ PersistFree'
      BY <2>1, <3>1
    <3> QED
      BY <3>3, <3>4
  <2>3. CASE pc'[p] # "fail"
    <3>1. /\ pc[p] = "create" /\ pc' = [pc EXCEPT ![p] = "update"]
          /\ MayRelock(p) /\ LockOutputs(inputs[p], p, expiry[p]) /\ writer = NoOne
      BY <1>7, <2>3 DEF Relock
    <3>2. \A q \in Proposals : q # p /\ Target < expiry[q] /\ Locked(q)
             => inputs[p] \cap inputs[q] = {}
      BY <3>1 DEF MayRelock
    <3>3. /\ \A o \in Outputs \ inputs[p] : owner'[o] = owner[o] /\ lockExpiry'[o] = lockExpiry[o]
          /\ Locked(p)'
      BY <2>1, <3>1 DEF LockOutputs
    <3>4. \A q \in Proposals : q # p /\ Custody(q) => Custody(q)'
      BY <2>1, <3>2, <3>3
    <3>5. \A q \in Proposals : pc[q] \notin {"persisted", "update", "build"}
      BY <3>1
    <3>6. BuildCustody'
      BY <3>1, <3>3, <3>5
    <3>7. SignCustody'
      <4> SUFFICES ASSUME NEW q \in Proposals,
                          \/ pc'[q] = "signing" /\ q \in capabilities' /\ screen'[q] = "open"
                          \/ pc'[q] = "send"
                   PROVE  Custody(q)'
        BY DEF SignCustody
      <4>1. q # p /\ pc'[q] = pc[q]
        BY <3>1
      <4> QED
        BY <2>1, <3>4, <4>1
    <3>8. LargeCustody'
      BY <2>1, <3>1, <3>4
    <3>9. TodoSafe' /\ PersistFree'
      BY <2>1, <3>1, <3>5
    <3> QED
      BY <3>6, <3>7, <3>8, <3>9
  <2> QED
    BY <2>2, <2>3
<1>8. CASE UpdateExpiry(p)
  <2>1. BuildCustody'
    BY <1>8 DEF UpdateExpiry
  <2>2. SignCustody'
    BY <1>8 DEF UpdateExpiry
  <2>3. LargeCustody'
    BY <1>8 DEF UpdateExpiry
  <2>4. TodoSafe'
    BY <1>8 DEF UpdateExpiry
  <2>5. PersistFree'
    BY <1>8 DEF UpdateExpiry
  <2> QED
    BY <2>1, <2>2, <2>3, <2>4, <2>5
<1>9. CASE CreateTransactions(p)
  <2>1. BuildCustody'
    BY <1>9 DEF CreateTransactions, UnlockOutputs
  <2>2. SignCustody'
    BY <1>9 DEF CreateTransactions, UnlockOutputs
  <2>3. LargeCustody'
    BY <1>9 DEF CreateTransactions, UnlockOutputs
  <2>4. TodoSafe'
    BY <1>9 DEF CreateTransactions, UnlockOutputs
  <2>5. PersistFree'
    BY <1>9 DEF CreateTransactions, UnlockOutputs
  <2> QED
    BY <2>1, <2>2, <2>3, <2>4, <2>5
<1>10. CASE CreatePczt(p)
  <2>1. BuildCustody'
    BY <1>10 DEF CreatePczt, MarkRetain
  <2>2. SignCustody'
    BY <1>10 DEF CreatePczt, MarkRetain
  <2>3. LargeCustody'
    BY <1>10 DEF CreatePczt, MarkRetain
  <2>4. TodoSafe'
    BY <1>10 DEF CreatePczt, MarkRetain
  <2>5. PersistFree'
    BY <1>10 DEF CreatePczt, MarkRetain
  <2> QED
    BY <2>1, <2>2, <2>3, <2>4, <2>5
<1>11. CASE BuildFails(p)
  BY <1>11 DEF BuildFails
<1>12. CASE FinishRelease(p)
  <2>1. BuildCustody'
    BY <1>12 DEF FinishRelease, Unlock, UnlockOutputs, RemoveRows
  <2>2. SignCustody'
    BY <1>12 DEF FinishRelease, Unlock, UnlockOutputs, RemoveRows
  <2>3. LargeCustody'
    BY <1>12 DEF FinishRelease, Unlock, UnlockOutputs, RemoveRows
  <2>4. TodoSafe'
    BY <1>12 DEF FinishRelease, Unlock, UnlockOutputs, RemoveRows
  <2>5. PersistFree'
    BY <1>12 DEF FinishRelease, Unlock, UnlockOutputs, RemoveRows
  <2> QED
    BY <2>1, <2>2, <2>3, <2>4, <2>5
<1>13. CASE FinishKeep(p)
  BY <1>13 DEF FinishKeep, AfterFinish
<1>14. CASE DropRows(p)
  BY <1>14 DEF DropRows, AfterFinish, RemoveRows
<1>15. CASE BroadcastCreated(p)
  BY <1>15 DEF BroadcastCreated
<1>16. CASE SubmitPczts(p)
  <2>1. BuildCustody'
    BY <1>16 DEF SubmitPczts
  <2>2. SignCustody'
    BY <1>16 DEF SubmitPczts
  <2>3. LargeCustody'
    BY <1>16 DEF SubmitPczts
  <2>4. TodoSafe'
    BY <1>16 DEF SubmitPczts
  <2>5. PersistFree'
    BY <1>16 DEF SubmitPczts
  <2> QED
    BY <2>1, <2>2, <2>3, <2>4, <2>5
<1>17. CASE BroadcastPczt(p)
  <2>1. BuildCustody'
    BY <1>17 DEF BroadcastPczt, PrefixToKeep
  <2>2. SignCustody'
    BY <1>17 DEF BroadcastPczt, PrefixToKeep
  <2>3. LargeCustody'
    BY <1>17 DEF BroadcastPczt, PrefixToKeep
  <2>4. TodoSafe'
    BY <1>17 DEF BroadcastPczt, PrefixToKeep
  <2>5. PersistFree'
    BY <1>17 DEF BroadcastPczt, PrefixToKeep
  <2> QED
    BY <2>1, <2>2, <2>3, <2>4, <2>5
<1>18. CASE StorePczts(p)
  <2>1. BuildCustody'
    BY <1>18 DEF StorePczts, UnlockOutputs
  <2>2. SignCustody'
    BY <1>18 DEF StorePczts, UnlockOutputs
  <2>3. LargeCustody'
    BY <1>18 DEF StorePczts, UnlockOutputs
  <2>4. TodoSafe'
    BY <1>18 DEF StorePczts, UnlockOutputs
  <2>5. PersistFree'
    BY <1>18 DEF StorePczts, UnlockOutputs
  <2> QED
    BY <2>1, <2>2, <2>3, <2>4, <2>5
<1>19. CASE Retain(p)
  BY <1>19 DEF Retain, MarkRetain
<1>20. CASE Discard(p)
  BY <1>20 DEF Discard, MayDiscard
<1>21. CASE FinishDiscard(p)
  <2>1. BuildCustody'
    BY <1>21 DEF FinishDiscard, Unlock, UnlockOutputs, RemoveRows
  <2>2. SignCustody'
    BY <1>21 DEF FinishDiscard, Unlock, UnlockOutputs, RemoveRows
  <2>3. LargeCustody'
    BY <1>21 DEF FinishDiscard, Unlock, UnlockOutputs, RemoveRows
  <2>4. TodoSafe'
    BY <1>21 DEF FinishDiscard, Unlock, UnlockOutputs, RemoveRows
  <2>5. PersistFree'
    BY <1>21 DEF FinishDiscard, Unlock, UnlockOutputs, RemoveRows
  <2> QED
    BY <2>1, <2>2, <2>3, <2>4, <2>5
<1> QED
  BY <1>1, <1>2, <1>3, <1>4, <1>5, <1>6, <1>7, <1>8, <1>9, <1>10, <1>11, <1>12, <1>13, <1>14,
     <1>15, <1>16, <1>17, <1>18, <1>19, <1>20, <1>21 DEF CallStep

LEMMA CustodyOther ==
    ASSUME BookInv, CustodyInv, TypeOK',
           \/ RecoverStep
           \/ \E o \in Outputs : MigrationLock(o) \/ MigrationUnlock(o)
           \/ NewBlock \/ SyncTip \/ Restart
    PROVE  CustodyInv'
<1> USE SendAssumption DEF BookInv, CustodyInv, WriterHeld, NewFresh, OwnersKnown,
           RowsCurrent, SessionRows, CapabilityCalls, TodoOld, StoredCalls, LeftScreens,
           LocksRecoverable, BuildCustody, SignCustody, LargeCustody, TodoSafe, PersistFree, Custody,
           Locked, Marked, Held, Spent, Target, CanLock, TypeOK, chainVars, lockVars, rowVars,
           storeVars, proposalVars, sendVars, callVars
<1>1. CASE RecoverBegin
  BY <1>1 DEF RecoverBegin, ShouldReleaseAfterRestart
<1>2. CASE \E p \in Proposals, o \in Outputs : RecoverUnlock(p, o)
  BY <1>2 DEF RecoverUnlock, UnlockOutputs
<1>3. CASE RecoverDelete
  BY <1>3 DEF RecoverDelete
<1>4. CASE RecoverFail
  BY <1>4 DEF RecoverFail
<1>5. CASE \E o \in Outputs : MigrationLock(o)
  BY <1>5 DEF MigrationLock, LockOutputs
<1>6. CASE \E o \in Outputs : MigrationUnlock(o)
  BY <1>6 DEF MigrationUnlock, UnlockOutputs
<1>7. CASE NewBlock
  BY <1>7 DEF NewBlock
<1>8. CASE SyncTip
  BY <1>8 DEF SyncTip
<1>9. CASE Restart
  BY <1>9 DEF Restart
<1> QED
  BY <1>1, <1>2, <1>3, <1>4, <1>5, <1>6, <1>7, <1>8, <1>9 DEF RecoverStep
-----------------------------------------------------------------------------
(* Exclusion is inductive.                                                 *)

LEMMA ExclusionInit == Init => ExclusionInv
  BY SendAssumption DEF Init, ExclusionInv, SpentUnlocked, StoredDisjoint

LEMMA ExclusionCall ==
    ASSUME BookInv, CustodyInv, ExclusionInv, TypeOK',
           NEW p \in Proposals, CallStep(p) \/ Discard(p) \/ FinishDiscard(p)
    PROVE  ExclusionInv'
<1> USE SendAssumption DEF BookInv, CustodyInv, ExclusionInv, WriterHeld, NewFresh,
           OwnersKnown, RowsCurrent, SessionRows, CapabilityCalls, TodoOld, StoredCalls, LeftScreens,
           LocksRecoverable, BuildCustody, SignCustody, LargeCustody, TodoSafe, PersistFree,
           SpentUnlocked, StoredDisjoint, Custody, Locked, Marked, Held, Spent, Target, CanLock,
           TypeOK, chainVars, lockVars, rowVars, storeVars, proposalVars, sendVars, callVars
<1>1. CASE ProposePersist(p)
  BY <1>1 DEF ProposePersist, Persist, SendProposalLockExpiry, Target
<1>2. CASE ProposeLock(p)
  <2>1. SpentUnlocked'
    BY <1>2 DEF ProposeLock, LockOutputs, RemoveRows, SendProposalLockExpiry
  <2>2. StoredDisjoint'
    BY <1>2 DEF ProposeLock, LockOutputs, RemoveRows, SendProposalLockExpiry
  <2> QED
    BY <2>1, <2>2
<1>3. CASE ProposeInsert(p)
  BY <1>3 DEF ProposeInsert
<1>4. CASE Consume(p, "software")
  BY <1>4 DEF Consume
<1>5. CASE Consume(p, "hardware")
  BY <1>5 DEF Consume
<1>6. CASE LiveTip(p)
  <2>1. stored[p] = 0
    BY <1>6 DEF LiveTip
  <2>2. \A q \in Proposals : q # p => expiry'[q] = expiry[q]
    BY <1>6 DEF LiveTip
  <2>3. UNCHANGED <<inputs, stored, owner, lockExpiry, walletTip>>
    BY <1>6 DEF LiveTip
  <2>4. \A q \in Proposals : stored'[q] > 0 /\ Target' < expiry'[q] =>
          stored[q] > 0 /\ Target < expiry[q]
    BY <2>1, <2>2, <2>3
  <2>5. SpentUnlocked'
    BY <2>3, <2>4
  <2>6. StoredDisjoint'
    BY <2>3, <2>4
  <2> QED
    BY <2>5, <2>6
<1>7. CASE Relock(p)
  <2>1. SpentUnlocked'
    BY <1>7 DEF Relock, MayRelock, LockOutputs
  <2>2. StoredDisjoint'
    BY <1>7 DEF Relock, MayRelock, LockOutputs
  <2> QED
    BY <2>1, <2>2
<1>8. CASE UpdateExpiry(p)
  BY <1>8 DEF UpdateExpiry
<1>9. CASE CreateTransactions(p)
  BY <1>9 DEF CreateTransactions, UnlockOutputs
<1>10. CASE CreatePczt(p)
  BY <1>10 DEF CreatePczt, MarkRetain
<1>11. CASE BuildFails(p)
  BY <1>11 DEF BuildFails
<1>12. CASE FinishRelease(p)
  <2>1. SpentUnlocked'
    BY <1>12 DEF FinishRelease, Unlock, UnlockOutputs, RemoveRows
  <2>2. StoredDisjoint'
    BY <1>12 DEF FinishRelease, Unlock, UnlockOutputs, RemoveRows
  <2> QED
    BY <2>1, <2>2
<1>13. CASE FinishKeep(p)
  BY <1>13 DEF FinishKeep, AfterFinish
<1>14. CASE DropRows(p)
  BY <1>14 DEF DropRows, AfterFinish, RemoveRows
<1>15. CASE BroadcastCreated(p)
  BY <1>15 DEF BroadcastCreated
<1>16. CASE SubmitPczts(p)
  BY <1>16 DEF SubmitPczts
<1>17. CASE BroadcastPczt(p)
  BY <1>17 DEF BroadcastPczt, PrefixToKeep
<1>18. CASE StorePczts(p)
  <2>1. \A q \in Proposals : q # p => stored'[q] = stored[q]
    BY <1>18 DEF StorePczts
  <2>2. UNCHANGED <<inputs, expiry, walletTip, lockExpiry>>
    BY <1>18 DEF StorePczts, UnlockOutputs
  <2>3. \A o \in Outputs : owner'[o] \in Proposals => owner'[o] = owner[o]
    BY <1>18 DEF StorePczts, UnlockOutputs
  <2>4. Target < expiry[p] => Locked(p)
    BY <1>18 DEF StorePczts
  <2>5. SpentUnlocked'
    <3> SUFFICES ASSUME NEW q \in Proposals, stored'[q] > 0, Target < expiry[q], NEW o \in inputs[q],
                        owner'[o] \in Proposals, Held(o)'
                 PROVE  owner'[o] = q
      BY <2>2
    <3>1. owner'[o] = owner[o] /\ Held(o)
      BY <2>2, <2>3
    <3>2. CASE q = p
      BY <2>4, <3>1, <3>2
    <3>3. CASE q # p
      BY <2>1, <3>1, <3>3
    <3> QED
      BY <3>2, <3>3
  <2>6. ASSUME NEW q \in Proposals, q # p, stored[q] > 0, Target < expiry[q], Target < expiry[p]
        PROVE  inputs[p] \cap inputs[q] = {}
    <3> SUFFICES ASSUME NEW o \in inputs[p] \cap inputs[q] PROVE FALSE
      OBVIOUS
    <3>1. owner[o] = p /\ Held(o)
      BY <2>4, <2>6
    <3> QED
      BY <2>6, <3>1
  <2>7. StoredDisjoint'
    BY <2>1, <2>2, <2>6
  <2> QED
    BY <2>5, <2>7
<1>19. CASE Retain(p)
  BY <1>19 DEF Retain, MarkRetain
<1>20. CASE Discard(p)
  BY <1>20 DEF Discard, MayDiscard
<1>21. CASE FinishDiscard(p)
  <2>1. SpentUnlocked'
    BY <1>21 DEF FinishDiscard, Unlock, UnlockOutputs, RemoveRows
  <2>2. StoredDisjoint'
    BY <1>21 DEF FinishDiscard, Unlock, UnlockOutputs, RemoveRows
  <2> QED
    BY <2>1, <2>2
<1> QED
  BY <1>1, <1>2, <1>3, <1>4, <1>5, <1>6, <1>7, <1>8, <1>9, <1>10, <1>11, <1>12, <1>13, <1>14,
     <1>15, <1>16, <1>17, <1>18, <1>19, <1>20, <1>21 DEF CallStep

LEMMA ExclusionOther ==
    ASSUME BookInv, CustodyInv, ExclusionInv, TypeOK',
           \/ RecoverStep
           \/ \E o \in Outputs : MigrationLock(o) \/ MigrationUnlock(o)
           \/ NewBlock \/ SyncTip \/ Restart
    PROVE  ExclusionInv'
<1> USE SendAssumption DEF BookInv, CustodyInv, ExclusionInv, WriterHeld, NewFresh,
           OwnersKnown, RowsCurrent, SessionRows, CapabilityCalls, TodoOld, StoredCalls, LeftScreens,
           LocksRecoverable, BuildCustody, SignCustody, LargeCustody, TodoSafe, PersistFree,
           SpentUnlocked, StoredDisjoint, Custody, Locked, Marked, Held, Spent, Target, CanLock,
           TypeOK, chainVars, lockVars, rowVars, storeVars, proposalVars, sendVars, callVars
<1>1. CASE RecoverBegin
  BY <1>1 DEF RecoverBegin, ShouldReleaseAfterRestart
<1>2. CASE \E p \in Proposals, o \in Outputs : RecoverUnlock(p, o)
  BY <1>2 DEF RecoverUnlock, UnlockOutputs
<1>3. CASE RecoverDelete
  BY <1>3 DEF RecoverDelete
<1>4. CASE RecoverFail
  BY <1>4 DEF RecoverFail
<1>5. CASE \E o \in Outputs : MigrationLock(o)
  BY <1>5 DEF MigrationLock, LockOutputs
<1>6. CASE \E o \in Outputs : MigrationUnlock(o)
  BY <1>6 DEF MigrationUnlock, UnlockOutputs
<1>7. CASE NewBlock
  BY <1>7 DEF NewBlock
<1>8. CASE SyncTip
  BY <1>8 DEF SyncTip
<1>9. CASE Restart
  BY <1>9 DEF Restart
<1> QED
  BY <1>1, <1>2, <1>3, <1>4, <1>5, <1>6, <1>7, <1>8, <1>9 DEF RecoverStep
-----------------------------------------------------------------------------
(* A released proposal stays released.                                     *)

LEMMA ReleasedInit == Init => ReleasedInv
  BY DEF Init, ReleasedInv

LEMMA ReleasedCall ==
    ASSUME BookInv, ReleasedInv, TypeOK',
           NEW p \in Proposals, CallStep(p) \/ Discard(p) \/ FinishDiscard(p)
    PROVE  ReleasedInv'
<1> USE SendAssumption DEF BookInv, ReleasedInv, WriterHeld, NewFresh, OwnersKnown,
           RowsCurrent, SessionRows, CapabilityCalls, TodoOld, StoredCalls, LeftScreens,
           LocksRecoverable, TypeOK, chainVars, lockVars, rowVars, storeVars, proposalVars, sendVars,
           callVars
<1>1. CASE ProposePersist(p)
  BY <1>1 DEF ProposePersist, Persist, SendProposalLockExpiry, Target
<1>2. CASE ProposeLock(p)
  BY <1>2 DEF ProposeLock, LockOutputs, RemoveRows, SendProposalLockExpiry
<1>3. CASE ProposeInsert(p)
  BY <1>3 DEF ProposeInsert
<1>4. CASE Consume(p, "software")
  BY <1>4 DEF Consume
<1>5. CASE Consume(p, "hardware")
  BY <1>5 DEF Consume
<1>6. CASE LiveTip(p)
  BY <1>6 DEF LiveTip, SeenTips, SendExpiryHeightForLiveTip
<1>7. CASE Relock(p)
  BY <1>7 DEF Relock, MayRelock, LockOutputs
<1>8. CASE UpdateExpiry(p)
  BY <1>8 DEF UpdateExpiry
<1>9. CASE CreateTransactions(p)
  BY <1>9 DEF CreateTransactions, UnlockOutputs
<1>10. CASE CreatePczt(p)
  BY <1>10 DEF CreatePczt, MarkRetain
<1>11. CASE BuildFails(p)
  BY <1>11 DEF BuildFails
<1>12. CASE FinishRelease(p)
  BY <1>12 DEF FinishRelease, Unlock, UnlockOutputs, RemoveRows
<1>13. CASE FinishKeep(p)
  BY <1>13 DEF FinishKeep, AfterFinish
<1>14. CASE DropRows(p)
  BY <1>14 DEF DropRows, AfterFinish, RemoveRows
<1>15. CASE BroadcastCreated(p)
  BY <1>15 DEF BroadcastCreated
<1>16. CASE SubmitPczts(p)
  BY <1>16 DEF SubmitPczts
<1>17. CASE BroadcastPczt(p)
  BY <1>17 DEF BroadcastPczt, PrefixToKeep
<1>18. CASE StorePczts(p)
  BY <1>18 DEF StorePczts, UnlockOutputs
<1>19. CASE Retain(p)
  BY <1>19 DEF Retain, MarkRetain
<1>20. CASE Discard(p)
  BY <1>20 DEF Discard, MayDiscard
<1>21. CASE FinishDiscard(p)
  BY <1>21 DEF FinishDiscard, Unlock, UnlockOutputs, RemoveRows
<1> QED
  BY <1>1, <1>2, <1>3, <1>4, <1>5, <1>6, <1>7, <1>8, <1>9, <1>10, <1>11, <1>12, <1>13, <1>14,
     <1>15, <1>16, <1>17, <1>18, <1>19, <1>20, <1>21 DEF CallStep

LEMMA ReleasedOther ==
    ASSUME BookInv, ReleasedInv, TypeOK',
           \/ RecoverStep
           \/ \E o \in Outputs : MigrationLock(o) \/ MigrationUnlock(o)
           \/ NewBlock \/ SyncTip \/ Restart
    PROVE  ReleasedInv'
<1> USE SendAssumption DEF BookInv, ReleasedInv, WriterHeld, NewFresh, OwnersKnown,
           RowsCurrent, SessionRows, CapabilityCalls, TodoOld, StoredCalls, LeftScreens,
           LocksRecoverable, TypeOK, chainVars, lockVars, rowVars, storeVars, proposalVars, sendVars,
           callVars
<1>1. CASE RecoverBegin
  BY <1>1 DEF RecoverBegin, ShouldReleaseAfterRestart
<1>2. CASE \E p \in Proposals, o \in Outputs : RecoverUnlock(p, o)
  BY <1>2 DEF RecoverUnlock, UnlockOutputs
<1>3. CASE RecoverDelete
  BY <1>3 DEF RecoverDelete
<1>4. CASE RecoverFail
  BY <1>4 DEF RecoverFail
<1>5. CASE \E o \in Outputs : MigrationLock(o)
  BY <1>5 DEF MigrationLock, LockOutputs
<1>6. CASE \E o \in Outputs : MigrationUnlock(o)
  BY <1>6 DEF MigrationUnlock, UnlockOutputs
<1>7. CASE NewBlock
  BY <1>7 DEF NewBlock
<1>8. CASE SyncTip
  BY <1>8 DEF SyncTip
<1>9. CASE Restart
  BY <1>9 DEF Restart
<1> QED
  BY <1>1, <1>2, <1>3, <1>4, <1>5, <1>6, <1>7, <1>8, <1>9 DEF RecoverStep
-----------------------------------------------------------------------------
(* Theorems                                                                *)

IInv == BookInv /\ CustodyInv /\ ExclusionInv /\ ReleasedInv

LEMMA InvInit == Init => IInv
  BY BookInit, CustodyInit, ExclusionInit, ReleasedInit DEF IInv

LEMMA InvNext == ASSUME IInv, Next PROVE IInv'
<1>1. TypeOK'
  BY TypeStep DEF IInv, BookInv
<1>2. CASE \E p \in Proposals : CallStep(p) \/ Discard(p) \/ FinishDiscard(p)
  BY <1>1, <1>2, BookCall, CustodyCall, ExclusionCall, ReleasedCall DEF IInv
<1>3. CASE \/ RecoverStep
           \/ \E o \in Outputs : MigrationLock(o) \/ MigrationUnlock(o)
           \/ NewBlock \/ SyncTip \/ Restart
  BY <1>1, <1>3, BookOther, CustodyOther, ExclusionOther, ReleasedOther DEF IInv
<1> QED
  BY <1>2, <1>3 DEF Next

LEMMA InvStutter == ASSUME IInv, UNCHANGED vars PROVE IInv'
<1> USE DEF vars, chainVars, lockVars, rowVars, storeVars, proposalVars, sendVars, callVars
<1>1. BookInv'
  BY DEF IInv, BookInv, TypeOK, WriterHeld, NewFresh, OwnersKnown, RowsCurrent, SessionRows,
     CapabilityCalls, TodoOld, StoredCalls, LeftScreens, LocksRecoverable
<1>2. CustodyInv'
  BY DEF IInv, CustodyInv, BuildCustody, SignCustody, LargeCustody, TodoSafe, PersistFree,
     Custody, Locked, Marked, Held, Spent, Target
<1>3. ExclusionInv' /\ ReleasedInv'
  BY DEF IInv, ExclusionInv, SpentUnlocked, StoredDisjoint, ReleasedInv, Held, Target
<1> QED
  BY <1>1, <1>2, <1>3 DEF IInv

LEMMA Invariance == Spec => []IInv
<1>1. IInv /\ [Next]_vars => IInv'
  BY InvNext, InvStutter
<1> QED
  BY InvInit, <1>1, PTL DEF Spec

(* Whatever the number of sends, outputs, blocks and restarts, a wallet    *)
(* lock that a send holds keeps its recovery rows until the wallet records *)
(* the spend: no lock is ever lost to recover_previous_process.            *)
THEOREM LocksAreRecoverable == Spec => []LocksRecoverable
<1>1. IInv => LocksRecoverable
  BY DEF IInv, BookInv
<1> QED
  BY Invariance, <1>1, PTL

(* While the network may have a transaction the wallet does not know, its  *)
(* inputs are locked for it, across crashes, cancels, failed stores and    *)
(* failed retains of store_and_broadcast_pczts_for_proposal.               *)
THEOREM CustodyIsKept == Spec => []AtLargeStaysLocked
<1>1. IInv => AtLargeStaysLocked
  <2> SUFFICES ASSUME IInv, NEW p \in Proposals, AtLarge(p), NEW o \in inputs[p]
               PROVE  owner[o] = p /\ Held(o)
    BY DEF AtLargeStaysLocked
  <2>1. touched[p] > 0 /\ stored[p] = 0 /\ Target < expiry[p]
    BY DEF AtLarge
  <2>2. Locked(p)
    BY <2>1 DEF IInv, CustodyInv, LargeCustody, Custody
  <2> QED
    BY <2>1, <2>2, SendAssumption DEF Locked, Held
<1> QED
  BY Invariance, <1>1, PTL

(* Two transactions the network may have never spend the same output while *)
(* both can be mined, for any number of competing sends and migrations.    *)
THEOREM DoubleSpendsExcluded == Spec => []NoDoubleSpend
<1>1. IInv => NoDoubleSpend
  <2> SUFFICES ASSUME IInv, NEW p \in Proposals, NEW q \in Proposals, p # q,
                      touched[p] > 0, touched[q] > 0,
                      Target < expiry[p], Target < expiry[q],
                      NEW o \in inputs[p] \cap inputs[q]
               PROVE  FALSE
    BY DEF NoDoubleSpend
  <2> USE DEF IInv, BookInv, TypeOK
  <2>1. \A r \in {p, q} : stored[r] = 0 => owner[o] = r /\ Held(o)
    BY SendAssumption DEF CustodyInv, LargeCustody, Custody, Locked, Held
  <2>2. CASE stored[p] = 0 /\ stored[q] = 0
    BY <2>1, <2>2
  <2>3. CASE stored[p] > 0 /\ stored[q] = 0
    BY <2>1, <2>3 DEF ExclusionInv, SpentUnlocked
  <2>4. CASE stored[p] = 0 /\ stored[q] > 0
    BY <2>1, <2>4 DEF ExclusionInv, SpentUnlocked
  <2>5. CASE stored[p] > 0 /\ stored[q] > 0
    BY <2>5 DEF ExclusionInv, StoredDisjoint
  <2> QED
    BY <2>2, <2>3, <2>4, <2>5
<1> QED
  BY Invariance, <1>1, PTL

(* Once discard_stored_proposal or an error path has confirmed a release,  *)
(* no call that was in flight takes the proposal to the network.           *)
THEOREM CancellationIsFinal == Spec => CancelIsFinal
<1> DEFINE Quiet == \A p \in released : touched'[p] = touched[p]
<1>1. ASSUME IInv, Next PROVE Quiet
  <2> SUFFICES ASSUME NEW r \in released PROVE touched'[r] = touched[r]
    OBVIOUS
  <2> USE <1>1 DEF IInv, BookInv, TypeOK, ReleasedInv
  <2>1. ASSUME NEW p \in Proposals, BroadcastCreated(p) \/ BroadcastPczt(p)
        PROVE  touched'[r] = touched[r]
    <3>1. pc[p] \in {"broadcast", "send"}
      BY <2>1 DEF BroadcastCreated, BroadcastPczt
    <3>2. p # r
      BY <3>1
    <3>3. CASE BroadcastCreated(p)
      BY <3>2, <3>3 DEF BroadcastCreated
    <3>4. CASE BroadcastPczt(p)
      BY <3>2, <3>4 DEF BroadcastPczt
    <3> QED
      BY <2>1, <3>3, <3>4
  <2>2. ASSUME NEW p \in Proposals, CallStep(p), ~BroadcastCreated(p), ~BroadcastPczt(p)
        PROVE  UNCHANGED touched
    BY <2>2 DEF CallStep, ProposePersist, ProposeLock, ProposeInsert, Consume, LiveTip, Relock,
       UpdateExpiry, CreateTransactions, CreatePczt, BuildFails, FinishRelease, FinishKeep,
       DropRows, SubmitPczts, StorePczts, Retain, sendVars
  <2>3. CASE \E p \in Proposals : Discard(p) \/ FinishDiscard(p)
    BY <2>3 DEF Discard, FinishDiscard, sendVars
  <2>4. CASE \/ RecoverStep
             \/ \E o \in Outputs : MigrationLock(o) \/ MigrationUnlock(o)
             \/ NewBlock \/ SyncTip \/ Restart
    BY <2>4 DEF RecoverStep, RecoverBegin, RecoverUnlock, RecoverDelete, RecoverFail,
       MigrationLock, MigrationUnlock, NewBlock, SyncTip, Restart, callVars, sendVars
  <2>5. CASE \E p \in Proposals : CallStep(p)
    BY <2>1, <2>2, <2>5
  <2> QED
    BY <2>3, <2>4, <2>5 DEF Next
<1>2. IInv /\ [Next]_vars => [Quiet]_vars
  BY <1>1
<1>3. Spec => [][Quiet]_vars
  BY Invariance, <1>2, PTL DEF Spec
<1> QED
  BY <1>3 DEF CancelIsFinal
=============================================================================
