------------------------------ MODULE SendLocks ------------------------------
(***************************************************************************)
(* Who may spend a wallet output while a send is being prepared, signed    *)
(* and broadcast.                                                          *)
(*                                                                         *)
(*   rust/src/wallet/sync/mod.rs             PROPOSAL_STORE                *)
(*   rust/src/wallet/sync/proposal_locks.rs  durable recovery rows         *)
(*   rust/src/wallet/sync/send.rs            propose and software send     *)
(*   rust/src/wallet/sync/pczt.rs            hardware send                 *)
(*   rust/src/wallet/sync/migration_wallet_ops.rs  migration's own locks   *)
(*                                                                         *)
(* A proposal reserves its inputs three times: with an owner-scoped,       *)
(* height-limited lock in the wallet database, with a recovery row in a    *)
(* side table, and with an in-memory capability to release the lock.  The  *)
(* process may die between any two steps; the memory is lost, locks and    *)
(* rows are not.                                                           *)
(*                                                                         *)
(* A proposal stands for one call of propose_send: its proposal id, its    *)
(* lock owner and its send flow id.  Only the first transaction of a       *)
(* proposal spends wallet outputs; a second one (ZIP 320) spends the       *)
(* first's.                                                                *)
(***************************************************************************)
EXTENDS Integers, FiniteSets

CONSTANTS
    Proposals,      \* calls of propose_send
    Outputs,        \* wallet outputs
    Migration,      \* the lock owner of the migration run
    Recovery,       \* the recovery pass, as a holder of the write lock
    NoOne,          \* no owner, no writer
    LockBlocks,     \* SEND_PROPOSAL_LOCK_BLOCKS
    Forever,        \* BlockHeight::from_u32(u32::MAX): higher than any expiry
    MaxSteps,       \* bound: transactions per proposal
    TipLag,         \* bound: blocks a cached tip may be behind
    MaxHeight,      \* bound: blocks
    LastPropose,    \* bound: last height at which a proposal is made
    MaxSession      \* bound: process starts

ASSUME SendAssumption ==
    /\ NoOne \notin Proposals \cup {Migration, Recovery}
    /\ Migration \notin Proposals
    /\ Recovery \notin Proposals
    /\ LockBlocks \in Nat \ {0}
    /\ MaxSteps \in Nat \ {0}
    /\ TipLag \in Nat
    /\ MaxHeight \in Nat
    /\ LastPropose \in Nat
    /\ MaxSession \in Nat
    /\ Forever \in Nat /\ Forever > MaxHeight + 2 * LockBlocks + 1
    /\ MaxHeight >= LastPropose + 2 * LockBlocks   \* every expiry height is reached

VARIABLES
    tip,          \* height of the network's chain
    walletTip,    \* chain tip the wallet database knows
    session,      \* PROCESS_SESSION_ID
    writer,       \* holder of the wallet write lock
    owner,        \* owner[o]: owner of the wallet lock on o
    lockExpiry,   \* lockExpiry[o]: height up to which that lock holds
    rowSession,   \* rowSession[p]: session of p's recovery rows, 0 for none
    rowExpiry,    \* rowExpiry[p]: their expiry_height
    retained,     \* proposals whose rows say retain_until_expiry
    proposals,    \* ProposalStore.proposals
    capabilities, \* ProposalStore.locks
    todo,         \* owners the running recovery pass has decided to release
    pc,           \* pc[p]: where the call that works on p is
    cancelling,   \* proposals with a discard call in flight
    screen,       \* screen[p]: "open", "left", or "handed" its PCZTs to Rust
    inputs,       \* inputs[p]: wallet outputs p spends
    steps,        \* steps[p]: number of its transactions
    kind,         \* kind[p]: "software" or "hardware" signing
    min,          \* min[p]: proposal.min_target_height
    expiry,       \* expiry[p]: expiry height of its transactions
    touched,      \* touched[p]: how many of them the network may have
    plan,         \* plan[p]: the prefix the broadcast loop decided to keep
    stored,       \* stored[p]: how many are recorded in the wallet
    released      \* history: proposals whose release was confirmed

lockVars == <<owner, lockExpiry>>
rowVars == <<rowSession, rowExpiry, retained>>
storeVars == <<proposals, capabilities>>
chainVars == <<tip, walletTip>>
proposalVars == <<inputs, steps, kind, min>>
sendVars == <<proposalVars, expiry, touched, plan, stored>>
callVars == <<pc, cancelling, screen, sendVars, released>>
vars == <<chainVars, session, writer, lockVars, rowVars, storeVars, todo, callVars>>

PCs == {"new", "persisted", "locked", "review", "tip", "create", "update", "build",
        "signing", "send", "store", "retain", "fail", "finish", "rowdrop", "broadcast", "done"}

TypeOK ==
    /\ tip \in Nat /\ walletTip \in Nat /\ session \in Nat \ {0}
    /\ writer \in Proposals \cup {Recovery, NoOne}
    /\ owner \in [Outputs -> Proposals \cup {Migration, NoOne}]
    /\ lockExpiry \in [Outputs -> Nat]
    /\ rowSession \in [Proposals -> Nat]
    /\ rowExpiry \in [Proposals -> Nat]
    /\ retained \subseteq Proposals
    /\ proposals \subseteq Proposals
    /\ capabilities \subseteq Proposals
    /\ todo \subseteq Proposals
    /\ pc \in [Proposals -> PCs]
    /\ cancelling \subseteq Proposals
    /\ screen \in [Proposals -> {"open", "left", "handed"}]
    /\ inputs \in [Proposals -> SUBSET Outputs]
    /\ kind \in [Proposals -> {"software", "hardware"}]
    /\ steps \in [Proposals -> Nat]
    /\ min \in [Proposals -> Nat]
    /\ expiry \in [Proposals -> Nat]
    /\ touched \in [Proposals -> Nat]
    /\ plan \in [Proposals -> Nat]
    /\ stored \in [Proposals -> Nat]
    /\ released \subseteq Proposals

Init ==
    /\ tip = 0 /\ walletTip = 0 /\ session = 1
    /\ writer = NoOne
    /\ owner = [o \in Outputs |-> NoOne]
    /\ lockExpiry = [o \in Outputs |-> 0]
    /\ rowSession = [p \in Proposals |-> 0]
    /\ rowExpiry = [p \in Proposals |-> 0]
    /\ retained = {}
    /\ proposals = {}
    /\ capabilities = {}
    /\ todo = {}
    /\ pc = [p \in Proposals |-> "new"]
    /\ cancelling = {}
    /\ screen = [p \in Proposals |-> "open"]
    /\ inputs = [p \in Proposals |-> {}]
    /\ kind = [p \in Proposals |-> "software"]
    /\ steps = [p \in Proposals |-> 0]
    /\ min = [p \in Proposals |-> 0]
    /\ expiry = [p \in Proposals |-> 0]
    /\ touched = [p \in Proposals |-> 0]
    /\ plan = [p \in Proposals |-> 0]
    /\ stored = [p \in Proposals |-> 0]
    /\ released = {}

-----------------------------------------------------------------------------
(* The wallet database: output locks, spends and heights.                  *)

\* get_target_and_anchor_heights: the height the next transaction targets.
Target == walletTip + 1

\* A lock is in force until the target height reaches its expiry.
Held(o) == owner[o] # NoOne /\ Target < lockExpiry[o]

\* A stored transaction spends its inputs while it can still be mined.
Spent(o) == \E p \in Proposals :
    /\ stored[p] > 0
    /\ o \in inputs[p]
    /\ Target <= expiry[p]

CanLock(S, who) == \A o \in S : ~Spent(o) /\ (Held(o) => owner[o] = who)

LockOutputs(S, who, until) ==
    /\ owner' = [o \in Outputs |-> IF o \in S THEN who ELSE owner[o]]
    /\ lockExpiry' = [o \in Outputs |-> IF o \in S THEN until ELSE lockExpiry[o]]

UnlockOutputs(S, who) ==
    /\ owner' = [o \in Outputs |-> IF o \in S /\ owner[o] = who THEN NoOne ELSE owner[o]]
    /\ UNCHANGED lockExpiry

-----------------------------------------------------------------------------
(* The recovery table (proposal_locks.rs).                                 *)

Persist(p, until) ==
    /\ rowSession' = [rowSession EXCEPT ![p] = session]
    /\ rowExpiry' = [rowExpiry EXCEPT ![p] = until]
    /\ retained' = retained \ {p}

RemoveRows(p) ==
    /\ rowSession' = [rowSession EXCEPT ![p] = 0]
    /\ retained' = retained \ {p}
    /\ UNCHANGED rowExpiry

MarkRetain(p) ==
    /\ rowSession[p] # 0
    /\ retained' = retained \cup {p}
    /\ UNCHANGED <<rowSession, rowExpiry>>

\* Faulty variants: the rows' retain flag is ignored; so is their height.
ReleaseAll(p) == TRUE
ReleaseUnretained(p) == p \notin retained

ShouldReleaseAfterRestart(p) == p \notin retained \/ Target >= rowExpiry[p]

-----------------------------------------------------------------------------
(* propose_send: one write-lock section.                                   *)

SendProposalLockExpiry(target) == target + LockBlocks

\* Choose inputs that are neither spent nor locked, and persist their rows.
ProposePersist(p) ==
    /\ pc[p] = "new" /\ writer = NoOne /\ walletTip <= LastPropose
    /\ \E S \in SUBSET Outputs \ {{}}, n \in 1..MaxSteps :
          /\ \A o \in S : ~Held(o) /\ ~Spent(o)
          /\ inputs' = [inputs EXCEPT ![p] = S]
          /\ steps' = [steps EXCEPT ![p] = n]
    /\ min' = [min EXCEPT ![p] = Target]
    /\ Persist(p, SendProposalLockExpiry(Target))
    /\ writer' = p
    /\ pc' = [pc EXCEPT ![p] = "persisted"]
    /\ UNCHANGED <<chainVars, session, lockVars, storeVars, todo, cancelling, screen, kind,
                   expiry, touched, plan, stored, released>>

\* lock_outputs; when it fails the rows are removed, or are left if that fails too.
ProposeLock(p) ==
    /\ pc[p] = "persisted"
    /\ \/ /\ LockOutputs(inputs[p], p, SendProposalLockExpiry(min[p]))
          /\ pc' = [pc EXCEPT ![p] = "locked"]
          /\ UNCHANGED <<writer, rowVars>>
       \/ /\ pc' = [pc EXCEPT ![p] = "done"]
          /\ writer' = NoOne
          /\ RemoveRows(p) \/ UNCHANGED rowVars
          /\ UNCHANGED lockVars
    /\ UNCHANGED <<chainVars, session, storeVars, todo, cancelling, screen, sendVars, released>>

\* Insert the proposal and its capability, then return the proposal id.
ProposeInsert(p) ==
    /\ pc[p] = "locked"
    /\ proposals' = proposals \cup {p}
    /\ capabilities' = capabilities \cup {p}
    /\ writer' = NoOne
    /\ pc' = [pc EXCEPT ![p] = "review"]
    /\ UNCHANGED <<chainVars, session, lockVars, rowVars, todo, cancelling, screen, sendVars, released>>

-----------------------------------------------------------------------------
(* execute_proposal and create_pczt_from_proposal up to the transaction.   *)

\* consume_stored_proposal.
Consume(p, k) ==
    /\ pc[p] = "review" /\ p \in proposals
    /\ proposals' = proposals \ {p}
    /\ kind' = [kind EXCEPT ![p] = k]
    /\ pc' = [pc EXCEPT ![p] = "tip"]
    /\ UNCHANGED <<chainVars, session, writer, lockVars, rowVars, capabilities, todo,
                   cancelling, screen, inputs, steps, min, expiry, touched, plan, stored, released>>

\* latest_block_for_transaction: a cached tip is a little old.
SeenTips == {h \in 0..tip : tip - h <= TipLag}

\* Faulty variant: counts the blocks down.
ExpiryBackwards(target, seen) == (IF seen + 1 > target THEN seen + 1 ELSE target) - 2 * LockBlocks

SendExpiryHeightForLiveTip(target, seen) ==
    (IF seen + 1 > target THEN seen + 1 ELSE target) + LockBlocks

\* live_send_expiry_height; the await lets a cancel run.
LiveTip(p) ==
    /\ pc[p] = "tip"
    /\ \/ \E seen \in SeenTips :
            /\ seen + 1 < SendProposalLockExpiry(min[p])
            /\ expiry' = [expiry EXCEPT ![p] = SendExpiryHeightForLiveTip(min[p], seen)]
            /\ pc' = [pc EXCEPT ![p] = "create"]
       \/ pc' = [pc EXCEPT ![p] = "fail"] /\ UNCHANGED expiry   \* no seed, no tip, or expired
    /\ UNCHANGED <<chainVars, session, writer, lockVars, rowVars, storeVars, todo,
                   cancelling, screen, proposalVars, touched, plan, stored, released>>

\* Faulty variant: trusts the capability read before the tip request.
MayRelockUnchecked(p) ==
    /\ kind[p] = "software" => Target < SendProposalLockExpiry(min[p])
    /\ CanLock(inputs[p], p)

\* Whether the write-lock section may take the inputs again.
MayRelock(p) ==
    /\ p \in capabilities
    /\ kind[p] = "software" => Target < SendProposalLockExpiry(min[p])
    /\ CanLock(inputs[p], p)

\* Re-check the capability under the write lock and lock the inputs again.
Relock(p) ==
    /\ pc[p] = "create" /\ writer = NoOne
    /\ \/ /\ MayRelock(p)
          /\ LockOutputs(inputs[p], p, expiry[p])
          /\ writer' = p
          /\ pc' = [pc EXCEPT ![p] = "update"]
       \/ /\ pc' = [pc EXCEPT ![p] = "fail"]
          /\ UNCHANGED <<writer, lockVars>>
    /\ UNCHANGED <<chainVars, session, rowVars, storeVars, todo, cancelling, screen, sendVars, released>>

\* proposal_locks::update_expiry.
UpdateExpiry(p) ==
    /\ pc[p] = "update"
    /\ \/ /\ rowSession[p] # 0
          /\ rowExpiry' = [rowExpiry EXCEPT ![p] = expiry[p]]
          /\ pc' = [pc EXCEPT ![p] = "build"]
          /\ UNCHANGED writer
       \/ /\ pc' = [pc EXCEPT ![p] = "fail"]
          /\ writer' = NoOne
          /\ UNCHANGED rowExpiry
    /\ UNCHANGED <<chainVars, session, lockVars, rowSession, retained, storeVars, todo,
                   cancelling, screen, sendVars, released>>

\* create_proposed_transactions stores what it builds; that clears the locks.
CreateTransactions(p) ==
    /\ pc[p] = "build" /\ kind[p] = "software"
    /\ stored' = [stored EXCEPT ![p] = steps[p]]
    /\ UnlockOutputs(inputs[p], p)
    /\ writer' = NoOne
    /\ pc' = [pc EXCEPT ![p] = "finish"]
    /\ UNCHANGED <<chainVars, session, rowVars, storeVars, todo, cancelling, screen,
                   proposalVars, expiry, touched, plan, released>>

\* Faulty variant: leaves the retain mark to a later call.
CreatePcztUnmarked(p) ==
    /\ pc[p] = "build" /\ kind[p] = "hardware"
    /\ writer' = NoOne
    /\ pc' = [pc EXCEPT ![p] = "signing"]
    /\ UNCHANGED <<chainVars, session, lockVars, rowVars, storeVars, todo, cancelling, screen,
                   sendVars, released>>

\* The PCZT may leave the process: its rows are marked before the write lock goes.
CreatePczt(p) ==
    /\ pc[p] = "build" /\ kind[p] = "hardware"
    /\ MarkRetain(p)
    /\ writer' = NoOne
    /\ pc' = [pc EXCEPT ![p] = "signing"]
    /\ UNCHANGED <<chainVars, session, lockVars, storeVars, todo, cancelling, screen, sendVars, released>>

BuildFails(p) ==
    /\ pc[p] = "build"
    /\ writer' = NoOne
    /\ pc' = [pc EXCEPT ![p] = "fail"]
    /\ UNCHANGED <<chainVars, session, lockVars, rowVars, storeVars, todo, cancelling, screen, sendVars,
                   released>>

-----------------------------------------------------------------------------
(* Giving the inputs back.                                                 *)

(* unlock_stored_proposal: a write-lock section that re-checks the         *)
(* capability.  A database error after some unlocks leaves the rows and    *)
(* the capability, so that the call can be made again.                     *)
Unlock(p) ==
    \/ /\ p \notin capabilities
       /\ UNCHANGED <<lockVars, rowVars, capabilities, released>>
    \/ /\ p \in capabilities /\ writer = NoOne
       /\ \E S \in SUBSET inputs[p] : UnlockOutputs(S, p)
       /\ UNCHANGED <<rowVars, capabilities, released>>
    \/ /\ p \in capabilities /\ writer = NoOne
       /\ UnlockOutputs(inputs[p], p)
       /\ RemoveRows(p)
       /\ capabilities' = capabilities \ {p}
       /\ released' = released \cup {p}

\* finish_stored_proposal(release_inputs = true), on every error path.
FinishRelease(p) ==
    /\ pc[p] = "fail"
    /\ Unlock(p)
    /\ pc' = [pc EXCEPT ![p] = "done"]
    /\ UNCHANGED <<chainVars, session, writer, proposals, todo, cancelling, screen, sendVars>>

\* A software send is broadcast once it is stored; a hardware send is then over.
AfterFinish(p) == IF kind[p] = "software" THEN "broadcast" ELSE "done"

\* finish_stored_proposal(release_inputs = false): drop the capability first;
\* without one there is nothing to do.
FinishKeep(p) ==
    /\ pc[p] = "finish"
    /\ capabilities' = capabilities \ {p}
    /\ pc' = [pc EXCEPT ![p] = IF p \in capabilities THEN "rowdrop" ELSE AfterFinish(p)]
    /\ UNCHANGED <<chainVars, session, writer, lockVars, rowVars, proposals, todo,
                   cancelling, screen, sendVars, released>>

\* ... then the rows, outside the write lock; a failure is only logged.
DropRows(p) ==
    /\ pc[p] = "rowdrop"
    /\ RemoveRows(p) \/ UNCHANGED rowVars
    /\ pc' = [pc EXCEPT ![p] = AfterFinish(p)]
    /\ UNCHANGED <<chainVars, session, writer, lockVars, storeVars, todo, cancelling, screen, sendVars,
                   released>>

\* When a screen may discard: before it starts a software send, after a call
\* that failed, and for a hardware send until it hands the signed PCZTs over.
MayDiscard(p) ==
    /\ screen[p] # "handed"
    /\ \/ pc[p] \in {"review", "done"}
       \/ kind[p] = "hardware" /\ pc[p] \in {"tip", "create", "update", "build", "signing", "fail"}

\* Faulty variant: leaves the proposal in the store until the release is done.
DiscardKeepsProposal(p) ==
    /\ p \in proposals \cup capabilities
    /\ p \notin cancelling
    /\ MayDiscard(p)
    /\ cancelling' = cancelling \cup {p}
    /\ screen' = [screen EXCEPT ![p] = "left"]
    /\ UNCHANGED <<chainVars, session, writer, lockVars, rowVars, storeVars, todo, pc, sendVars,
                   released>>

\* discard_stored_proposal up to the release.
Discard(p) ==
    /\ p \in proposals \cup capabilities
    /\ p \notin cancelling
    /\ MayDiscard(p)
    /\ proposals' = proposals \ {p}
    /\ cancelling' = cancelling \cup {p}
    /\ screen' = [screen EXCEPT ![p] = "left"]
    /\ UNCHANGED <<chainVars, session, writer, lockVars, rowVars, capabilities, todo, pc,
                   sendVars, released>>

FinishDiscard(p) ==
    /\ p \in cancelling
    /\ Unlock(p)
    /\ cancelling' = cancelling \ {p}
    /\ UNCHANGED <<chainVars, session, writer, proposals, todo, pc, screen, sendVars>>

-----------------------------------------------------------------------------
(* Broadcast.                                                              *)

\* broadcast_created_transactions: stop at the first failure, which may still
\* have reached the network.
BroadcastCreated(p) ==
    /\ pc[p] = "broadcast"
    /\ \/ /\ touched[p] < stored[p]
          /\ touched' = [touched EXCEPT ![p] = @ + 1]
          /\ pc' = pc \/ pc' = [pc EXCEPT ![p] = "done"]
       \/ /\ pc' = [pc EXCEPT ![p] = "done"]
          /\ UNCHANGED touched
    /\ UNCHANGED <<chainVars, session, writer, lockVars, rowVars, storeVars, todo,
                   cancelling, screen, proposalVars, expiry, plan, stored, released>>

\* store_and_broadcast_pczts_for_proposal up to the broadcast loop.
SubmitPczts(p) ==
    /\ pc[p] = "signing" /\ screen[p] = "open"
    /\ screen' = [screen EXCEPT ![p] = "handed"]
    /\ \/ /\ p \in capabilities
          /\ \E seen \in SeenTips : seen < expiry[p]
          /\ pc' = [pc EXCEPT ![p] = "send"]
       \/ pc' = [pc EXCEPT ![p] = "fail"]    \* invalid, no route, no tip, or expired
    /\ UNCHANGED <<chainVars, session, writer, lockVars, rowVars, storeVars, todo,
                   cancelling, sendVars, released>>

\* Faulty variant: an ambiguous answer counts as a failure.
PrefixAccepted(i, attempt) == IF attempt = "accepted" THEN i + 1 ELSE i

\* pczt_broadcast_step: the prefix to keep after attempt i (from 0) ended so.
PrefixToKeep(i, attempt) == IF attempt \in {"accepted", "unknown"} THEN i + 1 ELSE i

\* One pass of the broadcast loop.
BroadcastPczt(p) ==
    LET i == touched[p] IN
    /\ pc[p] = "send"
    /\ \E attempt \in {"accepted", "unknown", "rejected", "noroute"} :
          /\ attempt = "accepted" => tip < expiry[p]
          /\ attempt = "noroute" => i > 0
          /\ touched' = [touched EXCEPT ![p] = IF attempt \in {"accepted", "unknown"} THEN i + 1 ELSE i]
          /\ plan' = [plan EXCEPT ![p] = PrefixToKeep(i, attempt)]
          /\ pc' = [pc EXCEPT ![p] =
                CASE attempt = "accepted" /\ i + 1 < steps[p] -> "send"
                  [] attempt = "rejected" /\ i = 0 -> "fail"
                  [] OTHER -> "store"]
    /\ UNCHANGED <<chainVars, session, writer, lockVars, rowVars, storeVars, todo,
                   cancelling, screen, proposalVars, expiry, stored, released>>

\* Store the kept prefix in one transaction; the fallback may leave the locks.
StorePczts(p) ==
    /\ pc[p] = "store" /\ writer = NoOne
    /\ \/ /\ stored' = [stored EXCEPT ![p] = plan[p]]
          /\ UnlockOutputs(inputs[p], p) \/ UNCHANGED lockVars
          /\ pc' = [pc EXCEPT ![p] = "finish"]
       \/ /\ pc' = [pc EXCEPT ![p] = "retain"]
          /\ UNCHANGED <<lockVars, stored>>
    /\ UNCHANGED <<chainVars, session, writer, rowVars, storeVars, todo, cancelling, screen,
                   proposalVars, expiry, touched, plan, released>>

\* retain_stored_proposal_lock_until_expiry; a failure keeps the capability.
Retain(p) ==
    /\ pc[p] = "retain" /\ writer = NoOne
    /\ \/ /\ p \in capabilities
          /\ MarkRetain(p)
          /\ proposals' = proposals \ {p}
          /\ capabilities' = capabilities \ {p}
       \/ UNCHANGED <<rowVars, storeVars>>
    /\ pc' = [pc EXCEPT ![p] = "done"]
    /\ UNCHANGED <<chainVars, session, writer, lockVars, todo, cancelling, screen, sendVars, released>>

-----------------------------------------------------------------------------
(* recover_previous_process, at the start of every sync: one write-lock    *)
(* section, whose unlocks are committed one by one.                        *)

RecoverBegin ==
    /\ writer = NoOne
    /\ \E p \in Proposals : rowSession[p] \notin {0, session}
    /\ todo' = {p \in Proposals : /\ rowSession[p] \notin {0, session}
                                  /\ ShouldReleaseAfterRestart(p)}
    /\ writer' = Recovery
    /\ UNCHANGED <<chainVars, session, lockVars, rowVars, storeVars, callVars>>

RecoverUnlock(p, o) ==
    /\ writer = Recovery
    /\ p \in todo /\ o \in inputs[p] /\ owner[o] = p
    /\ UnlockOutputs({o}, p)
    /\ UNCHANGED <<chainVars, session, writer, rowVars, storeVars, todo, callVars>>

\* Faulty variant: deletes the rows without waiting for the unlocks.
RecoverDeleteFirst ==
    /\ writer = Recovery
    /\ rowSession' = [p \in Proposals |-> IF p \in todo THEN 0 ELSE rowSession[p]]
    /\ retained' = retained \ todo
    /\ todo' = {}
    /\ writer' = NoOne
    /\ UNCHANGED <<chainVars, session, lockVars, rowExpiry, storeVars, callVars>>

RecoverDelete ==
    /\ writer = Recovery
    /\ \A p \in todo, o \in Outputs : o \in inputs[p] => owner[o] # p
    /\ rowSession' = [p \in Proposals |-> IF p \in todo THEN 0 ELSE rowSession[p]]
    /\ retained' = retained \ todo
    /\ todo' = {}
    /\ writer' = NoOne
    /\ UNCHANGED <<chainVars, session, lockVars, rowExpiry, storeVars, callVars>>

\* A database error ends the pass; the next sync tries again.
RecoverFail ==
    /\ writer = Recovery
    /\ todo' = {}
    /\ writer' = NoOne
    /\ UNCHANGED <<chainVars, session, lockVars, rowVars, storeVars, callVars>>

-----------------------------------------------------------------------------
(* Everything else that touches the locks or the clock.                    *)

\* ensure_orchard_migration_locks on a spendable output.
MigrationLock(o) ==
    /\ writer = NoOne
    /\ owner[o] # Migration
    /\ CanLock({o}, Migration)
    /\ LockOutputs({o}, Migration, Forever)
    /\ UNCHANGED <<chainVars, session, writer, rowVars, storeVars, todo, callVars>>

\* unlock_orchard_migration_outputs.
MigrationUnlock(o) ==
    /\ writer = NoOne
    /\ owner[o] = Migration
    /\ UnlockOutputs({o}, Migration)
    /\ UNCHANGED <<chainVars, session, writer, rowVars, storeVars, todo, callVars>>

NewBlock ==
    /\ tip < MaxHeight
    /\ tip' = tip + 1
    /\ UNCHANGED <<walletTip, session, writer, lockVars, rowVars, storeVars, todo, callVars>>

\* update_chain_tip by a sync pass.
SyncTip ==
    /\ writer = NoOne
    /\ walletTip < tip
    /\ walletTip' = tip
    /\ UNCHANGED <<tip, session, writer, lockVars, rowVars, storeVars, todo, callVars>>

\* The process dies and is started again: memory and calls are gone.
Restart ==
    /\ session < MaxSession
    /\ session' = session + 1
    /\ writer' = NoOne
    /\ proposals' = {}
    /\ capabilities' = {}
    /\ todo' = {}
    /\ cancelling' = {}
    /\ pc' = [p \in Proposals |-> IF pc[p] = "new" THEN "new" ELSE "done"]
    /\ UNCHANGED <<chainVars, lockVars, rowVars, screen, sendVars, released>>

CallStep(p) ==
    \/ ProposePersist(p) \/ ProposeLock(p) \/ ProposeInsert(p)
    \/ Consume(p, "software") \/ Consume(p, "hardware")
    \/ LiveTip(p) \/ Relock(p) \/ UpdateExpiry(p)
    \/ CreateTransactions(p) \/ CreatePczt(p) \/ BuildFails(p)
    \/ FinishRelease(p) \/ FinishKeep(p) \/ DropRows(p)
    \/ BroadcastCreated(p)
    \/ SubmitPczts(p) \/ BroadcastPczt(p) \/ StorePczts(p) \/ Retain(p)

RecoverStep ==
    \/ RecoverBegin
    \/ \E p \in Proposals, o \in Outputs : RecoverUnlock(p, o)
    \/ RecoverDelete
    \/ RecoverFail

Next ==
    \/ \E p \in Proposals : CallStep(p) \/ Discard(p) \/ FinishDiscard(p)
    \/ RecoverStep
    \/ \E o \in Outputs : MigrationLock(o) \/ MigrationUnlock(o)
    \/ NewBlock
    \/ SyncTip
    \/ Restart

Spec == Init /\ [][Next]_vars

-----------------------------------------------------------------------------
(* Properties                                                              *)

\* The network may have the transaction, the wallet does not know it, and the
\* wallet cannot yet count it as expired.
AtLarge(p) == touched[p] > 0 /\ stored[p] = 0 /\ Target < expiry[p]

(* While a signed transaction may be on the network without being recorded *)
(* in the wallet, its inputs stay locked for it: across a crash after      *)
(* SendTransaction, a failed store, a failed retain, a cancel and every    *)
(* recovery pass.                                                          *)
AtLargeStaysLocked == \A p \in Proposals : AtLarge(p) =>
    \A o \in inputs[p] : owner[o] = p /\ Held(o)

(* Two transactions the network may have never spend the same output while *)
(* both can be mined in the wallet's view.                                 *)
NoDoubleSpend == \A p, q \in Proposals :
    /\ p # q
    /\ touched[p] > 0 /\ touched[q] > 0
    /\ Target < expiry[p] /\ Target < expiry[q]
    => inputs[p] \cap inputs[q] = {}

(* A lock that a send holds can always be found again: its recovery rows   *)
(* exist, unless the wallet already records the spend.                     *)
LocksRecoverable == \A o \in Outputs :
    owner[o] \in Proposals => rowSession[owner[o]] # 0 \/ stored[owner[o]] > 0

(* A proposal whose release was confirmed to the user is never broadcast   *)
(* afterwards, whatever call was in flight when it was cancelled.          *)
CancelIsFinal == [][\A p \in released : touched'[p] = touched[p]]_vars

-----------------------------------------------------------------------------
(* Liveness.  Calls and the recovery pass are scheduled; the write mutex   *)
(* is not kept from the recovery pass for ever; its database errors are    *)
(* transient, so a pass that keeps being retried ends; blocks arrive and   *)
(* are synced.                                                             *)
FairSpec ==
    /\ Spec
    /\ \A p \in Proposals : WF_vars(CallStep(p))
    /\ SF_vars(RecoverBegin)
    /\ \A p \in Proposals, o \in Outputs : SF_vars(RecoverUnlock(p, o))
    /\ SF_vars(RecoverDelete)
    /\ WF_vars(NewBlock)
    /\ SF_vars(SyncTip)

(* Rows of an earlier process are cleared and their outputs freed: at once *)
(* if nothing was signed, by the recorded height otherwise.                *)
Orphaned(p) == rowSession[p] \notin {0, session}
Released(p) == rowSession[p] = 0 /\ \A o \in Outputs : owner[o] # p
OrphansReleased == \A p \in Proposals : Orphaned(p) ~> Released(p)

(* "Ambiguous-broadcast locks remain until their recorded expiry height    *)
(* has passed" (recover_previous_process): recovery gives up a retained    *)
(* lock only once the chain has reached that height.                       *)
RetainedUntilExpiryPassed ==
    [][\A p \in retained : writer = Recovery /\ rowSession'[p] = 0 => tip >= rowExpiry[p]]_vars
=============================================================================
