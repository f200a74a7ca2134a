------------------------- MODULE SummaryCacheProofs -------------------------
(***************************************************************************)
(* Proofs about the wallet summary cache, for every number of threads,     *)
(* wallets, slots, commits and write sections.                             *)
(***************************************************************************)
EXTENDS SummaryCache, TLAPS

(* The write epoch is odd exactly while a write closure runs               *)
(* (WriteEpochGuard in db.rs).                                             *)
EpochParity == Even(epoch) <=> writing = NoOne

(* A thread inside get_or_load_with_epoch holds the slot of its own key.   *)
CallShape == \A r \in Readers :
    IF call[r].pc = "idle" THEN call[r] = IdleCall
                           ELSE call[r].path \in Paths /\ call[r].slot \in Slots

(* A slot serves one key: no two keys, and no two threads asking for       *)
(* different keys, ever share one.                                         *)
OneKeyPerSlot ==
    /\ \A p, q \in Paths : entryMap[p] = entryMap[q] /\ entryMap[p] \in Slots => p = q
    /\ \A r \in Readers, p \in Paths :
          call[r].slot = entryMap[p] /\ entryMap[p] \in Slots => call[r].path = p
    /\ \A r, t \in Readers :
          call[r].slot = call[t].slot /\ call[r].slot \in Slots => call[r].path = call[t].path

(* An entry was taken in a quiet epoch, and while that epoch lasts it is   *)
(* the committed state of wallet p.                                        *)
Sound(e, p) ==
    /\ e.epoch <= epoch
    /\ Even(e.epoch)
    /\ e.epoch = epoch => e.summary = db[p]

EntriesSound ==
    /\ \A p \in Paths : entryMap[p] \in Slots /\ cached[entryMap[p]] # NoOne
                           => Sound(cached[entryMap[p]], p)
    /\ \A r \in Readers : call[r].slot \in Slots /\ cached[call[r].slot] # NoOne
                           => Sound(cached[call[r].slot], call[r].path)

(* A load that no write section has overlapped so far read the committed   *)
(* state.                                                                  *)
LoadsSound == \A r \in Readers :
    /\ call[r].pc \in {"load", "after"} => call[r].epoch <= epoch
    /\ call[r].pc = "after" /\ call[r].epoch = epoch /\ Even(epoch)
          => call[r].summary = db[call[r].path]

(* What a call has in hand is no older than the commits before the call.   *)
FloorHeld == \A r \in Readers :
    /\ call[r].pc # "idle" => call[r].floor <= db[call[r].path]
    /\ call[r].pc \in {"exists", "after", "hit", "ok"} => call[r].floor <= call[r].summary

(* A wallet that was deleted and then evicted has a slot, if any, that     *)
(* only calls made since then can see, and nothing can fill it: the file   *)
(* is not a wallet any more.                                               *)
EvictedSlotsEmpty == \A p \in evicted :
    /\ file[p] # "live"
    /\ entryMap[p] \in Slots =>
          /\ cached[entryMap[p]] = NoOne
          /\ \A r \in Readers : call[r].slot = entryMap[p] => r \in late

LateCallsEmpty == \A r \in late :
    /\ call[r].pc \in {"lock", "check", "before", "load", "err"}
    /\ call[r].path \in evicted
    /\ cached[call[r].slot] = NoOne
    /\ \A t \in Readers : call[t].slot = call[r].slot => t \in late

FreshInv ==
    /\ TypeOK
    /\ EpochParity
    /\ CallShape
    /\ OneKeyPerSlot
    /\ EntriesSound
    /\ LoadsSound
    /\ FloorHeld

-----------------------------------------------------------------------------

LEMMA ParityFlips == \A n \in Nat : Even(n + 1) <=> ~Even(n)
BY DEF Even

(* A thread's call stays well formed when one step rewrites it.            *)
LEMMA CallUpdate ==
    ASSUME NEW r \in Readers, TypeOK, CallShape, NEW c,
           c \in Call, c.pc = "idle" => c = IdleCall,
           c.pc # "idle" => c.path \in Paths /\ c.slot \in Slots,
           call' = [call EXCEPT ![r] = c]
    PROVE  call' \in [Readers -> Call] /\ CallShape'
BY DEF TypeOK, CallShape

LEMMA TypeInit == Init => TypeOK /\ CallShape
BY CacheAssumption DEF Init, TypeOK, CallShape, IdleCall, Call, PCs

LEMMA TypeStep == TypeOK /\ CallShape /\ [Next]_vars => TypeOK' /\ CallShape'
<1> SUFFICES ASSUME TypeOK, CallShape, [Next]_vars PROVE TypeOK' /\ CallShape'
    OBVIOUS
<1> USE DEF dbVars, slotVars, history
<1>1. CASE \E p \in Paths : BeginWrite(p) \/ EvictDb(p) \/ DeleteDb(p)
    BY <1>1 DEF BeginWrite, EvictDb, DeleteDb, TypeOK, CallShape
<1>2. CASE Commit
    BY <1>2 DEF Commit, TypeOK, CallShape
<1>3. CASE EndWrite
    BY <1>3 DEF EndWrite, TypeOK, CallShape
<1>4. ASSUME NEW r \in Readers, NEW p \in Paths, SlotFor(r, p) PROVE TypeOK' /\ CallShape'
    <2>1. PICK s \in Slots :
            /\ entryMap' = [entryMap EXCEPT ![p] = s]
            /\ cached' = cached \/ cached' = [cached EXCEPT ![s] = NoOne]
            /\ call' = [call EXCEPT ![r] =
                  [IdleCall EXCEPT !.pc = "lock", !.path = p, !.slot = s, !.floor = db[p]]]
        BY <1>4 DEF SlotFor, TypeOK
    <2> DEFINE c == [IdleCall EXCEPT !.pc = "lock", !.path = p, !.slot = s, !.floor = db[p]]
    <2>2. c \in Call /\ c.pc = "lock" /\ c.path = p /\ c.slot = s
        BY DEF IdleCall, Call, PCs, TypeOK
    <2>3. call' \in [Readers -> Call] /\ CallShape'
        BY <2>1, <2>2, CallUpdate
    <2> QED
        BY <1>4, <2>1, <2>3 DEF SlotFor, TypeOK
<1>5. ASSUME NEW r \in Readers, ReaderStep(r) PROVE TypeOK' /\ CallShape'
    <2> USE DEF PCs, Entry
    <2> call[r] \in Call
        BY DEF TypeOK
    <2>1. CASE LockSlot(r)
        <3>1. call' \in [Readers -> Call] /\ CallShape'
            BY <2>1, CallUpdate DEF LockSlot, Call, CallShape
        <3> QED
            BY <2>1, <3>1 DEF LockSlot, TypeOK
    <2>2. CASE CheckEpoch(r)
        <3>1. call' \in [Readers -> Call] /\ CallShape'
            BY <2>2, CallUpdate DEF CheckEpoch, Call, CallShape, TypeOK
        <3> QED
            BY <2>2, <3>1 DEF CheckEpoch, TypeOK
    <2>3. CASE CheckExists(r)
        <3>1. call' \in [Readers -> Call] /\ CallShape'
            BY <2>3, CallUpdate DEF CheckExists, Call, CallShape
        <3> QED
            BY <2>3, <3>1 DEF CheckExists, TypeOK
    <2>4. CASE ReadEpochBefore(r)
        <3>1. call' \in [Readers -> Call] /\ CallShape'
            BY <2>4, CallUpdate DEF ReadEpochBefore, Call, CallShape, TypeOK
        <3> QED
            BY <2>4, <3>1 DEF ReadEpochBefore, TypeOK
    <2>5. CASE LoadOk(r)
        <3>1. call' \in [Readers -> Call] /\ CallShape'
            BY <2>5, CallUpdate DEF LoadOk, Call, CallShape, TypeOK
        <3> QED
            BY <2>5, <3>1 DEF LoadOk, TypeOK
    <2>6. CASE LoadErr(r)
        <3>1. call' \in [Readers -> Call] /\ CallShape'
            BY <2>6, CallUpdate DEF LoadErr, Call, CallShape
        <3> QED
            BY <2>6, <3>1 DEF LoadErr, TypeOK
    <2>7. CASE Publish(r)
        <3>1. call' \in [Readers -> Call] /\ CallShape'
            BY <2>7, CallUpdate DEF Publish, Call, CallShape
        <3> QED
            BY <2>7, <3>1 DEF Publish, TypeOK, Call
    <2>8. CASE Return(r)
        <3>1. call' \in [Readers -> Call] /\ CallShape'
            BY <2>8, CallUpdate DEF Return, Call, CallShape, IdleCall
        <3> QED
            BY <2>8, <3>1 DEF Return, TypeOK
    <2> QED
        BY <1>5, <2>1, <2>2, <2>3, <2>4, <2>5, <2>6, <2>7, <2>8 DEF ReaderStep
<1>6. CASE UNCHANGED vars
    BY <1>6 DEF vars, TypeOK, CallShape
<1> QED
    BY <1>1, <1>2, <1>3, <1>4, <1>5, <1>6 DEF Next

LEMMA FreshInit == Init => FreshInv
<1> SUFFICES ASSUME Init PROVE FreshInv
    OBVIOUS
<1>1. TypeOK /\ CallShape
    BY TypeInit
<1>2. EpochParity
    BY DEF Init, EpochParity, Even
<1>3. OneKeyPerSlot /\ EntriesSound /\ LoadsSound /\ FloorHeld
    BY CacheAssumption DEF Init, OneKeyPerSlot, EntriesSound, LoadsSound, FloorHeld, IdleCall
<1> QED
    BY <1>1, <1>2, <1>3 DEF FreshInv

LEMMA FreshStep == FreshInv /\ [Next]_vars => FreshInv'
<1> SUFFICES ASSUME FreshInv, [Next]_vars PROVE FreshInv'
    OBVIOUS
<1>t. TypeOK' /\ CallShape'
    BY TypeStep DEF FreshInv
<1> DEFINE Rest == EpochParity /\ OneKeyPerSlot /\ EntriesSound /\ LoadsSound /\ FloorHeld
<1> USE DEF dbVars, slotVars, history
<1> TypeOK /\ CallShape /\ Rest
    BY DEF FreshInv
<1> SUFFICES Rest'
    BY <1>t DEF FreshInv
<1>1. ASSUME NEW p \in Paths, BeginWrite(p) PROVE Rest'
    <2>1. EpochParity'
        BY <1>1, ParityFlips, CacheAssumption DEF BeginWrite, EpochParity, TypeOK
    <2>2. EntriesSound'
        BY <1>1 DEF BeginWrite, EntriesSound, Sound, TypeOK, Entry
    <2>3. LoadsSound'
        BY <1>1 DEF BeginWrite, LoadsSound, TypeOK, Call
    <2>4. OneKeyPerSlot' /\ FloorHeld'
        BY <1>1 DEF BeginWrite, OneKeyPerSlot, FloorHeld
    <2> QED
        BY <2>1, <2>2, <2>3, <2>4
<1>2. CASE Commit
    <2>1. EpochParity' /\ OneKeyPerSlot'
        BY <1>2 DEF Commit, EpochParity, OneKeyPerSlot
    <2>2. ~Even(epoch) /\ epoch' = epoch
        BY <1>2 DEF Commit, EpochParity
    <2>3. EntriesSound' /\ LoadsSound'
        BY <1>2, <2>2 DEF Commit, EntriesSound, Sound, LoadsSound
    <2>4. FloorHeld'
        BY <1>2 DEF Commit, FloorHeld, CallShape, TypeOK, Call
    <2> QED
        BY <2>1, <2>3, <2>4
<1>3. CASE EndWrite
    <2>1. EpochParity'
        BY <1>3, ParityFlips DEF EndWrite, EpochParity, TypeOK
    <2>2. EntriesSound'
        BY <1>3 DEF EndWrite, EntriesSound, Sound, TypeOK, Entry
    <2>3. LoadsSound'
        BY <1>3 DEF EndWrite, LoadsSound, TypeOK, Call
    <2>4. OneKeyPerSlot' /\ FloorHeld'
        BY <1>3 DEF EndWrite, OneKeyPerSlot, FloorHeld
    <2> QED
        BY <2>1, <2>2, <2>3, <2>4
<1>4. ASSUME NEW p \in Paths, EvictDb(p) PROVE Rest'
    BY <1>4, CacheAssumption DEF EvictDb, EpochParity, OneKeyPerSlot, EntriesSound, Sound,
        LoadsSound, FloorHeld, TypeOK
<1>5. ASSUME NEW p \in Paths, DeleteDb(p) PROVE Rest'
    BY <1>5 DEF DeleteDb, EpochParity, OneKeyPerSlot, EntriesSound, Sound, LoadsSound, FloorHeld
<1>6. ASSUME NEW r \in Readers, NEW p \in Paths, SlotFor(r, p) PROVE Rest'
    <2>1. PICK s \in Slots :
            /\ \/ entryMap[p] = s /\ UNCHANGED <<entryMap, cached>>
               \/ /\ entryMap[p] = NoOne
                  /\ Unreferenced(s)
                  /\ entryMap' = [entryMap EXCEPT ![p] = s]
                  /\ cached' = [cached EXCEPT ![s] = NoOne]
            /\ call' = [call EXCEPT ![r] =
                  [IdleCall EXCEPT !.pc = "lock", !.path = p, !.slot = s, !.floor = db[p]]]
        BY <1>6 DEF SlotFor
    <2>2. /\ call'[r].pc = "lock" /\ call'[r].path = p
          /\ call'[r].slot = s /\ call'[r].floor = db[p]
          /\ \A t \in Readers \ {r} : call'[t] = call[t]
        BY <2>1 DEF TypeOK, IdleCall
    <2>3. UNCHANGED <<epoch, writing, db>>
        BY <1>6 DEF SlotFor
    <2>4. EpochParity' /\ LoadsSound' /\ FloorHeld'
        BY <2>2, <2>3 DEF EpochParity, LoadsSound, FloorHeld, TypeOK, Call
    <2>5. OneKeyPerSlot'
        BY <2>1, <2>2, CacheAssumption DEF OneKeyPerSlot, Unreferenced, TypeOK
    <2>6. EntriesSound'
        BY <2>1, <2>2, <2>3, CacheAssumption DEF EntriesSound, Sound, Unreferenced, TypeOK
    <2> QED
        BY <2>4, <2>5, <2>6
<1>7. ASSUME NEW r \in Readers, ReaderStep(r) PROVE Rest'
    <2>1. CASE LockSlot(r)
        BY <2>1 DEF LockSlot, EpochParity, OneKeyPerSlot, EntriesSound, Sound, LoadsSound,
            FloorHeld, TypeOK, Call
    <2>2. CASE CheckEpoch(r)
        BY <2>2 DEF CheckEpoch, EpochParity, OneKeyPerSlot, EntriesSound, Sound, LoadsSound,
            FloorHeld, CallShape, TypeOK, Call
    <2>3. CASE CheckExists(r)
        <3>1. /\ call'[r].pc \in {"hit", "before"} /\ UNCHANGED <<epoch, writing, db, entryMap>>
              /\ \A t \in Readers : /\ call'[t].slot = call[t].slot
                                    /\ call'[t].path = call[t].path
                                    /\ call'[t].summary = call[t].summary
                                    /\ call'[t].floor = call[t].floor
              /\ \A t \in Readers \ {r} : call'[t] = call[t]
              /\ \A q \in Slots : cached'[q] = cached[q] \/ cached'[q] = NoOne
            BY <2>3 DEF CheckExists, TypeOK, Call
        <3>2. EpochParity' /\ OneKeyPerSlot' /\ EntriesSound'
            BY <3>1 DEF EpochParity, OneKeyPerSlot, EntriesSound, Sound
        <3>3. LoadsSound' /\ FloorHeld'
            BY <2>3, <3>1 DEF CheckExists, LoadsSound, FloorHeld
        <3> QED
            BY <3>2, <3>3
    <2>4. CASE ReadEpochBefore(r)
        BY <2>4 DEF ReadEpochBefore, EpochParity, OneKeyPerSlot, EntriesSound, Sound, LoadsSound,
            FloorHeld, TypeOK, Call
    <2>5. CASE LoadOk(r)
        BY <2>5 DEF LoadOk, EpochParity, OneKeyPerSlot, EntriesSound, Sound, LoadsSound,
            FloorHeld, CallShape, TypeOK, Call
    <2>6. CASE LoadErr(r)
        BY <2>6 DEF LoadErr, EpochParity, OneKeyPerSlot, EntriesSound, Sound, LoadsSound,
            FloorHeld, TypeOK, Call
    <2>7. CASE Publish(r)
        <3> DEFINE s == call[r].slot
        <3>1. /\ call'[r].pc = "ok" /\ UNCHANGED <<epoch, writing, db, entryMap>>
              /\ \A t \in Readers : /\ call'[t].slot = call[t].slot
                                    /\ call'[t].path = call[t].path
              /\ \A t \in Readers \ {r} : call'[t] = call[t]
              /\ call'[r].summary = call[r].summary /\ call'[r].floor = call[r].floor
              /\ s \in Slots
            BY <2>7 DEF Publish, TypeOK, Call, CallShape
        <3>2. /\ \A q \in Slots \ {s} : cached'[q] = cached[q]
              /\ cached'[s] # NoOne =>
                   Sound(cached'[s], call[r].path)
            BY <2>7, <3>1 DEF Publish, TypeOK, LoadsSound, Sound
        <3>3. EpochParity' /\ OneKeyPerSlot' /\ LoadsSound' /\ FloorHeld'
            BY <2>7, <3>1 DEF Publish, EpochParity, OneKeyPerSlot, LoadsSound, FloorHeld, TypeOK
        <3>4. EntriesSound'
            BY <3>1, <3>2 DEF EntriesSound, Sound, OneKeyPerSlot
        <3> QED
            BY <3>3, <3>4
    <2>8. CASE Return(r)
        BY <2>8, CacheAssumption DEF Return, EpochParity, OneKeyPerSlot, EntriesSound, Sound,
            LoadsSound, FloorHeld, TypeOK, IdleCall
    <2> QED
        BY <1>7, <2>1, <2>2, <2>3, <2>4, <2>5, <2>6, <2>7, <2>8 DEF ReaderStep
<1>8. CASE UNCHANGED vars
    BY <1>8 DEF vars, EpochParity, OneKeyPerSlot, EntriesSound, Sound, LoadsSound, FloorHeld
<1> QED
    BY <1>1, <1>2, <1>3, <1>4, <1>5, <1>6, <1>7, <1>8 DEF Next

(* Every variable keeps its type: every cached entry carries an epoch and  *)
(* a summary, and every slot mutex has at most one holder.                 *)
THEOREM TypeCorrect == Spec => []TypeOK
<1>1. FreshInv => TypeOK
    BY DEF FreshInv
<1> QED
    BY <1>1, FreshInit, FreshStep, PTL DEF Spec

(* get_wallet_summary_cached never returns balances older than the last    *)
(* commit before the call, however write sections, evictions and deletions *)
(* interleave with it.                                                     *)
THEOREM SummariesAreFresh == Spec => []FreshSummary
<1>1. FreshInv => FreshSummary
    BY DEF FreshInv, FloorHeld, FreshSummary, Returning, TypeOK, Call
<1> QED
    BY <1>1, FreshInit, FreshStep, PTL DEF Spec

-----------------------------------------------------------------------------
Gone == EvictedSlotsEmpty /\ LateCallsEmpty

LEMMA GoneStep == FreshInv /\ Gone /\ [Next]_vars => Gone'
<1> SUFFICES ASSUME FreshInv, Gone, [Next]_vars PROVE Gone'
    OBVIOUS
<1> USE DEF dbVars, slotVars, history
<1> TypeOK /\ CallShape /\ OneKeyPerSlot
    BY DEF FreshInv
<1>1. ASSUME NEW p \in Paths, BeginWrite(p) \/ DeleteDb(p) PROVE Gone'
    BY <1>1 DEF BeginWrite, DeleteDb, Gone, EvictedSlotsEmpty, LateCallsEmpty, TypeOK
<1>2. CASE Commit \/ EndWrite
    BY <1>2 DEF Commit, EndWrite, Gone, EvictedSlotsEmpty, LateCallsEmpty
<1>3. ASSUME NEW p \in Paths, EvictDb(p) PROVE Gone'
    BY <1>3, CacheAssumption DEF EvictDb, Gone, EvictedSlotsEmpty, LateCallsEmpty, TypeOK
<1>4. ASSUME NEW r \in Readers, NEW p \in Paths, SlotFor(r, p) PROVE Gone'
    <2>1. PICK s \in Slots :
            /\ \/ entryMap[p] = s /\ UNCHANGED <<entryMap, cached>>
               \/ /\ entryMap[p] = NoOne
                  /\ Unreferenced(s)
                  /\ entryMap' = [entryMap EXCEPT ![p] = s]
                  /\ cached' = [cached EXCEPT ![s] = NoOne]
            /\ call' = [call EXCEPT ![r] =
                  [IdleCall EXCEPT !.pc = "lock", !.path = p, !.slot = s, !.floor = db[p]]]
        BY <1>4 DEF SlotFor
    <2>2. /\ call[r] = IdleCall /\ UNCHANGED <<file, evicted>>
          /\ late' = IF p \in evicted THEN late \cup {r} ELSE late
        BY <1>4 DEF SlotFor, CallShape
    <2>3. /\ call'[r].pc = "lock" /\ call'[r].path = p /\ call'[r].slot = s
          /\ \A t \in Readers \ {r} : call'[t] = call[t]
          /\ r \notin late
        BY <2>1, <2>2 DEF TypeOK, IdleCall, Gone, LateCallsEmpty
    <2>4. EvictedSlotsEmpty'
        BY <2>1, <2>2, <2>3, CacheAssumption
        DEF EvictedSlotsEmpty, Gone, OneKeyPerSlot, Unreferenced, TypeOK
    <2>5. LateCallsEmpty'
        BY <2>1, <2>2, <2>3, CacheAssumption
        DEF EvictedSlotsEmpty, LateCallsEmpty, Gone, OneKeyPerSlot, CallShape, Unreferenced, TypeOK
    <2> QED
        BY <2>4, <2>5 DEF Gone
<1>5. ASSUME NEW r \in Readers, ReaderStep(r) PROVE Gone'
    <2>1. CASE LockSlot(r)
        BY <2>1 DEF LockSlot, Gone, EvictedSlotsEmpty, LateCallsEmpty, TypeOK, Call
    <2>2. CASE CheckEpoch(r)
        <3>1. /\ call'[r].pc \in {"exists", "before"} /\ UNCHANGED <<file, entryMap, evicted, late>>
              /\ \A t \in Readers : /\ call'[t].slot = call[t].slot
                                    /\ call'[t].path = call[t].path
              /\ \A t \in Readers \ {r} : call'[t] = call[t]
              /\ \A q \in Slots : cached'[q] = cached[q] \/ cached'[q] = NoOne
            BY <2>2 DEF CheckEpoch, TypeOK, Call
        <3>2. r \in late => call'[r].pc = "before"
            BY <2>2 DEF CheckEpoch, Gone, LateCallsEmpty, TypeOK, Call
        <3>3. \A t \in late : call[t].slot \in Slots
            BY DEF CallShape, Gone, LateCallsEmpty, TypeOK
        <3> QED
            BY <3>1, <3>2, <3>3 DEF Gone, EvictedSlotsEmpty, LateCallsEmpty, TypeOK
    <2>3. CASE CheckExists(r)
        <3>1. /\ call'[r].pc \in {"hit", "before"} /\ UNCHANGED <<file, entryMap, evicted, late>>
              /\ \A t \in Readers : /\ call'[t].slot = call[t].slot
                                    /\ call'[t].path = call[t].path
              /\ \A t \in Readers \ {r} : call'[t] = call[t]
              /\ \A q \in Slots : cached'[q] = cached[q] \/ cached'[q] = NoOne
            BY <2>3 DEF CheckExists, TypeOK, Call
        <3>2. r \in late => call'[r].pc = "before"
            BY <2>3, <3>1 DEF CheckExists, Gone, LateCallsEmpty, TypeOK
        <3>3. \A t \in late : call[t].slot \in Slots
            BY DEF CallShape, Gone, LateCallsEmpty, TypeOK
        <3> QED
            BY <3>1, <3>2, <3>3 DEF Gone, EvictedSlotsEmpty, LateCallsEmpty, TypeOK
    <2>4. CASE ReadEpochBefore(r)
        BY <2>4 DEF ReadEpochBefore, Gone, EvictedSlotsEmpty, LateCallsEmpty, TypeOK, Call
    <2>5. CASE LoadOk(r)
        BY <2>5 DEF LoadOk, Gone, EvictedSlotsEmpty, LateCallsEmpty, TypeOK, Call
    <2>6. CASE LoadErr(r)
        BY <2>6 DEF LoadErr, Gone, EvictedSlotsEmpty, LateCallsEmpty, TypeOK, Call
    <2>7. CASE Publish(r)
        BY <2>7 DEF Publish, Gone, EvictedSlotsEmpty, LateCallsEmpty, TypeOK, Call, CallShape
    <2>8. CASE Return(r)
        <3>1. /\ call'[r] = IdleCall /\ late' = late \ {r}
              /\ UNCHANGED <<file, entryMap, cached, evicted>>
              /\ \A t \in Readers \ {r} : call'[t] = call[t]
            BY <2>8 DEF Return, TypeOK
        <3>2. \A t \in late : call[t].slot \in Slots
            BY DEF CallShape, Gone, LateCallsEmpty, TypeOK
        <3> QED
            BY <3>1, <3>2, CacheAssumption DEF Gone, EvictedSlotsEmpty, LateCallsEmpty, TypeOK, IdleCall
    <2> QED
        BY <1>5, <2>1, <2>2, <2>3, <2>4, <2>5, <2>6, <2>7, <2>8 DEF ReaderStep
<1>6. CASE UNCHANGED vars
    BY <1>6 DEF vars, Gone, EvictedSlotsEmpty, LateCallsEmpty
<1> QED
    BY <1>1, <1>2, <1>3, <1>4, <1>5, <1>6 DEF Next

(* Once resetWallet has deleted a wallet and evicted it, the cache holds   *)
(* nothing of it and no later call returns its balances, even while slow   *)
(* readers still hold the old slot.                                        *)
THEOREM EvictionIsFinal == Spec => []EvictedStaysGone
<1>1. Init => Gone
    BY DEF Init, Gone, EvictedSlotsEmpty, LateCallsEmpty
<1>2. FreshInv /\ Gone => EvictedStaysGone
    BY DEF Gone, EvictedSlotsEmpty, LateCallsEmpty, EvictedStaysGone, Returning, FreshInv, TypeOK
<1> QED
    BY <1>1, <1>2, FreshInit, FreshStep, GoneStep, PTL DEF Spec
=============================================================================
