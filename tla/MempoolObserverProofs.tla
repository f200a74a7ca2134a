------------------------ MODULE MempoolObserverProofs ------------------------
(***************************************************************************)
(* Proof that the observer names to the app only accounts whose row is     *)
(* committed.  Three facts carry it: the rows' accounts and the wallet's   *)
(* keys only ever grow; what Lookup read is therefore still in the row     *)
(* when KnownTx names it; and what Decrypt found under the keys of its     *)
(* moment is still found under the keys with which StoreInbound stores.    *)
(* The lengths of the caches are left to TLC: PruneExpired is a filter,    *)
(* about which nothing is proved without induction over its argument.      *)
(***************************************************************************)
EXTENDS MempoolObserver, TLAPS

Handling == {"lookup", "known", "unknown", "store"}
RowStates == {"absent", "unmined", "mined"}

\* What the observer and the world hold, the caches aside.
TypeInv ==
    /\ pc \in {"open", "tip", "start", "read", "sleep", "done"} \union Handling
    /\ cur \in [tx : Txs \union {"none"}, known : SUBSET Accounts, found : SUBSET Accounts]
    /\ mempool \subseteq Txs /\ stream \subseteq Txs
    /\ keys \subseteq Accounts
    /\ rows \in [Txs -> [state : RowStates, accounts : SUBSET Accounts]]
    /\ told \in [Txs -> SUBSET (Accounts \union {"wallet"})]

\* What was found out about the transaction being handled still holds of the
\* wallet as it is now.
CurInv ==
    /\ pc \in Handling => cur.tx \in Txs
    /\ pc = "known" => cur.known \subseteq rows[cur.tx].accounts
    /\ pc = "store" => cur.found \subseteq Found(cur.tx)

IInv == TypeInv /\ CurInv /\ ToldIsStored

-----------------------------------------------------------------------------
\* A stored transaction's row keeps its accounts and gains the decrypted ones;
\* no other row changes.
LEMMA StoredRows ==
    ASSUME TypeInv, NEW t \in Txs
    PROVE  /\ Stored(t) \in [Txs -> [state : RowStates, accounts : SUBSET Accounts]]
           /\ Stored(t)[t].accounts = rows[t].accounts \union Found(t)
           /\ \A u \in Txs : rows[u].accounts \subseteq Stored(t)[u].accounts
<1>1. Found(t) \subseteq Accounts
  BY ObserverAssumption DEF Found, TypeInv
<1> QED
  BY <1>1 DEF Stored, TypeInv, RowStates

\* Emit names accounts that the row the step leaves behind holds.
LEMMA EmitKeeps ==
    ASSUME IInv, pc \in Handling,
           NEW as \in SUBSET Accounts, Emit(cur.tx, as),
           rows' \in [Txs -> [state : RowStates, accounts : SUBSET Accounts]],
           \A u \in Txs : rows[u].accounts \subseteq rows'[u].accounts,
           as \subseteq rows'[cur.tx].accounts
    PROVE  IInv'
<1> USE DEF IInv, Emit, Skip
<1>1. cur.tx \in Txs
  BY DEF CurInv
<1>2. TypeInv'
  BY <1>1 DEF TypeInv, Handling, None
<1>3. CurInv'
  BY DEF CurInv, Handling
<1>4. ToldIsStored'
  BY <1>1 DEF ToldIsStored, TypeInv
<1> QED
  BY <1>2, <1>3, <1>4

\* A transaction that is let go leaves rows and news as they are.
LEMMA SkipKeeps ==
    ASSUME IInv, Skip, UNCHANGED <<rows, told>>
    PROVE  IInv'
BY DEF IInv, Skip, TypeInv, CurInv, ToldIsStored, Handling, None

\* The steps of the loop change only where it is and what the stream holds.
LEMMA LoopKeeps ==
    ASSUME IInv, pc' \in {"open", "tip", "start", "read", "sleep", "done"},
           UNCHANGED <<cur, mempool, rows, told, keys>>, stream' \subseteq Txs
    PROVE  IInv'
BY DEF IInv, TypeInv, CurInv, ToldIsStored, Handling

-----------------------------------------------------------------------------
LEMMA InitInv ==
    ASSUME Init
    PROVE  IInv
BY DEF Init, IInv, TypeInv, CurInv, ToldIsStored, Handling, RowStates, None, NoRow

LEMMA LoopSteps ==
    ASSUME IInv,
           OpenChannel \/ RefreshTip \/ StartStream \/ Unparsed \/ StreamEof
           \/ StreamError \/ Wake \/ Stops
    PROVE  IInv'
<1>0. stream \subseteq Txs /\ mempool \subseteq Txs
  BY DEF IInv, TypeInv
<1> USE <1>0 DEF Reaches, Fails
<1>1. CASE OpenChannel
  BY <1>1, LoopKeeps DEF OpenChannel
<1>2. CASE RefreshTip
  BY <1>2, LoopKeeps DEF RefreshTip
<1>3. CASE StartStream
  BY <1>3, LoopKeeps DEF StartStream
<1>4. CASE Unparsed
  BY <1>4, LoopKeeps DEF Unparsed, loop
<1>5. CASE StreamEof
  BY <1>5, LoopKeeps DEF StreamEof
<1>6. CASE StreamError
  BY <1>6, LoopKeeps DEF StreamError
<1>7. CASE Wake
  BY <1>7, LoopKeeps DEF Wake
<1>8. CASE Stops
  BY <1>8, LoopKeeps DEF Stops
<1> QED
  BY <1>1, <1>2, <1>3, <1>4, <1>5, <1>6, <1>7, <1>8

LEMMA MessageStep ==
    ASSUME IInv, Message
    PROVE  IInv'
<1>1. PICK t \in stream :
        /\ stream' = stream \ {t}
        /\ IF t \in Range(seen)
             THEN UNCHANGED <<pc, cur, keys>>
             ELSE pc' = "lookup" /\ cur' = [None EXCEPT !.tx = t]
  BY DEF Message
<1>2. UNCHANGED <<mempool, rows, told, keys>> /\ pc = "read"
  BY DEF Message
<1>3. CASE t \in Range(seen)
  BY <1>1, <1>2, <1>3, LoopKeeps DEF IInv, TypeInv
<1>4. CASE t \notin Range(seen)
  <2>1. t \in Txs
    BY <1>1 DEF IInv, TypeInv
  <2>2. cur' = [tx |-> t, known |-> {}, found |-> {}] /\ pc' = "lookup"
    BY <1>1, <1>4 DEF None
  <2> QED
    BY <1>1, <1>2, <2>1, <2>2 DEF IInv, TypeInv, CurInv, ToldIsStored, Handling
<1> QED
  BY <1>3, <1>4

LEMMA LookupStep ==
    ASSUME IInv, Lookup
    PROVE  IInv'
<1>1. cur.tx \in Txs /\ pc = "lookup"
  BY DEF IInv, CurInv, Lookup, Handling
<1>2. UNCHANGED <<mempool, stream, rows, told, keys>>
  BY DEF Lookup
<1>3. CASE rows[cur.tx].state = "unmined"
  <2>1. pc' = "known" /\ cur' = [cur EXCEPT !.known = rows[cur.tx].accounts]
    BY <1>3 DEF Lookup
  <2> QED
    BY <1>1, <1>2, <2>1 DEF IInv, TypeInv, CurInv, ToldIsStored, Handling
<1>4. CASE rows[cur.tx].state # "unmined"
  <2>1. pc' = "unknown" /\ cur' = cur
    BY <1>4 DEF Lookup
  <2> QED
    BY <1>1, <1>2, <2>1 DEF IInv, TypeInv, CurInv, ToldIsStored, Handling
<1> QED
  BY <1>3, <1>4

LEMMA KnownTxStep ==
    ASSUME IInv, KnownTx
    PROVE  IInv'
<1>1. cur.tx \in Txs /\ pc = "known" /\ cur.known \subseteq rows[cur.tx].accounts
  BY DEF IInv, CurInv, KnownTx, Handling
<1>2. Found(cur.tx) \subseteq Accounts
  BY <1>1, ObserverAssumption DEF Found
<1>3. TypeInv /\ cur.known \subseteq Accounts
  BY DEF IInv, TypeInv
<1>4. PICK found \in {{}, Found(cur.tx)} :
        IF HasNewAccount(cur.known, found)
          THEN \/ rows' = Stored(cur.tx) /\ Emit(cur.tx, cur.known \union found)
               \/ rows' = rows /\ Emit(cur.tx, cur.known)
          ELSE rows' = rows /\ Emit(cur.tx, cur.known)
  BY DEF KnownTx
<1>5. CASE rows' = rows /\ Emit(cur.tx, cur.known)
  <2>1. rows' \in [Txs -> [state : RowStates, accounts : SUBSET Accounts]]
    BY <1>3, <1>5 DEF TypeInv
  <2> QED
    BY <1>1, <1>3, <1>5, <2>1, EmitKeeps DEF Handling
<1>6. CASE rows' = Stored(cur.tx) /\ Emit(cur.tx, cur.known \union found)
  <2>1. /\ rows' \in [Txs -> [state : RowStates, accounts : SUBSET Accounts]]
        /\ rows'[cur.tx].accounts = rows[cur.tx].accounts \union Found(cur.tx)
        /\ \A u \in Txs : rows[u].accounts \subseteq rows'[u].accounts
    BY <1>1, <1>3, <1>6, StoredRows
  <2>2. cur.known \union found \subseteq rows'[cur.tx].accounts
    BY <1>1, <1>4, <2>1
  <2>3. cur.known \union found \in SUBSET Accounts
    BY <1>2, <1>3, <1>4
  <2> QED
    BY <1>1, <1>6, <2>1, <2>2, <2>3, EmitKeeps DEF Handling
<1> QED
  BY <1>4, <1>5, <1>6

LEMMA DecryptStep ==
    ASSUME IInv, Decrypt
    PROVE  IInv'
<1>1. cur.tx \in Txs /\ pc = "unknown"
  BY DEF IInv, CurInv, Decrypt, Handling
<1>2. UNCHANGED <<rows, told>>
  BY DEF Decrypt
<1>3. CASE Found(cur.tx) = {}
  BY <1>2, <1>3, SkipKeeps DEF Decrypt
<1>4. CASE Found(cur.tx) # {}
  <2>1. /\ pc' = "store" /\ cur' = [cur EXCEPT !.found = Found(cur.tx)]
        /\ UNCHANGED <<mempool, stream, keys>>
    BY <1>4 DEF Decrypt
  <2>2. Found(cur.tx) \subseteq Accounts
    BY <1>1, ObserverAssumption DEF Found
  <2>3. cur'.tx = cur.tx /\ cur'.found = Found(cur.tx)
    BY <2>1 DEF IInv, TypeInv
  <2> QED
    BY <1>1, <1>2, <2>1, <2>2, <2>3 DEF IInv, TypeInv, CurInv, ToldIsStored, Handling, Found
<1> QED
  BY <1>3, <1>4

LEMMA StoreInboundStep ==
    ASSUME IInv, StoreInbound
    PROVE  IInv'
<1>1. cur.tx \in Txs /\ pc = "store" /\ cur.found \subseteq Found(cur.tx)
  BY DEF IInv, CurInv, StoreInbound, Handling
<1>2. rows' = Stored(cur.tx) /\ Emit(cur.tx, cur.found) /\ cur.found \in SUBSET Accounts /\ TypeInv
  BY DEF StoreInbound, IInv, TypeInv
<1>3. /\ rows' \in [Txs -> [state : RowStates, accounts : SUBSET Accounts]]
      /\ rows'[cur.tx].accounts = rows[cur.tx].accounts \union Found(cur.tx)
      /\ \A u \in Txs : rows[u].accounts \subseteq rows'[u].accounts
  BY <1>1, <1>2, StoredRows
<1> QED
  BY <1>1, <1>2, <1>3, EmitKeeps DEF Handling

LEMMA DroppedSteps ==
    ASSUME IInv, LookupFails \/ RecentlyUnmatched \/ DecryptFails \/ StoreFails
    PROVE  IInv'
BY SkipKeeps DEF LookupFails, RecentlyUnmatched, DecryptFails, StoreFails

\* The rest of the world: keys and rows grow under the observer's hands.
LEMMA WorldKeeps ==
    ASSUME IInv, UNCHANGED <<pc, cur, stream, told>>,
           mempool' \subseteq Txs, keys' \subseteq Accounts, keys \subseteq keys',
           rows' \in [Txs -> [state : RowStates, accounts : SUBSET Accounts]],
           \A u \in Txs : rows[u].accounts \subseteq rows'[u].accounts
    PROVE  IInv'
<1>1. TypeInv'
  BY DEF IInv, TypeInv
<1>2. CurInv'
  BY DEF IInv, CurInv, Found, Handling
<1>3. ToldIsStored'
  BY DEF IInv, ToldIsStored
<1> QED
  BY <1>1, <1>2, <1>3 DEF IInv

LEMMA WorldSteps ==
    ASSUME IInv,
           \/ Stop \/ Tick
           \/ \E a \in Accounts : ImportAccount(a)
           \/ \E t \in Txs : WalletRecords(t) \/ EntersMempool(t) \/ MinedAndScanned(t)
    PROVE  IInv'
<1>0. /\ mempool \subseteq Txs /\ keys \subseteq Accounts
      /\ rows \in [Txs -> [state : RowStates, accounts : SUBSET Accounts]]
  BY DEF IInv, TypeInv
<1> USE <1>0 DEF loop
<1>1. CASE Stop
  BY <1>1, WorldKeeps DEF Stop
<1>2. CASE Tick
  BY <1>2, WorldKeeps DEF Tick
<1>3. ASSUME NEW a \in Accounts, ImportAccount(a)
      PROVE  IInv'
  BY <1>3, WorldKeeps DEF ImportAccount
<1>4. ASSUME NEW t \in Txs, WalletRecords(t)
      PROVE  IInv'
  <2>1. PICK a \in keys : rows' = [rows EXCEPT ![t] = [state |-> "unmined", accounts |-> {a}]]
    BY <1>4 DEF WalletRecords, Pending
  <2>2. rows[t].accounts = {}
    BY <1>4 DEF WalletRecords, NoRow
  <2>3. /\ rows' \in [Txs -> [state : RowStates, accounts : SUBSET Accounts]]
        /\ \A u \in Txs : rows[u].accounts \subseteq rows'[u].accounts
    BY <2>1, <2>2 DEF RowStates
  <2> QED
    BY <1>4, <2>3, WorldKeeps DEF WalletRecords
<1>5. ASSUME NEW t \in Txs, EntersMempool(t)
      PROVE  IInv'
  BY <1>5, WorldKeeps DEF EntersMempool
<1>6. ASSUME NEW t \in Txs, MinedAndScanned(t)
      PROVE  IInv'
  <2>1. Found(t) \subseteq Accounts
    BY ObserverAssumption DEF Found
  <2>2. rows' = [rows EXCEPT ![t] = [state |-> "mined", accounts |-> rows[t].accounts \union Found(t)]]
    BY <1>6 DEF MinedAndScanned
  <2>3. /\ rows' \in [Txs -> [state : RowStates, accounts : SUBSET Accounts]]
        /\ \A u \in Txs : rows[u].accounts \subseteq rows'[u].accounts
    BY <2>1, <2>2 DEF RowStates
  <2> QED
    BY <1>6, <2>3, WorldKeeps DEF MinedAndScanned
<1> QED
  BY <1>1, <1>2, <1>3, <1>4, <1>5, <1>6

LEMMA NextInv ==
    ASSUME IInv, [Next]_vars
    PROVE  IInv'
<1>1. CASE Message
  BY <1>1, MessageStep
<1>2. CASE Lookup
  BY <1>2, LookupStep
<1>3. CASE KnownTx
  BY <1>3, KnownTxStep
<1>4. CASE Decrypt
  BY <1>4, DecryptStep
<1>5. CASE StoreInbound
  BY <1>5, StoreInboundStep
<1>6. CASE Done \/ UNCHANGED vars
  BY <1>6 DEF Done, vars, IInv, TypeInv, CurInv, ToldIsStored, Found, loop
<1>7. CASE OpenChannel \/ RefreshTip \/ StartStream \/ Unparsed \/ StreamEof
           \/ StreamError \/ Wake \/ Stops
  BY <1>7, LoopSteps
<1>8. CASE LookupFails \/ RecentlyUnmatched \/ DecryptFails \/ StoreFails
  BY <1>8, DroppedSteps
<1>9. CASE \/ Stop \/ Tick
           \/ \E a \in Accounts : ImportAccount(a)
           \/ \E t \in Txs : WalletRecords(t) \/ EntersMempool(t) \/ MinedAndScanned(t)
  BY <1>9, WorldSteps
<1> QED
  BY <1>1, <1>2, <1>3, <1>4, <1>5, <1>6, <1>7, <1>8, <1>9 DEF Next

(* The app is told of an account only after the row naming that account is
   committed, for any number of transactions and accounts, whatever fails in
   between and whatever is imported, mined or stored meanwhile
   (mempool.rs handle_mempool_tx). *)
THEOREM NewsIsStored == Spec => []ToldIsStored
<1>1. Init => IInv
  BY InitInv
<1>2. IInv /\ [Next]_vars => IInv'
  BY NextInv
<1>3. IInv => ToldIsStored
  BY DEF IInv
<1> QED
  BY <1>1, <1>2, <1>3, PTL DEF Spec
=============================================================================
