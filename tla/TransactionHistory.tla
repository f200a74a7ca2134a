-------------------------- MODULE TransactionHistory --------------------------
(***************************************************************************)
(* The transaction list of an account (wallet/sync/transactions.rs): the   *)
(* rows read from the wallet database are summed up, the funding step of a *)
(* two-step transfer to a transparent-only address is folded into the send *)
(* it funded, and every transaction is classified into the lines shown.    *)
(*                                                                         *)
(* The account's transactions are made by the actions: sends, two-step     *)
(* sends, receipts, shielding, self transfers, and the wallet's own split  *)
(* and migration transactions.  A transaction's outputs carry what         *)
(* v_tx_outputs tells of them: the pool, whose they are and the receiver's *)
(* scope.                                                                  *)
(***************************************************************************)
EXTENDS Integers, Sequences, FiniteSets, FiniteSetsExt

CONSTANTS
    Amounts,   \* amounts a user sends or receives
    Kinds,     \* the kinds of transactions made
    Statuses,  \* "pending", "mined" and "expired", as far as they are told apart
    Fee,       \* the fee of every transaction
    MaxTxs,    \* bound: transactions of the account
    MaxTime    \* bound: seconds on the clock

VARIABLES
    txs,   \* the account's transactions by transaction id
    now    \* seconds

vars == <<txs, now>>

Ids == 1 .. Len(txs)

-----------------------------------------------------------------------------
(* What the database knows *)

\* An output: its number, its pool, whether the account paid and received it,
\* the scope of its receiver, whether a recipient was recorded.
Out(n, pool, from, to, scope, named, value) ==
    [n |-> n, pool |-> pool, from |-> from, to |-> to, scope |-> scope, named |-> named, value |-> value]

External(n, pool, v) == Out(n, pool, TRUE, FALSE, "none", TRUE, v)
Change(n, pool, v)   == Out(n, pool, TRUE, TRUE, "internal", FALSE, v)

Total(outs) == MapThenSumSet(LAMBDA o : o.value, outs)
Mine(outs)  == Total({o \in outs : o.to})

\* read_history_bases: sums over the account's own notes.
Tx(outs, spent, spentOrchard, shielding, status) ==
    [outs |-> {o \in outs : o.value > 0}, total_spent |-> spent, total_received |-> Mine(outs),
     delta |-> Mine(outs) - spent, fee |-> IF spent > 0 THEN Fee ELSE 0,
     created |-> IF spent > 0 THEN now ELSE 0, orchard |-> spentOrchard,
     shielding |-> shielding, status |-> status]

Init == txs = << >> /\ now = 1

Add(new) ==
    /\ Len(txs) + Len(new) <= MaxTxs
    /\ txs' = txs \o new
    /\ UNCHANGED now

Pools == {"orchard", "ironwood"}

\* A send to somebody else, with or without change; Orchard funds leave their
\* change in Ironwood.
Send(v, pool, from, rest, status) ==
    Add(<<Tx({External(1, pool, v), Change(2, "ironwood", rest)}, v + rest + Fee, from = "orchard", FALSE, status)>>)

\* A transfer to a transparent-only address: the funds go to an ephemeral
\* address of the account first.  The second step may not have been made.
SendTex(v, rest, both, status) ==
    LET held == v + Fee
        fund == Tx({Out(1, "transparent", TRUE, TRUE, "ephemeral", FALSE, held), Change(2, "ironwood", rest)},
                   held + rest + Fee, FALSE, FALSE, status)
        pay  == Tx({External(1, "transparent", v)}, held, FALSE, FALSE, status)
    IN  Add(IF both THEN <<fund, pay>> ELSE <<fund>>)

Receive(v, pool, status) ==
    Add(<<Tx({Out(1, pool, FALSE, TRUE, "external", FALSE, v)}, 0, FALSE, FALSE, status)>>)

Shield(v, status) ==
    Add(<<Tx({Change(1, "ironwood", v)}, v + Fee, FALSE, TRUE, status)>>)

\* To an address of the same account.
SendSelf(v, rest, status) ==
    Add(<<Tx({Out(1, "ironwood", TRUE, TRUE, "external", TRUE, v), Change(2, "ironwood", rest)},
             v + rest + Fee, FALSE, FALSE, status)>>)

\* Denomination splits stay in Orchard, migrations go to Ironwood.
Split(v, status) ==
    Add(<<Tx({Change(1, "orchard", v), Change(2, "orchard", v)}, v + v + Fee, TRUE, FALSE, status)>>)

Migrate(v, status) ==
    Add(<<Tx({Change(1, "ironwood", v)}, v + Fee, TRUE, FALSE, status)>>)

Tick == now < MaxTime /\ now' = now + 1 /\ UNCHANGED txs

Rest == Amounts \union {0}

Next ==
    \/ \E v \in Amounts, s \in Statuses :
        \/ "send" \in Kinds /\ \E p \in Pools, f \in Pools, r \in Rest : Send(v, p, f, r, s)
        \/ "transparent" \in Kinds /\ \E r \in Rest : Send(v, "transparent", "ironwood", r, s)
        \/ "tex" \in Kinds /\ \E r \in Rest, b \in BOOLEAN : SendTex(v, r, b, s)
        \/ "receive" \in Kinds /\ \E p \in {"ironwood", "transparent"} : Receive(v, p, s)
        \/ "own" \in Kinds /\ (Shield(v, s) \/ Split(v, s) \/ Migrate(v, s) \/ \E r \in Rest : SendSelf(v, r, s))
    \/ Tick

Spec == Init /\ [][Next]_vars

-----------------------------------------------------------------------------
(* The classification *)

\* Internal and ephemeral receivers are mechanics; a shielded output with a
\* recorded recipient was meant.
IsUserVisibleSelfOutput(o) ==
    IF o.pool = "transparent" THEN o.scope = "external" ELSE o.scope = "external" \/ o.named

\* The outputs summarize_activity_outputs counts under each heading.
Shielded(t) == {o \in t.outs : t.shielding /\ o.to /\ o.pool # "transparent"}

Transition(t) == {o \in t.outs : ~t.shielding /\ o.from /\ o.to /\ t.orchard /\ o.pool = "ironwood"}

Counted(t) == IF t.shielding THEN {} ELSE t.outs \ Transition(t)

Sent(t) == {o \in Counted(t) : o.from /\ (~o.to \/ IsUserVisibleSelfOutput(o))}

Received(t) == {o \in Counted(t) : o.to /\ (~o.from \/ IsUserVisibleSelfOutput(o))}

OwnTransparent(t) == {o \in Counted(t) : o.pool = "transparent" /\ o.from /\ o.to}

HasExternalTransparentSend(t) == \E o \in Sent(t) : o.pool = "transparent" /\ ~o.to

\* Both keys name the second of the two steps: when they were made and what
\* the step spends.  (The code's keys hold the expiry height too, which is the
\* same for every transaction here.)
ExternalSendKey(t) ==
    IF HasExternalTransparentSend(t) /\ t.total_spent > 0 THEN {<<t.created, t.total_spent>>} ELSE {}

FundingStepKey(t) ==
    IF OwnTransparent(t) # {} THEN {<<t.created, Total(OwnTransparent(t))>>} ELSE {}

ShouldSuppressFundingStep(t) ==
    /\ ~t.shielding /\ t.total_spent > 0 /\ t.total_received > 0 /\ t.delta <= 0
    /\ Sent(t) = {} /\ Received(t) = {} /\ OwnTransparent(t) # {}
    /\ \E id \in Ids : FundingStepKey(t) \subseteq ExternalSendKey(txs[id])

\* faulty variant: a funding step may be matched with an earlier send
FaultyUnmatched(key, after, sends) == sends

\* The sends of a key that come after the funding step and the last match.
Unmatched(key, after, sends) == {s \in sends : s > after}

\* build_suppressed_funding_step_fees: the steps and the sends of a key are
\* walked in the order of their ids; a step takes the next later send.
Matches ==
    LET Steps(key) == {id \in Ids : ShouldSuppressFundingStep(txs[id]) /\ key \in FundingStepKey(txs[id])}
        Sends(key) == {id \in Ids : key \in ExternalSendKey(txs[id])}
        Walk[key \in UNION {FundingStepKey(txs[id]) : id \in Ids}, steps \in SUBSET Ids, last \in 0 .. Len(txs)] ==
            IF steps = {} THEN {}
            ELSE LET step == Min(steps)
                     open == Unmatched(key, Max({step, last}), Sends(key))
                 IN  IF open = {} THEN Walk[key, steps \ {step}, last]
                     ELSE {<<step, Min(open)>>} \union Walk[key, steps \ {step}, Min(open)]
    IN  UNION {Walk[key, Steps(key), 0] : key \in UNION {FundingStepKey(txs[id]) : id \in Ids}}

Line(id, kind, amount, fee) == [id |-> id, kind |-> kind, amount |-> amount, fee |-> fee]

ReceivingKind(t) == IF t.status = "pending" THEN "receiving" ELSE "received"

IsInternalTransition(t) ==
    ~t.shielding /\ t.orchard /\ t.total_spent > 0 /\ Transition(t) # {} /\ Sent(t) = {} /\ Received(t) = {}

\* What is said of a transaction none of whose outputs is a payment.
Fallback(id, t) ==
    IF t.status # "mined" /\ t.delta < 0 /\ t.total_spent > 0 /\ -t.delta > t.fee
    THEN {Line(id, "sent", -t.delta - t.fee, t.fee)}
    ELSE IF t.total_spent > 0 /\ t.total_received > 0 THEN {}
    ELSE IF t.delta > 0 THEN {Line(id, ReceivingKind(t), t.delta, t.fee)}
    ELSE {Line(id, "unknown", 0, t.fee)}

\* classify_history_tx.
Classify(id, t, extra) ==
    IF t.shielding
    THEN {Line(id, "shielded", IF Shielded(t) # {} THEN Total(Shielded(t)) ELSE t.total_received, t.fee)}
    ELSE IF IsInternalTransition(t)
    THEN {Line(id, "migration", Total(Transition(t)), t.fee)}
    ELSE LET sent     == IF Sent(t) = {} THEN {} ELSE {Line(id, "sent", Total(Sent(t)), t.fee + extra)}
             received == IF Received(t) = {} THEN {} ELSE {Line(id, ReceivingKind(t), Total(Received(t)), t.fee)}
         IN  IF sent \union received = {} THEN Fallback(id, t) ELSE sent \union received

\* faulty variant: the fee of the funding step is not shown
FaultyExtra(id, matches) == 0

Extra(id, matches) == Fee * Cardinality({m \in matches : m[2] = id})

\* assemble_history, with the extra fee only on an external transparent send.
Visible ==
    LET matches == Matches
        hidden  == {m[1] : m \in matches}
    IN  {l \in UNION {Classify(id, txs[id], IF HasExternalTransparentSend(txs[id]) THEN Extra(id, matches) ELSE 0)
                          : id \in Ids \ hidden}
            : l.amount > 0 \/ l.kind \in {"unknown", "shielded"}}

\* faulty variant: the page of a send lists its change
FaultyDetailIncludes(t, kind, o) == CASE kind = "sent" -> o.from [] OTHER -> o.to

\* Whether the detail page of a line of this kind lists an output.
DetailIncludes(t, kind, o) ==
    CASE kind = "shielded" -> t.shielding /\ o.to /\ o.pool # "transparent"
      [] kind = "sent" -> ~t.shielding /\ o.from /\ (~o.to \/ IsUserVisibleSelfOutput(o))
      [] kind \in {"received", "receiving"} -> ~t.shielding /\ o.to /\ (~o.from \/ IsUserVisibleSelfOutput(o))
      [] kind = "migration" -> ~t.shielding /\ o.from /\ o.to /\ t.orchard /\ o.pool = "ironwood"
      [] OTHER -> FALSE

\* get_transaction_detail reads the transaction again when its line is opened.
Detail(l) == {o \in txs[l.id].outs : DetailIncludes(txs[l.id], l.kind, o)}

-----------------------------------------------------------------------------
(* What the list promises *)

In(lines, kinds) == {l \in lines : l.kind \in kinds}
Sum(lines) == MapThenSumSet(LAMBDA l : l.amount, lines)

\* A line that says what was sent shows its fee; so do shielding and migration.
FeesShown(lines) == MapThenSumSet(LAMBDA l : l.fee, In(lines, {"sent", "shielded", "migration", "unknown"}))

\* Money in and out explains the balance to the last zatoshi: what came in,
\* less what went out and the fees on display, less the fees of the wallet's
\* own transactions that are not listed, is what the account holds.  The two
\* steps of one transfer are one payment with both fees.
HistoryExplainsBalance ==
    LET lines   == Visible
        shown   == {l.id : l \in lines}
        merged  == {m[1] : m \in Matches}
        unshown == {id \in Ids : id \notin shown /\ id \notin merged}
    IN  MapThenSumSet(LAMBDA id : txs[id].delta, Ids)
          = Sum(In(lines, {"received", "receiving"})) - Sum(In(lines, {"sent"})) - FeesShown(lines)
            - MapThenSumSet(LAMBDA id : txs[id].fee, unshown)

\* The outputs a line's detail page lists add up to the amount of the line.
DetailAgrees == \A l \in Visible : Detail(l) # {} => Total(Detail(l)) = l.amount

\* Each funding step that is hidden is shown with a send of its own, made after
\* it: no send carries two of them.
StepsPairUp ==
    \A m, n \in Matches : /\ m[1] < m[2]
                          /\ m[2] = n[2] => m = n
=============================================================================
