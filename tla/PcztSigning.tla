----------------------------- MODULE PcztSigning -----------------------------
(***************************************************************************)
(* From the wallet's own PCZT to an authorised transaction                 *)
(* (wallet/sync/pczt.rs): proofs are added here, signatures come from a    *)
(* device that sees a redacted copy and answers either with a compact list *)
(* of signatures or with a whole signed PCZT; the answer is checked,       *)
(* merged, extracted and broadcast.                                        *)
(*                                                                         *)
(* A transaction is its effects, which fix its txid: the actions it has,   *)
(* the ones that are dummies (signed by the wallet when the PCZT is        *)
(* finalised), its version and branch, and for the second half of a TEX    *)
(* pair the transaction it spends.  A signature names the transaction and  *)
(* the action it was made for; the device may answer anything.             *)
(***************************************************************************)
EXTENDS Integers, Sequences, FiniteSets, SequencesExt

CONSTANTS
    Txs,        \* transactions the device may be shown
    Actions,    \* Actions[t]: locations (pool and index) of the actions of t
    Dummies,    \* Dummies[t]: the padding among them
    Version,    \* Version[t]: 5 or 6
    Branch,     \* Branch[t]: "nu6_2" or "nu6_3"
    Spends,     \* Spends[t]: the transaction whose output t spends in the clear, or NoTx
    NoTx,
    MaxSigs     \* ZCASH_SIGN_BATCH_MAX_SIGNATURES

VARIABLES
    request,  \* the transactions of this flow, in dependency order
    base,     \* base[i]: the wallet's PCZT of request[i]
    mode,     \* "compact" or "full"
    view,     \* view[i]: the copy the device was shown
    answer,   \* answer[i]: what came back
    signed,   \* the extracted transactions, or none
    net,      \* what became of the broadcast
    stored,   \* whether the transaction is in the wallet database
    result,   \* what the caller is told
    pc

vars == <<request, base, mode, view, answer, signed, net, stored, result, pc>>

-----------------------------------------------------------------------------
(* PCZTs. *)

Sig(t, loc) == [tx |-> t, loc |-> loc]
NoSig == [tx |-> NoTx, loc |-> "none"]

\* An IO-finalised PCZT: the dummies are signed, nothing else is.
Finalised(t) ==
    [tx |-> t,
     sigs |-> [loc \in Actions[t] |-> IF loc \in Dummies[t] THEN Sig(t, loc) ELSE NoSig],
     proof |-> "none", anchor |-> "placeholder", witnesses |-> {}, private |-> TRUE]

\* txid_from_io_finalized_pczt: the effects alone fix the id.
TxidOf(p) == p.tx

\* unsigned_orchard_action_locations
Unsigned(p) == {loc \in DOMAIN p.sigs : p.sigs[loc] = NoSig}

\* orchard_circuit_version_for_consensus_branch, and the keys chosen by it.
Circuit(t) == IF Branch[t] = "nu6_3" THEN "post_nu6_3" ELSE "fixed_post_nu6_2"

\* faulty variant: the circuit follows the transaction version
FaultyProvingKey(t) == IF Version[t] = 6 THEN "post_nu6_3" ELSE "fixed_post_nu6_2"
ProvingKey(t) == Circuit(t)

VerifyingKey(t) == Circuit(t)

\* set_orchard_anchor_and_witnesses: every nullifier names one action; the
\* placeholder anchor is replaced while there is no proof.
SetAnchorAndWitnesses(p) ==
    [p EXCEPT !.anchor = "chosen", !.witnesses = DOMAIN p.sigs]

\* add_proofs_to_pczt.
AddProofs(p) == [p EXCEPT !.proof = ProvingKey(p.tx)]

\* apply_signer_redaction: witnesses and private fields go; a batch request
\* carries no signature either.
\* faulty variant: the signatures of padding spends stay in a batch request
FaultyRedact(p, batch) ==
    [p EXCEPT !.witnesses = {}, !.private = FALSE, !.sigs = p.sigs]
Redact(p, batch) ==
    [p EXCEPT !.witnesses = {}, !.private = FALSE,
              !.sigs = IF batch THEN [loc \in DOMAIN p.sigs |-> NoSig] ELSE p.sigs]

\* checked_keystone_batch_signature_count
CountAllowed(n) == n > 0 /\ n <= MaxSigs

\* prepare_pczt_for_keystone_batch: only shielded inputs fit a compact answer.
BatchAllowed(p) == Spends[p.tx] = NoTx /\ CountAllowed(Cardinality(Unsigned(p)))

-----------------------------------------------------------------------------
(* The answer. *)

Verifies(p, s) == s.tx = p.tx /\ s.loc \in DOMAIN p.sigs

\* apply_compact_orchard_spend_auth_signatures: no location twice, and each
\* signature verifies against its action.
AppliesTo(p, sigs) ==
    /\ \A i, j \in DOMAIN sigs : sigs[i].loc = sigs[j].loc => i = j
    /\ \A i \in DOMAIN sigs : Verifies(p, sigs[i])

Apply(p, sigs) ==
    [p EXCEPT !.sigs = [loc \in DOMAIN p.sigs |->
        IF \E i \in DOMAIN sigs : sigs[i].loc = loc
        THEN sigs[CHOOSE i \in DOMAIN sigs : sigs[i].loc = loc] ELSE p.sigs[loc]]]

\* preflight_orchard_spend_auth_signatures: exactly one for every unsigned action.
Preflight(p, sigs) ==
    /\ \A i \in DOMAIN sigs : sigs[i].loc \in Unsigned(p)
    /\ Cardinality({sigs[i].loc : i \in DOMAIN sigs}) = Cardinality(Unsigned(p))
    /\ AppliesTo(p, sigs)

\* ensure_signed_pczt_matches_base: without it the copies cannot be merged.
MatchesBase(p, s) == TxidOf(p) = TxidOf(s)

\* combine_pczts: the wallet's copy keeps its proof, anchor and metadata, a
\* signature is taken from whichever copy has one.
Combine(p, s) ==
    [p EXCEPT !.sigs = [loc \in DOMAIN p.sigs |->
        IF p.sigs[loc] # NoSig THEN p.sigs[loc] ELSE s.sigs[loc]]]

\* faulty variant: a signature that is there is not verified
FaultyExtractable(p) ==
    /\ \A loc \in DOMAIN p.sigs : p.sigs[loc] # NoSig
    /\ p.proof = VerifyingKey(p.tx)
\* finalize_and_extract: every action authorised, the proof verified by the key
\* of the branch.
Extractable(p) ==
    /\ \A loc \in DOMAIN p.sigs : p.sigs[loc] # NoSig /\ Verifies(p, p.sigs[loc])
    /\ p.proof = VerifyingKey(p.tx)

Extract(p) == [tx |-> p.tx, sigs |-> p.sigs, proof |-> p.proof]

\* extract_compact_sigs_from_pczt, and the ones the base did not have.
CompactSigs(s) == {s.sigs[loc] : loc \in DOMAIN s.sigs} \ {NoSig}

RequiredSigs(p, s) == {g \in CompactSigs(s) : g.loc \in Unsigned(p)}

\* ensure_tex_pczt_dependency
DependencyHolds(ps) == Len(ps) = 2 => Spends[TxidOf(ps[2])] = TxidOf(ps[1])

AllDistinct(xs) == \A i, j \in DOMAIN xs : xs[i] = xs[j] => i = j

\* prepare_signed_pczts: whole signed PCZTs.
PreparedFull ==
    LET ok == /\ Len(answer) = Len(base) /\ DependencyHolds(base)
              /\ \A i \in DOMAIN base :
                   /\ MatchesBase(base[i], answer[i])
                   /\ Extractable(Combine(base[i], answer[i]))
        out == [i \in DOMAIN base |-> Extract(Combine(base[i], answer[i]))]
    IN  IF ok /\ AllDistinct([i \in DOMAIN out |-> out[i].tx]) THEN out ELSE <<>>

\* prepare_compact_signed_pczts: signature lists.
PreparedCompact ==
    LET ok == /\ Len(answer) = Len(base) /\ DependencyHolds(base)
              /\ \A i \in DOMAIN base :
                   /\ Preflight(base[i], answer[i])
                   /\ Extractable(Apply(base[i], answer[i]))
        out == [i \in DOMAIN base |-> Extract(Apply(base[i], answer[i]))]
    IN  IF ok /\ AllDistinct([i \in DOMAIN out |-> out[i].tx]) THEN out ELSE <<>>

-----------------------------------------------------------------------------
(* The flow. *)

Init ==
    /\ request \in {<<t>> : t \in {u \in Txs : Spends[u] = NoTx}}
         \union {<<Spends[t], t>> : t \in {u \in Txs : Spends[u] # NoTx}}
    /\ base = [i \in DOMAIN request |-> Finalised(request[i])]
    /\ mode \in {"compact", "full"}
    /\ view = <<>> /\ answer = <<>> /\ signed = <<>>
    /\ net = "unsent" /\ stored = FALSE /\ result = "none" /\ pc = "ask"

\* The request is shown; a compact one is refused when an input is transparent or
\* there are too many signatures.  A TEX pair is shown as whole PCZTs.
Ask ==
    /\ pc = "ask" /\ view = <<>>
    /\ mode = "compact" => \A i \in DOMAIN base : BatchAllowed(base[i])
    /\ view' = [i \in DOMAIN base |-> Redact(base[i], mode = "compact")]
    /\ UNCHANGED <<request, base, mode, answer, signed, net, stored, result, pc>>

Refuse ==
    /\ pc = "ask" /\ view = <<>> /\ mode = "compact"
    /\ \E i \in DOMAIN base : ~BatchAllowed(base[i])
    /\ result' = "refused" /\ pc' = "done"
    /\ UNCHANGED <<request, base, mode, view, answer, signed, net, stored>>

\* The wallet proves while the device signs.
Prove ==
    /\ pc = "ask" /\ \A i \in DOMAIN base : base[i].proof = "none"
    /\ base' = [i \in DOMAIN base |-> AddProofs(SetAnchorAndWitnesses(base[i]))]
    /\ UNCHANGED <<request, mode, view, answer, signed, net, stored, result, pc>>

\* What a device may answer for one message: signatures for this or another
\* transaction, some missing, some twice.
CompactAnswers ==
    LET own(t) == {Sig(t, loc) : loc \in Actions[t] \ Dummies[t]}
        all == UNION {own(t) : t \in Txs}
    IN  UNION {[1 .. n -> all] : n \in 0 .. 2}

\* A whole PCZT: the view of some transaction with signatures made for that one
\* or for another, and some missing.
FullAnswers ==
    UNION {{[Finalised(t) EXCEPT !.private = FALSE,
                !.sigs = [loc \in Actions[t] |->
                            IF loc \in Dummies[t] THEN Sig(t, loc)
                            ELSE IF loc \in some THEN Sig(for, loc) ELSE NoSig]] :
              some \in SUBSET (Actions[t] \ Dummies[t]), for \in Txs} : t \in Txs}

Device ==
    /\ pc = "ask" /\ view # <<>> /\ answer = <<>>
    /\ answer' \in [DOMAIN base -> IF mode = "compact" THEN CompactAnswers ELSE FullAnswers]
    /\ UNCHANGED <<request, base, mode, view, signed, net, stored, result, pc>>

\* Everything is checked before the network or the database is touched.
Check ==
    /\ pc = "ask" /\ answer # <<>> /\ \A i \in DOMAIN base : base[i].proof # "none"
    /\ LET out == IF mode = "compact" THEN PreparedCompact ELSE PreparedFull
       IN  IF out = <<>> THEN result' = "invalid" /\ pc' = "done" /\ signed' = signed
           ELSE signed' = out /\ pc' = "send" /\ result' = result
    /\ UNCHANGED <<request, base, mode, view, answer, net, stored>>

-----------------------------------------------------------------------------
(* extract_and_broadcast_pczt: the tail for one transaction. *)

\* No route, no chain tip, or the tip has reached the expiry height.
NotSent ==
    /\ pc = "send"
    /\ result' = "error" /\ pc' = "done"
    /\ UNCHANGED <<request, base, mode, view, answer, signed, net, stored>>

\* send_transaction_with_status: accepted or already known, rejected, or no answer.
Send ==
    /\ pc = "send"
    /\ \E outcome \in {"accepted", "rejected", "lost", "unanswered"} :
         /\ net' = outcome
         /\ IF outcome = "rejected"
              THEN result' = "error" /\ pc' = "done"
              ELSE result' = result /\ pc' = "store"
    /\ UNCHANGED <<request, base, mode, view, answer, signed, stored>>

\* store_locally: the PCZT-aware store, else the chain-style one, else neither.
StoreLocally ==
    /\ pc = "store"
    /\ stored' \in BOOLEAN
    /\ pc' = "report"
    /\ UNCHANGED <<request, base, mode, view, answer, signed, net, result>>

\* handle_pczt_send_response
ReportAccepted ==
    /\ pc = "report" /\ net = "accepted"
    /\ result' = IF stored THEN "broadcasted" ELSE "broadcasted_storage_failed"
    /\ pc' = "done"
    /\ UNCHANGED <<request, base, mode, view, answer, signed, net, stored>>

\* faulty variant: a lost answer counts as a rejection
FaultyReportUnknown ==
    /\ pc = "report" /\ net \in {"lost", "unanswered"}
    /\ result' = "error"
    /\ pc' = "done"
    /\ UNCHANGED <<request, base, mode, view, answer, signed, net, stored>>
\* handle_pczt_transport_failure: no answer is not a rejection.
ReportUnknown ==
    /\ pc = "report" /\ net \in {"lost", "unanswered"}
    /\ result' = "broadcast_unknown"
    /\ pc' = "done"
    /\ UNCHANGED <<request, base, mode, view, answer, signed, net, stored>>

Done == pc = "done" /\ UNCHANGED vars

Next ==
    \/ Ask \/ Refuse \/ Prove \/ Device \/ Check
    \/ NotSent \/ Send \/ StoreLocally \/ ReportAccepted \/ ReportUnknown \/ Done

Spec == Init /\ [][Next]_vars

-----------------------------------------------------------------------------
(* A batch request shows the device no signature, and no request shows it a
   witness or the wallet's private fields. *)
RequestIsBare ==
    \A i \in DOMAIN view :
      /\ view[i].witnesses = {} /\ ~view[i].private
      /\ mode = "compact" => CompactSigs(view[i]) = {}

(* Whatever the device answers, what reaches the network is what was asked for:
   the requested transactions in their order, each action authorised by a
   signature made for it, and the second half of a pair spending the first. *)
OnlyTheRequested ==
    signed # <<>> =>
      /\ [i \in DOMAIN signed |-> signed[i].tx] = request
      /\ \A i \in DOMAIN signed : \A loc \in Actions[request[i]] :
            signed[i].sigs[loc] = Sig(request[i], loc)
      /\ Len(signed) = 2 => Spends[signed[2].tx] = signed[1].tx

(* An honest answer is never refused, and both forms of it give the same
   transaction ("the two produce identical transactions by construction"). *)
HonestFull(p) ==
    [Redact(p, FALSE) EXCEPT !.sigs = [loc \in DOMAIN p.sigs |-> Sig(p.tx, loc)]]

PathsAgree ==
    \A i \in DOMAIN base : base[i].proof # "none" =>
      LET full == HonestFull(base[i])
          list == SetToSeq(RequiredSigs(base[i], full))
      IN  /\ Preflight(base[i], list)
          /\ Extractable(Apply(base[i], list))
          /\ Extract(Apply(base[i], list)) = Extract(Combine(base[i], full))

(* The caller hears "error" only when the network does not have the transaction,
   and when it may have it the wallet either recorded it or says that it did not. *)
ResultIsHonest ==
    /\ result = "error" => net \in {"unsent", "rejected"} /\ ~stored
    /\ result = "broadcasted" => net = "accepted" /\ stored
    /\ net \in {"accepted", "lost", "unanswered"} /\ pc = "done" =>
         result \in {"broadcasted", "broadcasted_storage_failed", "broadcast_unknown"}
=============================================================================
