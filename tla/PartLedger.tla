------------------------------ MODULE PartLedger ------------------------------
(***************************************************************************)
(* What a migration run promises about the notes it was given, whatever it *)
(* stores and however it broadcasts: a note is offered to the network only *)
(* while the run still reserves it, an offer may lapse, and a note that    *)
(* was moved stays moved.  Once the reservation is released, for whatever  *)
(* reason, the run never offers a note again.                              *)
(***************************************************************************)
CONSTANT Parts

VARIABLES fate,      \* held, offered (a transaction could be mined) or moved (for good)
          reserved   \* the notes are locked for the run

Init == fate = [p \in Parts |-> "held"] /\ reserved = TRUE

Offer(p) ==
  /\ reserved /\ fate[p] = "held"
  /\ fate' = [fate EXCEPT ![p] = "offered"] /\ UNCHANGED reserved

\* expiry, a reorganisation, a lost message or a conflicting spend end some of the offers
Lapse(P) ==
  /\ \A p \in P : fate[p] = "offered"
  /\ fate' = [p \in Parts |-> IF p \in P THEN "held" ELSE fate[p]] /\ UNCHANGED reserved

Move(p) ==
  /\ fate[p] = "offered"
  /\ fate' = [fate EXCEPT ![p] = "moved"] /\ UNCHANGED reserved

Release == reserved /\ reserved' = FALSE /\ UNCHANGED fate

Next ==
  \/ \E p \in Parts : Offer(p) \/ Move(p)
  \/ \E P \in SUBSET Parts : Lapse(P)
  \/ Release

Spec == Init /\ [][Next]_<<fate, reserved>>
=============================================================================
