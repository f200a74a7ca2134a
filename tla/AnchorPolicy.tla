----------------------------- MODULE AnchorPolicy -----------------------------
(***************************************************************************)
(* Which Orchard anchor a migration child may be proved at: the pure       *)
(* functions of migration/denomination_policy.rs and send.rs.  Heights are *)
(* divided in buckets of Modulus blocks; a child takes a bucket boundary   *)
(* of bounded age, and the tree checkpoint that represents it.  The        *)
(* properties at the end hold of any scanned height and mined height.      *)
(***************************************************************************)
EXTENDS Integers, FiniteSets, FiniteSetsExt

CONSTANTS Modulus,     \* anchor_bucket_modulus
          MinAge,      \* anchor_bucket_min_age: 0 or 1
          AgeCap,      \* ZIP318_ANCHOR_AGE_CAP
          Activation,  \* the NU6.3 activation height
          Lag          \* trusted confirmations less one

MaxOf(a, b) == IF a >= b THEN a ELSE b

\* zip318_anchor_boundary_at_or_before_with_policy, 0 for none
BoundaryAtOrBefore(h) == h - (h % Modulus)

\* anchor_boundary_containing_note_with_policy
ContainingBoundary(h) == IF h % Modulus = 0 THEN h ELSE h + (Modulus - (h % Modulus))

\* faulty variant: the note is taken to be in the bucket that is already closed
FaultyProofReadyHeight(mined) == BoundaryAtOrBefore(mined) + Modulus * MinAge + Lag

\* proof_ready_height_for_note_mined_height
ProofReadyHeight(mined) == ContainingBoundary(mined) + Modulus * MinAge + Lag

\* faulty variant: the retry is counted from the scanned height whatever the policy
FaultyNextRetryHeight(scanned) == scanned + (Modulus - (scanned % Modulus)) + Lag

\* next_anchor_retry_height_after
NextRetryHeight(scanned) ==
  LET ref == IF MinAge > 0 THEN MaxOf(scanned - Lag, 0) ELSE scanned
  IN ref + (Modulus - (ref % Modulus)) + Lag

\* zip318_anchor_boundary_age, -1 for none
BoundaryAge(latest, b) ==
  IF b > latest \/ (latest - b) % Modulus # 0 \/ (latest - b) \div Modulus \notin MinAge..AgeCap
  THEN -1 ELSE (latest - b) \div Modulus

\* faulty variant: the age limit is not applied
FaultyIsCandidate(b, anchor, mined) ==
  b > 0 /\ b % Modulus = 0 /\ b >= mined /\ b > Activation /\ b <= BoundaryAtOrBefore(anchor)

\* zip318_anchor_candidate_boundaries_with_policy: from the youngest age to the first
\* boundary below the note or the activation
CandidateBoundaries(anchor, mined) ==
  LET latest == BoundaryAtOrBefore(anchor)
      lower == MaxOf(mined, Activation + 1)
  IN {b \in {latest - age * Modulus : age \in MinAge..AgeCap} : latest > 0 /\ b >= lower}

\* zip318_anchor_boundary_is_candidate_with_policy
IsCandidate(b, anchor, mined) ==
  /\ b > 0 /\ b % Modulus = 0 /\ b >= mined /\ b > Activation
  /\ BoundaryAtOrBefore(anchor) > 0
  /\ BoundaryAge(BoundaryAtOrBefore(anchor), b) # -1

\* zip318_draw_anchor_boundary_from_available_with_policy: each has a positive weight
Drawable(anchor, available) ==
  IF \A b \in available : BoundaryAge(BoundaryAtOrBefore(anchor), b) # -1
  THEN available ELSE {}

\* representative_orchard_checkpoint, 0 for none
Representative(cps, boundary, mined) ==
  LET S == {c \in cps : c >= mined /\ c <= boundary} IN IF S = {} THEN 0 ELSE Max(S)

\* migration_anchor_retention_boundary, 0 for none
RetentionBoundary(anchor, mined) ==
  IF BoundaryAtOrBefore(anchor) >= mined THEN BoundaryAtOrBefore(anchor) ELSE 0

\* faulty variant: only the newest bucket is retained
FaultyCheckpointsToRetain(anchor, mined, cps) ==
  IF RetentionBoundary(anchor, mined) = 0 THEN {}
  ELSE {Representative(cps, RetentionBoundary(anchor, mined), mined)} \ {0}

\* migration_anchor_checkpoints_to_retain: the newest bucket and the first eligible one
CheckpointsToRetain(anchor, mined, cps) ==
  LET first == CandidateBoundaries(anchor, mined)
      bs == {RetentionBoundary(anchor, mined)} \union (IF first = {} THEN {} ELSE {Max(first)})
  IN IF RetentionBoundary(anchor, mined) = 0 THEN {}
     ELSE {Representative(cps, b, mined) : b \in bs} \ {0}

\* available_orchard_anchor_candidates: one boundary for each checkpoint, the youngest
AvailableCandidates(boundaries, cps, mined) ==
  {b \in boundaries :
     /\ Representative(cps, b, mined) # 0
     /\ \A x \in boundaries : x > b => Representative(cps, x, mined) # Representative(cps, b, mined)}

\* checkpoint_representatives_for_scan, of every boundary the batch reaches
BatchRepresentatives(cps, frontier, end) ==
  {Representative(cps, b, 0) :
     b \in {x \in MaxOf(frontier, Activation + 1)..(end - 1) : x % Modulus = 0}} \ {0}

\* orchard_anchor_and_witness_for_prepared_note, the boundaries it may end up with;
\* orchard_witness_is_available_for_prepared_note asks whether there is one.  A preferred
\* boundary wins when it is available.
SelectableAnchors(cps, anchor, mined, preferred) ==
  LET available == AvailableCandidates(CandidateBoundaries(anchor, mined), cps, mined)
  IN IF preferred # 0 /\ IsCandidate(preferred, anchor, mined) /\ preferred \in available
     THEN {preferred} ELSE Drawable(anchor, available)
WitnessAvailable(cps, anchor, mined) == SelectableAnchors(cps, anchor, mined, 0) # {}

-----------------------------------------------------------------------------
\* The height the app waits for before it looks for a proof of a note
\* (proof_ready_height_for_note_mined_height) is the first one at which the note has an
\* eligible anchor boundary.
ReadyHeightIsExact(scanned, mined) ==
  (CandidateBoundaries(scanned - Lag, mined) # {}) <=> (scanned >= ProofReadyHeight(mined))

\* Between a failed look and the retry height that next_anchor_retry_height_after stores no
\* boundary becomes eligible: waiting costs no bucket.
RetryMissesNothing(scanned, mined) ==
  /\ NextRetryHeight(scanned) > scanned
  /\ \A t \in scanned..(NextRetryHeight(scanned) - 1) :
       CandidateBoundaries(t - Lag, mined) \subseteq CandidateBoundaries(scanned - Lag, mined)

\* The preferred boundary of a child is checked by a predicate of its own
\* (zip318_anchor_boundary_is_candidate_with_policy), which accepts what the candidate list
\* of the same heights has.
CandidateTestAgrees(scanned, mined) ==
  \A b \in 0..(scanned + Modulus) :
    IsCandidate(b, scanned - Lag, mined) <=> b \in CandidateBoundaries(scanned - Lag, mined)
=============================================================================
