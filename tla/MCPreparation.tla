--------------------------- MODULE MCPreparation ----------------------------
(***************************************************************************)
(* The preparation of a migration run: the stages that split the notes,    *)
(* the anchors that are retained for the children, and the choice of an    *)
(* anchor. The first scene is the module of the stages itself: a stage     *)
(* that spends another one, reorganisations, and a crash between any two   *)
(* transactions beside a sync that reconciles the same rows.               *)
(*                                                                         *)
(* A behaviour is one of a single instance, which scene names; the         *)
(* instance keeps its variables in the first of s1 to s14 and the rest are *)
(* idle.                                                                   *)
(***************************************************************************)
EXTENDS DenominationStages, TLC

VARIABLES scene,
    s1, s2, s3, s4, s5, s6, s7, s8, s9, s10, s11, s12, s13, s14

\* one funding stage and one that spends it, neither of which expires
ChainParents == <<{}, {1}>>
ChainHeights == <<0, 0>>

-----------------------------------------------------------------------------
(* The instances *)

\* Two independent stages under the spaced policy, and reorganisations.
Apart == INSTANCE DenominationStages WITH
    N <- 2, Parents <- <<{}, {}>>, Terminals <- {1}, Sched <- <<0, 1>>,
    Expiry <- <<0, 0>>, Spaced <- TRUE, MaxTip <- 1, MaxId <- 1, Delays <- {0, 1},
    Reorgs <- TRUE, Stops <- FALSE, Crashes <- FALSE, Overlap <- FALSE,
    d <- s1, raw <- s2, drv <- s3, plan <- s4, spc <- s5, known <- s6, seen <- s7,
    view <- s8, cmined <- s9, tip <- s10, chain <- s11, pool <- s12, wire <- s13,
    ids <- s14

\* Two independent stages, one with change only; a stop at any moment, with crashes and
\* lost answers.
Halt == INSTANCE DenominationStages WITH
    N <- 2, Parents <- <<{}, {}>>, Terminals <- {1}, Sched <- <<0, 0>>,
    Expiry <- <<1, 1>>, Spaced <- FALSE, MaxTip <- 1, MaxId <- 2, Delays <- {0},
    Reorgs <- FALSE, Stops <- TRUE, Crashes <- TRUE, Overlap <- FALSE,
    d <- s1, raw <- s2, drv <- s3, plan <- s4, spc <- s5, known <- s6, seen <- s7,
    view <- s8, cmined <- s9, tip <- s10, chain <- s11, pool <- s12, wire <- s13,
    ids <- s14

\* Batches, rewinds and a crash between any two steps of the retention of anchors.
Pins == INSTANCE AnchorRetention WITH
    Modulus <- 2, MinAge <- 1, AgeCap <- 2, Activation <- 1, Lag <- 1, Runs <- {"a"},
    Interval <- 4, Depth <- 1, MaxHeight <- 5, MaxBatch <- 2, Rewinds <- TRUE,
    Crashes <- TRUE,
    refs <- s1, kept <- s2, cps <- s3, past <- s4, scanned <- s5, mined <- s6,
    need <- s7, pc <- s8, want <- s9, free <- s10, batch <- s11

\* Block by block at the tip.
Tipwise == INSTANCE AnchorRetention WITH
    Modulus <- 2, MinAge <- 1, AgeCap <- 2, Activation <- 1, Lag <- 2, Runs <- {"a"},
    Interval <- 99, Depth <- 3, MaxHeight <- 8, MaxBatch <- 1, Rewinds <- FALSE,
    Crashes <- FALSE,
    refs <- s1, kept <- s2, cps <- s3, past <- s4, scanned <- s5, mined <- s6,
    need <- s7, pc <- s8, want <- s9, free <- s10, batch <- s11

-----------------------------------------------------------------------------
On(s) == scene = s

all == <<scene, vars, s1, s2, s3, s4, s5, s6, s7, s8, s9, s10, s11, s12, s13, s14>>

\* an instance of k variables leaves the others alone
Unused(k) ==
    /\ (k < 1 => s1 = 0) /\ (k < 2 => s2 = 0) /\ (k < 3 => s3 = 0) /\ (k < 4 => s4 = 0)
    /\ (k < 5 => s5 = 0) /\ (k < 6 => s6 = 0) /\ (k < 7 => s7 = 0) /\ (k < 8 => s8 = 0)
    /\ (k < 9 => s9 = 0) /\ (k < 10 => s10 = 0) /\ (k < 11 => s11 = 0)
    /\ (k < 12 => s12 = 0) /\ (k < 13 => s13 = 0) /\ (k < 14 => s14 = 0)
StayUnused(k) ==
    /\ UNCHANGED scene
    /\ (k < 1 => s1' = 0) /\ (k < 2 => s2' = 0) /\ (k < 3 => s3' = 0)
    /\ (k < 4 => s4' = 0) /\ (k < 5 => s5' = 0) /\ (k < 6 => s6' = 0)
    /\ (k < 7 => s7' = 0) /\ (k < 8 => s8' = 0) /\ (k < 9 => s9' = 0)
    /\ (k < 10 => s10' = 0) /\ (k < 11 => s11' = 0) /\ (k < 12 => s12' = 0)
    /\ (k < 13 => s13' = 0) /\ (k < 14 => s14' = 0)

SceneInit ==
    \/ scene = "chain" /\ Init /\ Unused(0)
    \/ scene = "spaced" /\ Apart!Init /\ Unused(14) /\ Init
    \/ scene = "stop" /\ Halt!Init /\ Unused(14) /\ Init
    \/ scene = "pins" /\ Pins!Init /\ Unused(11) /\ Init
    \/ scene = "witness" /\ Tipwise!Init /\ Unused(11) /\ Init

SceneNext ==
    \/ On("chain") /\ Next /\ StayUnused(0)
    \/ On("spaced") /\ Apart!Next /\ StayUnused(14) /\ UNCHANGED vars
    \/ On("stop") /\ Halt!Next /\ StayUnused(14) /\ UNCHANGED vars
    \/ On("pins") /\ Pins!Next /\ StayUnused(11) /\ UNCHANGED vars
    \/ On("witness") /\ Tipwise!Next /\ StayUnused(11) /\ UNCHANGED vars
    \/ scene \in {"spaced", "stop", "pins", "witness"} /\ UNCHANGED all   \* these may end

SceneSpec == SceneInit /\ [][SceneNext]_all

-----------------------------------------------------------------------------
(* What is checked of each instance *)

Walk == INSTANCE AnchorPolicy WITH Modulus <- 4, MinAge <- 1, AgeCap <- 3, Activation <- 6, Lag <- 2

\* A child built on a parent that left the chain is noticed
\* (DenominationStages!StaleChildNoticed), no redraw moves a waiting stage to an earlier height
\* (NeverEarlier), a stop deletes no stage the network may mine unless it is stored
\* (StopStoresLive), and a run becomes ready on trusted confirmations only (ReadyIsTrusted).
StagesAreTrusted ==
    /\ [](On("chain") => TypeOK /\ StaleChildNoticed)
    /\ [][On("spaced") => Apart!NeverEarlierStep]_all
    /\ [][On("stop") => Halt!StopStoresLiveStep /\ Halt!ReadyIsTrustedStep]_all

\* No anchor stays pinned without an owner (AnchorRetention!PinsAreOwned), a durable one is not
\* released (DurableStays), and the first eligible boundary keeps its checkpoint until the
\* children are proved (WitnessKept).  The readiness height, the retry height and the candidate
\* test agree with the candidate boundaries (AnchorPolicy), for every height over ten buckets.
AnchorsAreKept ==
    /\ On("pins") => Pins!PinsAreOwned /\ Pins!DurableStays
    /\ On("witness") => Tipwise!WitnessKept
    /\ On("witness") /\ Tipwise!Init =>
          \A scanned \in 0 .. 40, mined \in 7 .. 40 :
             /\ Walk!ReadyHeightIsExact(scanned, mined) /\ Walk!RetryMissesNothing(scanned, mined)
             /\ Walk!CandidateTestAgrees(scanned, mined)
=============================================================================
