SPECIFICATION SceneSpec
CONSTANTS
    Parts = {1}
    MODULUS = 2
    MaxTip = 4
    MaxGen = 2
    Delays = {0, 1}
    Signed <- SignedFirst
    Reorgs = FALSE
    Foreign = FALSE
    Outsider = 9
    Stops = TRUE
    Crashes = TRUE
    Safety = 1
INVARIANTS
    AttemptRecorded
    CompleteMeansMigrated
PROPERTIES
    StopStoresLive
    KeepsLedger
    TwoPartsAndReorgs
CHECK_DEADLOCK FALSE
