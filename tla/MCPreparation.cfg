SPECIFICATION SceneSpec
CONSTANTS
    N = 2
    Parents <- ChainParents
    Terminals = {2}
    Sched <- ChainHeights
    Expiry <- ChainHeights
    Spaced = FALSE
    MaxTip = 0
    MaxId = 2
    Delays = {0}
    Reorgs = TRUE
    Stops = FALSE
    Crashes = TRUE
    Overlap = FALSE
INVARIANTS
    AttemptRecorded
    AnchorsAreKept
PROPERTIES
    StagesAreTrusted
CHECK_DEADLOCK FALSE
