SPECIFICATION LegacySpec
CONSTANTS
    RunIds = {1, 2}
    Notes = {"x", "y"}
    StageNotes = {}
    MaxPasses = 2
    Crashes = 1
    Faults = 0
    MayDelete = TRUE
INVARIANTS
    UnknownIsSafelyDiscarded
CHECK_DEADLOCK FALSE
