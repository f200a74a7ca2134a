SPECIFICATION SceneSpec
CONSTANTS
    RunIds = {1, 2}
    Notes = {"x", "y"}
    StageNotes = {}
    MaxPasses = 2
    Crashes = 1
    Faults = 0
    MayDelete = TRUE
INVARIANTS
    LocksAreRight
    RequestsHold
    SignaturesHold
PROPERTIES
    PlansHold
    UpgradesHold
