SPECIFICATION LiveSpec
CONSTANTS
    Switches = {"c1", "c2"}
    Requests = {"r1"}
    NoOne = NoOne
INVARIANTS
    FailClosed
    ReadyIsTor
    SettledIsDefinite
    DormancyApplied
PROPERTIES
    WaitsEnd
CHECK_DEADLOCK FALSE
