SPECIFICATION SceneSpec
CONSTANTS
    Callers = {"fg", "bg"}
    ModeOf <- ModeAsked
    Workers = {"w1", "w2"}
    MaxOps = 2
INVARIANTS
    OneScan
    UnaskedRunsOn
    StopsReachTheirRun
    ChecksAreTrue
    VotesGoOnce
    NobodyStuck
PROPERTIES
    EngineIsSound
