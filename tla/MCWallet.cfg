SPECIFICATION SceneSpec
CONSTANTS
    Txs = {"in", "out"}
    Accounts = {"a1", "a2"}
    Outputs <- Pays
    SeenMax = 1
    UnmatchedMax = 1
    Ttl = 1
INVARIANTS
    ToldIsStored
    ReceivesAreKnown
    HistoryExplains
    RelaysInOrder
    StatusIsTrue

    
