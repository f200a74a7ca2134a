SPECIFICATION AbandonSpec
CONSTANTS
    Txs = {"in", "out"}
    Accounts = {"a1", "a2"}
    Outputs <- Pays
    SeenMax = 1
    UnmatchedMax = 1
    Ttl = 1
PROPERTIES
    AbandonedIsQuiet
CHECK_DEADLOCK FALSE
