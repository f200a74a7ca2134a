SPECIFICATION SceneSpec
CONSTANTS
    Proposals = {p1, p2}
    Outputs = {o1}
    Notes = {n1, n2}
    Migration = Migration
    Recovery = Recovery
    NoOne = NoOne
    LockBlocks = 1
    Forever = 99
    MaxSteps = 1
    TipLag = 1
    MaxHeight = 3
    LastPropose = 1
    MaxSession = 2
SYMMETRY Symmetry
INVARIANTS
    AtLargeStaysLocked
    NoDoubleSpend
    LocksRecoverable
    PairsAreKept
PROPERTIES
    CancelIsFinal
