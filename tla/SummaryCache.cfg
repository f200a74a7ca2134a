SPECIFICATION Spec
CONSTANTS
    Readers = {r1, r2}
    Paths = {wallet}
    Slots = {s1, s2, s3}
    NoOne = NoOne
    MaxVersion = 2
    MaxEpoch = 4
INVARIANTS
    FreshSummary
    EvictedStaysGone
