SPECIFICATION Spec
CONSTANTS
    Keys <- MCKeys
    Hash <- MCHash
    Size <- MCSize
    Buckets = 3
    MaxProbes = 2
    Capacity = 3
    Budget = 4
    MaxEpoch = 2
INVARIANTS
    SealedHoldsItsTile
    IndexIsExact
    MovesOwnTile
