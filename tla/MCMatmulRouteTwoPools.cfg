SPECIFICATION Spec
CONSTANTS
    Pools = {p1, p2}
    NumThreads = 2
    Graph <- MCShortGraph
    NumChunks = 2
    NumTiles = 1
    Limits = {0}
INVARIANT
    OneDecision
