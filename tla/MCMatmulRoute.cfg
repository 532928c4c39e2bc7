SPECIFICATION Spec
CONSTANTS
    Pools = {p1}
    NumThreads = 2
    Graph <- MCGraph
    NumChunks = 3
    NumTiles = 2
    Limits = {0, 1, 3}
INVARIANTS
    OneDecision
    DstStoredOnce
    NativeReadsConverted
    StrictBoundary
    CoverageExact
PROPERTY
    GraphFinishes
