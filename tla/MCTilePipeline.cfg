SPECIFICATION Spec
CONSTANTS
    Shapes <- MCShapes
    MainBatches = 2
    TileLimits = {1, 2, 4, 9}
INVARIANTS
    DmaSourceStable
    OwnershipHolds
PROPERTIES
    ComputeUndisturbed
    MatmulReturns
    ImplementsMatmul
