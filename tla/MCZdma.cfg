SPECIFICATION DmaSpec
CONSTANTS
    Chunks = 2
    MaxCopies = 3
INVARIANTS
    SuccessMeansMoved
    ClosedChannelIdle
PROPERTIES
    DescriptorStable
    CopyReturns
