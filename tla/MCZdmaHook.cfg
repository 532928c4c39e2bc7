SPECIFICATION DmaSpec
CONSTANTS
    Chunks = 2
    MaxCopies = 2
INVARIANT
    FailedHookReleasesChannel
