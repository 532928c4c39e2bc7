SPECIFICATION Spec
CONSTANTS
    NumPairs = 4
    HelperBegin = 3
    MaxGeneration = 3
    MaxStarts = 2
INVARIANTS
    TypeOK
    DmaReadsWholeTile
    HelperWritesOnlyOutstandingTask
    HelperFreeWhenCallerIs
PROPERTIES
    WaitsEnd
    ImplementsContract
