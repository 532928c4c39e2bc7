SPECIFICATION Spec
CONSTANTS
    Options <- AllOptions
    Faults <- AllFaults
    MaxDeviations = 3
CHECK_DEADLOCK FALSE
INVARIANTS
    ReadyIsWhole
PROPERTIES
    LiveChannelUntouched
    ReentryImmutable
    HealthyComesUp
