SPECIFICATION Spec
CONSTANTS
    Options <- AllOptions
    Faults <- AllFaults
    MaxDeviations = 1
CHECK_DEADLOCK FALSE
INVARIANT
    OptOutAccepted
