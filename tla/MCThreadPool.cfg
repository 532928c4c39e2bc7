SPECIFICATION Spec
CONSTANTS
    NThreadsMax = 3
    Counts = {1, 2, 3}
    CountsVary = FALSE
    NumNodes = 2
    MaxGraphs = 2
INVARIANTS
    NodesInStep
    ParametersQuiet
PROPERTY
    CallerReturns
