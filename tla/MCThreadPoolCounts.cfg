SPECIFICATION Spec
CONSTANTS
    NThreadsMax = 2
    Counts = {1, 2}
    CountsVary = TRUE
    NumNodes = 2
    MaxGraphs = 3
INVARIANT
    ParametersQuiet
