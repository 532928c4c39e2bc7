SPECIFICATION Spec
CONSTANTS
    Seqs <- TwoSeqs
    Configs <- SharedWindow
    NSwa = 2
    KeepLengths = {0, 1}
    GaN = 2
    GaW = 2
INVARIANT RangePresent
