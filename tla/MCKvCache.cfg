SPECIFICATION Spec
CONSTANTS
    Seqs <- TwoSeqs
    Configs <- Contexts
    NSwa = 2
    KeepLengths = {0, 1}
    GaN = 2
    GaW = 2
INVARIANTS TableExact RotationKept CachesHoldText
PROPERTY AttentionExact
