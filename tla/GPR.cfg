CONSTANTS
    MaxExec = 2
    MaxLoss = 2
    MayCancel = TRUE
    Kinds <- OpKinds
SPECIFICATION FairSpec
INVARIANTS
    RepliesExpected
    ResultRight
    ReleasedUnlessAbandoned
PROPERTIES
    QuietAfterCancel
    ResultComes
CHECK_DEADLOCK FALSE
