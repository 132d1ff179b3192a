CONSTANTS
    QueueSize = 3
    Pipeline = TRUE
    HighMark = 1
    MaxPost = 8
    Paced = TRUE
    MayTryPost = FALSE
    MayFinish = FALSE
    CongestStates = {"Idle","Executing"}
    AckAt = 2
    MaskConn = TRUE
    MaskDiscon = TRUE
    MaxPause = 0
    MayCancel = FALSE
    MaxLoss = 0
SPECIFICATION FairSpec
INVARIANTS
    FlowControlled
PROPERTIES
    AllArrives
CHECK_DEADLOCK FALSE
