CONSTANTS
    QueueSize = 2
    Pipeline = FALSE
    HighMark = 0
    MaxPost = 3
    Paced = FALSE
    MayTryPost = FALSE
    MayFinish = FALSE
    CongestStates = {"Idle","Executing"}
    AckAt = 1
    MaskConn = TRUE
    MaskDiscon = TRUE
    MaxPause = 1
    MayCancel = FALSE
    MaxLoss = 0
SPECIFICATION FairSpec
PROPERTIES EveryPostPopped
CHECK_DEADLOCK FALSE
