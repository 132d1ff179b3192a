CONSTANTS
    QueueSize = 2
    Pipeline = FALSE
    HighMark = 0
    MaxPost = 3
    Paced = FALSE
    MayTryPost = TRUE
    MayFinish = TRUE
    CongestStates = {"Idle","Executing"}
    AckAt = 1
    MaskConn = FALSE
    MaskDiscon = FALSE
    MaxPause = 1
    MayCancel = TRUE
    MaxLoss = 1
SPECIFICATION Spec
INVARIANTS
    Delivered
    NoMissedEvent
    NoStall
    ServerChecksHold
CHECK_DEADLOCK FALSE
