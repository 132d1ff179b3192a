SPECIFICATION Spec
CHECK_DEADLOCK FALSE
CONSTANTS
    MaxNestingDepth = 20
    WordBytes = 2
    ByteBits = 2
    Subs = {1, 2}
    Limit = 1
    QueueSize = 1
    HeaderLen = 2
    Readahead = 4
    MaxUpdates = 5
    Scripts <- MCScripts
    FlowType <- MCFlowType
    FlowDeltas <- MCFlowDeltas
    Deltas <- MCDeltas
    Requests <- MCRequests
    TypeTrees <- MCTypeTrees
    MaskSizes <- MCMaskSizes
    Sizes <- MCSizes
    Exprs <- MCExprs
INVARIANTS
    WholeInOrder
    UpdatesAgree
    AlgorithmsAgree
PROPERTIES
    ReadProgress
