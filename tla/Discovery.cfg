CONSTANTS
    p1 = p1
    p2 = p2
    t1 = t1
    t2 = t2
    n1 = n1
    Procs = {p1, p2}
    Origins = {p1, p2}
    Threads = {t1, t2}
    Listeners <- MCListeners
    MaxConn = 2
    ChangeMod = 3
    Burst = 1
    Discs = {1, 2}
    TrackLimit = 1
    MaxAge = 4
    ShortInterval = 1
    LongInterval = 2
    Delay = 1
    Hosted <- MCHosted
    Requests <- MCRequests
    Scenarios <- MCScenarios
SPECIFICATION FairSpec
INVARIANTS
    StatesAgree
    AnsweredOnceByAll
PROPERTIES
    NoFalseTimeout
    Settles
CHECK_DEADLOCK FALSE
