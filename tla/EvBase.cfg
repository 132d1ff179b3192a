CONSTANTS
    w = w
    t1 = t1
    t2 = t2
    none = none
    Threads = {w, t1, t2}
    Worker = w
    Nobody = none
    MaxWork = 4
SPECIFICATION FairSpec
INVARIANTS
    NoLostWakeup
    SignalIsMine
PROPERTIES
    Implements
    Progress
CHECK_DEADLOCK FALSE
