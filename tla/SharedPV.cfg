CONSTANTS
    u1 = u1
    u2 = u2
    c1 = c1
    c2 = c2
    Nobody = Nobody
    Worker = Worker
    Users = {u1, u2}
    Channels = {c1, c2}
    MaxValue = 2
    MaxClose = 1
    WorkerOpens = TRUE
SYMMETRY Symmetry
SPECIFICATION Spec
INVARIANTS
    NoneStranded
    NoUpdateMissed
    Bookkeeping
CHECK_DEADLOCK FALSE
