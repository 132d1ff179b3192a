CONSTANTS
    n1 = n1
    n2 = n2
    n3 = n3
    s1 = s1
    s2 = s2
    i1 = i1
    j1 = j1
    i2 = i2
    i3 = i3
    c1 = c1
    c2 = c2
    Names = {n1, n2, n3}
    Servers = {s1, s2}
    Ops = {i1, j1, i2, i3, c1, c2}
    Connectors = {c1, c2}
    OpName <- MCOpName
    Forced <- MCForced
    Hosts <- MCHosts
    NoServer = NoServer
    NameServer = s1
    Chans = {1, 2}
    Conns = {1, 2, 3}
    NBuckets = 2
    Holdoff = 1
    Crowd = 1
    NsTxLimit = 0
    TxLimit = 1
    Scenarios <- MCScenarios
SPECIFICATION FairSpec
INVARIANTS
    MapsAgree
    SearchedFor
    OpsFollow
    LifetimesRight
PROPERTIES
    InfoReplied
CHECK_DEADLOCK FALSE
