SPECIFICATION SettlesSpec
CONSTANTS
    p1 = p1
    p2 = p2
    p3 = p3
    p4 = p4
    n1 = n1
    n2 = n2
    n3 = n3
    MaxDegree = 1
    LocalLinks = 1
    OutTarget = 1
    MaxSignals = 0
    MaxSenders = 1
    MaxInst = 1
    Node = {n1, n2, n3}
    Packet = {k1, k2}
    Link0 <- Triangle
    TTL = 0
    Drift = 0
    MaxSize = 1
    Ahead = 0
    Behind = 0
    Resends = 0
    Sub0 <- NoSub
    Resubs = 0
    Downs = 0
    Writer = {n1}
    LastWrite = 0
    Horizon = 1
    Count = 1
    Self = me
    Topic = {t1}
    Item = {i1, i2}
    MaxPerTopic = 2
    MaxTopics = 1
    MaxTotal = 2
    MaxPerHour = 1
    Seal = 1
    Arrivals = 2
    Failures = 1
    Hours = 1
    Prunes = 0
    Restarts = 1
    Attempts = 1
    MaxPending = 2
    Peer <- TwoPeers
    Dist <- DistTwo
    Group <- OneGroup
    Far <- AllFar
PROPERTY ComesToRest
CHECK_DEADLOCK FALSE
