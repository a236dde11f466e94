SPECIFICATION RelaysSpec
CONSTANTS
    n1 = n1
    n2 = n2
    Node = {n1, n2}
    Packet = {k1}
    Link0 <- Pair
    TTL = 1
    Drift = 1
    MaxSize = 2
    Ahead = 0
    Behind = 1
    Attempts = 2
    Resends = 2
    Sub0 <- AnySub
    Resubs = 1
    Downs = 1
    Writer = {n1, n2}
    LastWrite = 4
    Horizon = 4
    Count = 2
    Sender = {s1, s2}
    CachePacket = {g1}
    Stamp <- AtZero
    Mark = {h1}
    Key = {key1, g1}
    Good = {e1, e2}
    Batch = {{e1, e2, j1}}
    Burst = 1
    Queue = 1
    Disk = 2
    MaxSeen = 1
    SeenTtl = 1
    Offset = 1
    PerTopic = 1
    MaxKeys = 1
    Keep = 1
    Minutes = 2
    Remote = {r}
    Sessions = 2
    p1 = p1
    p2 = p2
    p3 = p3
    Peer = {p1, p2, p3}
    Dist <- Distances
    MaxPending = 2
    MaxDegree = 1
    LocalLinks = 1
    OutTarget = 1
    MaxSignals = 0
    MaxSenders = 1
    Group = {"unknown", "v4"}
    Far = {"self"}
    MaxInst = 1
INVARIANT OnlyOnce
PROPERTY Shown
INVARIANT CacheHolds
INVARIANT TableTrue
PROPERTY EvictionOrder
CHECK_DEADLOCK FALSE
