SPECIFICATION PeersSpec
CONSTANTS
    p1 = p1
    p2 = p2
    p3 = p3
    p4 = p4
    Peer <- TwoPeers
    Dist <- DistTwo
    MaxPending = 1
    MaxDegree = 1
    LocalLinks = 1
    OutTarget = 1
    MaxSignals = 1
    MaxSenders = 1
    Group <- OneGroup
    Far <- Answering
    MaxInst = 2
    Refill = 1
    Capacity = 2
    Points = 2
    BanAt = 3
    BanFor = 2
    HalfLife = 2
    PingEvery = 2
    Clock = 4
    Frames = 3
    Nonce = {o1, o2, o3}
    q1 = q1
    q2 = q2
    Me = me
    Neighbours = {q1, q2}
    MaxHeld = 2
    MaxHeldPerPeer = 1
    Routes <- Circuits
    MaxSeenCells = 1
    CellTtl = 1
    Cells = 2
    Admissions = 3
    Instants = 2
    Churns = 1
    h1 = h1
    h2 = h2
    k1 = k1
    k2 = k2
    Hint = {h1, h2}
    Key = {k1, k2}
    KeyOf <- KeyedApart
    Buffer = 1
INVARIANT SignalBuffer
INVARIANT PendingBound
INVARIANT DegreeBound
INVARIANT VerifiedIsOwner
INVARIANT KeptOut
PROPERTY LiveLinkKept
INVARIANT WellConducted
INVARIANT Relayed
INVARIANT NoneMissed
INVARIANT OnceEach
CHECK_DEADLOCK FALSE
