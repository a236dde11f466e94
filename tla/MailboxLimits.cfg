SPECIFICATION LimitsSpec
CONSTANTS
    t1 = t1
    t2 = t2
    t3 = t3
    e1 = e1
    e2 = e2
    e3 = e3
    me = me
    peer = peer
    Self = me
    Peer = {me, peer}
    Topic = {t1, t2, t3}
    Entry = {e1, e2, e3}
    MaxPerTopic = 2
    MaxTopics = 2
    MaxTotal = 3
    MaxPerHour = 2
    Seal = 0
    Arrivals = 3
    Failures = 1
    Hours = 1
    Prunes = 1
    Restarts = 1
INVARIANT WellStored
SYMMETRY Symmetric
CHECK_DEADLOCK FALSE
