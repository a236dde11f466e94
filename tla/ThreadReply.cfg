SPECIFICATION Spec
CONSTANTS
    t1 = t1
    t2 = t2
    a = a
    b = b
    c = c
    mine = mine
    NoThread = NoThread
    Thread = {t1, t2}
    Post = {a, b, mine}
    Own = {mine}
    ThreadOf <- Threads
    Rank <- Ranked
    Parents0 <- Answers
    MaxTips = 1
    MaxActs = 2
    InFlight = 1
    Failures = 0
INVARIANT OneThread
CHECK_DEADLOCK FALSE
