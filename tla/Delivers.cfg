SPECIFICATION DeliversSpec
CONSTANTS
    me = me
    p1 = p1
    p2 = p2
    p3 = p3
    n1 = n1
    n2 = n2
    n3 = n3
    m1 = m1
    m2 = m2
    m3 = m3
    NoAnswer = NoAnswer
    Call = {c1}
    Peer = {me, p1, p2, p3}
    Self = me
    Rank <- Distances
    K = 2
    Entry = {e1, bad}
    Genuine = {e1}
    Body = {e1}
    Moves = 4
    Neighbour = {n1, n2, n3}
    Slot = {x1}
    Parts = 2
    PerMessage = 1
    Far <- Rings
    Near = 2
    Debounce = 2
    Churn = 4
    Message = {m1, m2, m3}
    Length <- Lengths
    Full = 1
    MaxPending = 1
    MaxChunks = 3
PROPERTY Promised
INVARIANT RequestsAgree
PROPERTY Spread
INVARIANT Intact
PROPERTY SendsEnd
CHECK_DEADLOCK FALSE
