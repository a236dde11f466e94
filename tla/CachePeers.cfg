SPECIFICATION CachePeersSpec
CONSTANTS
    p = p
    Remote = {p}
    Sessions = 3
INVARIANT MarkedHandshook
CHECK_DEADLOCK FALSE
