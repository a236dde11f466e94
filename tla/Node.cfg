SPECIFICATION PartsSpec
CONSTANTS
    Phrase = {s1, s2}
    NoPhrase = none
    Attempts = 2
    Commands = 2
    Store = {w1, w2}
    Pass = {p, q}
    Plain0 = {a, b}
    Written = {d}
    Steps = 2
    Unsealed = unsealed
    Nothing = nothing
    Count = 2
    MaxDepth = 3
    Wait = 3
    t1 = t1
    t2 = t2
    v1 = v1
    v2 = v2
    v3 = v3
    Topic = {t1, t2}
    ZoneOf <- TwoZones
    View = {v1, v2, v3}
    About <- AboutTopic
    Target = 2
    Measurable = 1
    Envelope = 2
    Patience = 3
    Noise = 1
    Window = 3
    Bodies = {1, 3}
    Hour = 5
    Seen = 2
    Loads = 1
    Maintainer = {m1, m2}
    Outsider = {x}
    Threshold = 2
    Guard = {g1, g2}
    Life = 1
    Skew = 0
    MaxSigs = 3
    Lag = 1
    Calendar = 1
    Editions = 1
    Drafts = 3
    b1 = b1
    b2 = b2
    NoBoard = NoBoard
    Board = {b1, b2}
    Packet = {tip, mine}
    Own = {mine}
    BoardOf <- OnOne
    MaxPow = 2
    Degree = 1
    MaxActs = 2
    InFlight = 2
    Failures = 1
INVARIANT KeysEarned
INVARIANT VaultKept
PROPERTY ZonesFollow
INVARIANT HeldForGain
INVARIANT Endorsed
INVARIANT StatusFits
INVARIANT DiskListed
PROPERTY WorkKept
CHECK_DEADLOCK FALSE
