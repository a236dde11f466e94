SPECIFICATION SessionSpec
CONSTANTS
    p = p
    q = q
    none = none
    Phrase = {p, q}
    NoPhrase = none
    Attempts = 2
    Commands = 2
INVARIANT LockSilences
CHECK_DEADLOCK FALSE
