SPECIFICATION LiveSpec
CONSTANTS
    a = a
    b = b
    x = x
    m1 = m1
    m2 = m2
    Node = {a, b, x}
    Msg = {m1}
    MaxAttempts = 2
    MaxQueue = 1
    Churn = 3
    Answers = 2
    Stops = 1
INVARIANT ExitBehindGuard
PROPERTY SendReturns
CHECK_DEADLOCK FALSE
