SPECIFICATION Spec
CONSTANTS
    User = {u1}
    Browser = {b1}
    Thread = {t1, t2}
    Token = {k1, k2}
    NoToken = NoToken
    AccessLen = 1
    RefreshLen = 1
    Faults = {}
    MaxClock = 1
PROPERTIES LogoutIsFinal
CHECK_DEADLOCK FALSE
