SPECIFICATION FairSpec
CONSTANTS
    User = {u1, u2}
    Browser = {b1}
    Thread = {t1, t2}
    Token = {k1, k2}
    NoToken = NoToken
    AccessLen = 1
    RefreshLen = 1
    Faults = {}
    MaxClock = 3
INVARIANTS CookiesAgree
PROPERTIES EndedByOwner DeadTokenDropped
CHECK_DEADLOCK FALSE
