SPECIFICATION Spec
CONSTANTS
    User = {u1}
    Browser = {b1}
    Thread = {t1, t2}
    Token = {k1, k2, k3}
    NoToken = NoToken
    AccessLen = 1
    RefreshLen = 2
    Faults = {"db", "answer"}
    MaxClock = 3
SYMMETRY Symmetry
INVARIANTS TypeOK OldTokenRevoked
PROPERTIES FinishedForGood
CHECK_DEADLOCK FALSE
