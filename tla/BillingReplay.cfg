SPECIFICATION Spec
CONSTANTS
    User = {u1}
    Thread = {t1}
    NoOrder = NoOrder
    TrialLen = 1
    Faults = {}
    Operators = {}
    MaxClock = 1
    MaxCheckouts = 1
    MaxSends = 2
    MaxCrashes = 0
PROPERTIES ReplayDropped
CHECK_DEADLOCK FALSE
