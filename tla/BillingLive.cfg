SPECIFICATION FairSpec
CONSTANTS
    User = {u1}
    Thread = {t1, t2}
    NoOrder = NoOrder
    TrialLen = 1
    Faults = {}
    Operators = {}
    MaxClock = 1
    MaxCheckouts = 2
    MaxSends = 2
    MaxCrashes = 1
PROPERTIES PaidLeavesPending
CHECK_DEADLOCK FALSE
