SPECIFICATION Spec
CONSTANTS
    User = {u1, u2}
    Thread = {t1, t2}
    NoOrder = NoOrder
    TrialLen = 1
    Faults = {"db", "liqpay"}
    Operators = {}
    MaxClock = 2
    MaxCheckouts = 2
    MaxSends = 2
    MaxCrashes = 0
SYMMETRY Symmetry
INVARIANTS AccessIsPaidFor CanceledHasCause OrderOwnership EventsSound
CHECK_DEADLOCK FALSE
