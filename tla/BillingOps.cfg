SPECIFICATION Spec
CONSTANTS
    User = {u1}
    Thread = {t1, t2}
    NoOrder = NoOrder
    TrialLen = 1
    Faults = {"liqpay"}
    Operators = {"SetPlan", "ExtendTrial", "CancelSubscription"}
    MaxClock = 2
    MaxCheckouts = 1
    MaxSends = 2
    MaxCrashes = 1
SYMMETRY Symmetry
INVARIANTS TypeOK RowConsistent
PROPERTIES ImplementsPromise
CHECK_DEADLOCK FALSE
