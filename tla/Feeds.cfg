SPECIFICATION FeedsSpec
CONSTANTS
    None = None
    Batches <- Records
    Name <- Names
    Rate <- Rates
    Moments <- Instants
    MaxBatches = 3
    a = a
    b = b
    c = c
    Listed <- CategoryList
    Old = {a}
    Blank = {b}
    Healers = {g1, g2}
    Unmade = Unmade
    Gone = Gone
    HealFaults = 1
    Code = {"JPY", "USD", "EUR"}
    Supported = {"USD", "EUR"}
    Readers = {g1}
    LastDay = 1
    RateFaults = 1
    Key = {k1, k2}
    Issuers = {"google"}
    Entrants = {g1, g2}
    Hour = 2
    MaxRotations = 2
    KeyFaults = 1
    User = {u1, u2}
    Currency = {"UAH", "USD"}
    Askers = {g1}
    Ttl = 1
    LastTick = 3
    MaxChanges = 1
    InsightFaults = 1
INVARIANTS HistoryTrue InsightsSound FiguresSound
PROPERTIES HealCompletes RatesFresh RetiredKeysExpire SignInEnds
CHECK_DEADLOCK FALSE
