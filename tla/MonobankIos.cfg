SPECIFICATION Spec
CONSTANTS
    k1 = k1
    card = card
    euroCard = euroCard
    i1 = i1
    uah = uah
    eur = eur
    usd = usd
    User = {u1}
    Thread = {t1, t2}
    Token = {k1}
    Secret = {s1}
    Account = {card, euroCard}
    Item = {i1}
    RowId = {r1, r2}
    Currency = {uah, eur, usd}
    Covers <- BothUnderOne
    AccountOf <- OnCard
    CurrencyOf <- PickerSays
    Reported <- Abroad
    None = None
    Unknown = Unknown
    Edited = Edited
    Pick <- Lists
    MaxFaults = 0
PROPERTIES ConnectStores
CHECK_DEADLOCK FALSE
