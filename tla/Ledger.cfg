SPECIFICATION FairSpec
CONSTANTS
    c1 = c1
    d1 = d1
    d2 = d2
    other = other
    OTHER_ = OTHER_
    food = food
    User = {u1, u2}
    Thread = {t1}
    CategoryId = {d1, d2, c1}
    TxId = {x1, x2}
    Name <- Names
    Fold <- Folds
    Amount = {"1.00"}
    Seeded <- Seeds
    None = None
    Malformed = Malformed
    File <- Files
    Body <- Bodies
    Category <- Categories
    Dates <- DateSet
    FreeDays = 0
    ProDays = 1
    FirstOfMonth = 0
    Sold = {"pro", "max"}
    LastDay = 1
    MaxChanges = 1
    MaxFaults = 1
INVARIANTS TypeOK CategoryVisible ImportFiled ExportNamed
PROPERTIES OverdueGoes
CHECK_DEADLOCK FALSE
