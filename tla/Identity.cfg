SPECIFICATION Spec
CONSTANTS
    apple = apple
    dev = dev
    google = google
    lower = lower
    upper = upper
    spaces = spaces
    plain = plain
    fancy = fancy
    padded = padded
    bad = bad
    User = {u1, u2, u3}
    Thread = {t1, t2}
    AppleSub = {apple}
    Device = {dev}
    GoogleSub = {google}
    Email <- Emails
    Password = {p1, p2}
    Null = Null
    Blank = Blank
    Normal <- Lowered
    EmailOf <- Addresses
    Value <- Values
    Malformed = Malformed
    Valid <- Accepted
    Trimmed <- Trims
    Default = plain
    DefaultLimit = 1
    MaxLimit = 2
    PageLimit = 1
    MaxSaves = 1
    MaxFaults = 1
SYMMETRY Symmetry
INVARIANTS TypeOK SameIdentitySameUser PasswordReachable RaceRefusesFew NoUserSkipped
PROPERTIES ImplementsAccounts
CHECK_DEADLOCK FALSE
