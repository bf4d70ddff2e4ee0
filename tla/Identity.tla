------------------------------ MODULE Identity ------------------------------
(***************************************************************************)
(* Who a user is: internal/service/auth over the users table. Sign-up and  *)
(* sign-in with e-mail, Apple and Google look a row up and create it if    *)
(* there is none, in two statements between which other requests run; only *)
(* the unique indexes of the table stand between two of them. The settings *)
(* of the profile page and the operator's paging through the table act on  *)
(* the same rows. (Plan and subscription are columns of these rows too;    *)
(* module Billing has them.)                                               *)
(***************************************************************************)
EXTENDS Naturals, Sequences, FiniteSets

CONSTANTS
    User,          \* ids the table can give out
    Thread,        \* goroutines that can be serving a request at one time
    AppleSub,      \* subjects in Apple's tokens
    Device,        \* subjects "dev:..." that DevSignIn makes up
    GoogleSub,     \* subjects in Google's tokens
    Email,         \* spellings of e-mail addresses
    Password,
    Null,          \* SQL NULL
    Blank,         \* Go's "", as an address or a password
    Normal,        \* Normal[e]: the spelling normalizeEmail gives e
    EmailOf,       \* EmailOf[s]: the address a provider knows s by, or Blank
    Value,         \* values of a setting, as requests send them
    Malformed,     \* a body that is not JSON
    Valid,         \* Valid[c]: the values the service lets into column c
    Trimmed,       \* Trimmed[v]: the profile v with the name's blanks trimmed
    Default,       \* the columns' default
    DefaultLimit,  \* parsePagination's page, and
    MaxLimit,      \* the largest it allows
    PageLimit,     \* rows the operator asks for at once
    MaxSaves,      \* bound: settings saved
    MaxFaults      \* bound: statements that fail

Sub     == AppleSub \cup Device \cup GoogleSub
Setting == {"preferences", "base_currency", "goals", "profile"}

Address == Email \cup {Blank}

ASSUME NullAssumption ==
    /\ Null \notin Sub \cup Address \cup Password
    /\ Blank \notin Sub \cup Email \cup Password
    /\ Malformed \notin Value
\* Subjects of two providers and addresses are different things, even if spelled alike.
ASSUME SubjectAssumption ==
    /\ (AppleSub \cup Device) \cap GoogleSub = {}
    /\ Email \cap Sub = {}
ASSUME ThreadAssumption == IsFiniteSet(Thread) /\ Thread # {}
ASSUME NormalAssumption ==
    /\ Normal \in [Email -> Address]
    /\ \A e \in Email : Normal[e] # Blank => Normal[Normal[e]] = Normal[e]
ASSUME ClaimAssumption == EmailOf \in [Sub -> Address]
ASSUME SettingAssumption ==
    /\ Valid \in [Setting -> SUBSET Value]
    /\ Trimmed \in [Value -> Value]
    /\ \A v \in Valid["profile"] : Trimmed[v] \in Valid["profile"]
    /\ \A c \in Setting : Default \in Valid[c]
ASSUME PageAssumption == MaxLimit \in Nat /\ DefaultLimit \in 1..MaxLimit /\ PageLimit \in 1..MaxLimit
ASSUME IdentityBounds == MaxSaves \in Nat /\ MaxFaults \in Nat

VARIABLES
    users,     \* users[u]: its row, or NoUser
    created,   \* the ids in the order of created_at
    thr,       \* thr[t]: where goroutine t is, with its locals
    granted,   \* sign-ins answered with an access token: credential and user
    refused,   \* refused[s]: sign-ins of s answered with "create user" errors
    walk,      \* the operator's walk through the pages of the user list
    saves, faults

vars == <<users, created, thr, granted, refused, walk, saves, faults>>

NoUser == [exists |-> FALSE]
UserRow == [exists : {TRUE},
            apple_sub : AppleSub \cup Device \cup {Null}, google_sub : GoogleSub \cup {Null},
            email : Email \cup {Null}, password : Password \cup {Null},
            settings : [Setting -> Value]]

\* What was proved at a sign-in: a provider's subject, or a password for an address.
Credential == [by : {"apple", "google"}, key : Sub, secret : {Null}]
              \cup [by : {"password"}, key : Email, secret : Password]

Idle  == [pc |-> "idle"]
Local == {Idle} \cup [pc : {"create"}, by : {"apple", "google", "password"}, row : UserRow]
NoWalk == [on |-> FALSE]

Exists(u) == users[u].exists

\* pgutil: absent text is NULL in a column and "" in Go.
TextFromString(x) == IF x = Blank THEN Null ELSE x
StringOf(column)  == IF column = Null THEN Blank ELSE column

\* The queries: at most one row each, as the indexes on the columns are unique.
UserGetByID(u)        == {w \in User : Exists(w) /\ w = u}
UserGetByAppleSub(s)  == {u \in User : Exists(u) /\ users[u].apple_sub = s}
UserGetByGoogleSub(s) == {u \in User : Exists(u) /\ users[u].google_sub = s}
UserGetByEmail(e)     == {u \in User : Exists(u) /\ users[u].email = e}

\* The repository's User, of a row any of them returns.
FromRow(u) == [ID |-> u, Email |-> StringOf(users[u].email),
               PasswordHash |-> StringOf(users[u].password)]

\* INSERT INTO users, the columns a statement does not name left to their defaults.
NewRow == [exists |-> TRUE, apple_sub |-> Null, google_sub |-> Null, email |-> Null,
           password |-> Null, settings |-> [c \in Setting |-> Default]]

UserCreate(sub, email) ==
    [NewRow EXCEPT !.apple_sub = TextFromString(sub), !.email = TextFromString(email)]
UserCreateWithGoogle(sub, email) ==
    [NewRow EXCEPT !.google_sub = TextFromString(sub), !.email = TextFromString(email)]
UserCreateWithEmail(email, hash) ==
    [NewRow EXCEPT !.email = TextFromString(email), !.password = TextFromString(hash)]

\* Slip: only the address is unique.
UniqueEmailOnly(r) ==
    \A u \in User : Exists(u) => r.email = Null \/ r.email # users[u].email

\* The unique indexes, each on the rows where its column is not NULL.
Unique(r) ==
    \A u \in User : Exists(u) =>
        \A c \in {"apple_sub", "google_sub", "email"} : r[c] = Null \/ r[c] # users[u][c]

\* bcrypt: Verify accepts the password Hash was given, and no other.
Hash(password)         == password
Verify(hash, password) == hash = Hash(password)

Init ==
    /\ users = [u \in User |-> NoUser]
    /\ created = << >>
    /\ thr = [t \in Thread |-> Idle]
    /\ granted = {}
    /\ refused = [s \in Sub |-> 0]
    /\ walk = NoWalk
    /\ saves = 0 /\ faults = 0

Quiet == UNCHANGED <<walk, saves>>

Key(by, r) == CASE by = "apple"    -> [by |-> by, key |-> r.apple_sub, secret |-> Null]
                [] by = "google"   -> [by |-> by, key |-> r.google_sub, secret |-> Null]
                [] by = "password" -> [by |-> by, key |-> r.email, secret |-> r.password]

\* jwt.Generate and the answer: the client holds an access token of user u.
Grant(credential, u) == granted' = granted \cup {[credential |-> credential, user |-> u]}

-----------------------------------------------------------------------------
\* The row is not there: the goroutine goes on to create r.
GoCreate(t, by, r) ==
    /\ thr' = [thr EXCEPT ![t] = [pc |-> "create", by |-> by, row |-> r]]
    /\ UNCHANGED <<users, created, granted, refused, faults>> /\ Quiet

\* A look-up that finds the row answers at once.
Found(credential, us) ==
    /\ \E u \in us : Grant(credential, u)
    /\ UNCHANGED <<users, created, thr, refused, faults>> /\ Quiet

\* Slip: the user is looked up by the address in the token.
FindOrCreateByAddress(t, s, email) ==
    LET us == UserGetByEmail(email) r == UserCreate(s, email) IN
    IF us = {} THEN GoCreate(t, "apple", r) ELSE Found(Key("apple", r), us)

findOrCreateAndIssueToken(t, s, email) ==
    LET us == UserGetByAppleSub(s) r == UserCreate(s, email) IN
    IF us = {} THEN GoCreate(t, "apple", r) ELSE Found(Key("apple", r), us)

\* Apple sends the address with the first token of a user, and need not later.
SignInWithApple(t, s) ==
    /\ thr[t] = Idle
    /\ s \in AppleSub
    /\ \E email \in {Blank, EmailOf[s]} : findOrCreateAndIssueToken(t, s, email)

DevSignIn(t, s) ==
    /\ thr[t] = Idle
    /\ s \in Device
    /\ findOrCreateAndIssueToken(t, s, Blank)

SignInWithGoogle(t, s) ==
    /\ thr[t] = Idle
    /\ s \in GoogleSub
    /\ LET us == UserGetByGoogleSub(s) r == UserCreateWithGoogle(s, EmailOf[s]) IN
       IF us = {} THEN GoCreate(t, "google", r) ELSE Found(Key("google", r), us)

\* Slip: the address is stored as it was typed.
SignUpAsTyped(t, address, password) ==
    /\ thr[t] = Idle
    /\ Normal[address] # Blank
    /\ UserGetByEmail(address) = {}
    /\ GoCreate(t, "password", UserCreateWithEmail(address, Hash(password)))

SignUpWithEmail(t, address, password) ==
    LET email == Normal[address] IN
    /\ thr[t] = Idle
    /\ email # Blank
    /\ UserGetByEmail(email) = {}
    /\ GoCreate(t, "password", UserCreateWithEmail(email, Hash(password)))

SignInWithEmail(t, address, password) ==
    LET email == Normal[address]
        us    == {u \in UserGetByEmail(email) :
                    /\ FromRow(u).PasswordHash # Blank
                    /\ Verify(FromRow(u).PasswordHash, password)} IN
    /\ thr[t] = Idle
    /\ us # {}
    /\ Found([by |-> "password", key |-> email, secret |-> Hash(password)], us)

\* Slip: ON CONFLICT (email) DO UPDATE, which links the sign-in to the row.
CreateOrLink(t) ==
    LET l == thr[t] IN
    /\ l.pc = "create"
    /\ \E u \in User :
        /\ IF l.row.email # Null /\ UserGetByEmail(l.row.email) # {}
           THEN u \in UserGetByEmail(l.row.email) /\ UNCHANGED created
           ELSE Unique(l.row) /\ ~Exists(u) /\ created' = Append(created, u)
        /\ users' = [users EXCEPT ![u] = l.row]
        /\ Grant(Key(l.by, l.row), u)
    /\ thr' = [thr EXCEPT ![t] = Idle]
    /\ UNCHANGED <<refused, faults>> /\ Quiet

\* The INSERT: a row and its token, or a unique index says no.
Create(t) ==
    LET l == thr[t] IN
    /\ l.pc = "create"
    /\ Unique(l.row)
    /\ \E u \in User :
        /\ ~Exists(u)
        /\ users' = [users EXCEPT ![u] = l.row]
        /\ created' = Append(created, u)
        /\ Grant(Key(l.by, l.row), u)
    /\ thr' = [thr EXCEPT ![t] = Idle]
    /\ UNCHANGED <<refused, faults>> /\ Quiet

Refuse(t) ==
    LET l == thr[t] k == Key(l.by, l.row).key IN
    /\ l.pc = "create"
    /\ ~Unique(l.row)
    /\ refused' = IF k \in Sub /\ refused[k] <= Cardinality(Thread)
                  THEN [refused EXCEPT ![k] = @ + 1] ELSE refused
    /\ thr' = [thr EXCEPT ![t] = Idle]
    /\ UNCHANGED <<users, created, granted, faults>> /\ Quiet

DbFails(t) ==
    /\ thr[t].pc = "create"
    /\ faults < MaxFaults /\ faults' = faults + 1
    /\ thr' = [thr EXCEPT ![t] = Idle]
    /\ UNCHANGED <<users, created, granted, refused>> /\ Quiet

-----------------------------------------------------------------------------
\* UPDATE users SET <the column's> WHERE id = u.
Save(u, c, v) ==
    /\ saves < MaxSaves /\ saves' = saves + 1
    /\ Exists(u)
    /\ users' = [users EXCEPT ![u].settings[c] = v]
    /\ UNCHANGED <<created, thr, granted, refused, walk, faults>>

\* The statements, the service's operations with their tests, and the handlers,
\* which refuse a body they cannot decode.
UserUpdatePreferences(u, v)  == Save(u, "preferences", v)
UserUpdateBaseCurrency(u, v) == Save(u, "base_currency", v)
UserUpdateGoals(u, v)        == Save(u, "goals", v)
UserUpdateProfile(u, v)      == Save(u, "profile", v)

UpdatePreferences(u, v)  == v \in Valid["preferences"] /\ UserUpdatePreferences(u, v)
UpdateBaseCurrency(u, v) == v \in Valid["base_currency"] /\ UserUpdateBaseCurrency(u, v)
\* Slip: the length of the text is not looked at.
UpdateGoalsAnyLength(u, v) == UserUpdateGoals(u, v)

UpdateGoals(u, v)        == v \in Valid["goals"] /\ UserUpdateGoals(u, v)
UpdateProfile(u, v)      == v \in Valid["profile"] /\ UserUpdateProfile(u, Trimmed[v])

updatePreferences(u, body) == body # Malformed /\ UpdatePreferences(u, body)
updateCurrency(u, body)    == body # Malformed /\ UpdateBaseCurrency(u, body)
updateGoals(u, body)       == body # Malformed /\ UpdateGoals(u, body)
updateProfile(u, body)     == body # Malformed /\ UpdateProfile(u, body)

\* GET /api/auth/me: the user of the token, while the row is there.
Me(u) == {FromRow(w) : w \in UserGetByID(u)}

-----------------------------------------------------------------------------
parsePagination(limit, offset) ==
    [limit  |-> IF limit \in 1..MaxLimit THEN limit ELSE DefaultLimit,
     offset |-> IF offset >= 0 THEN offset ELSE 0]

\* Slip: count(*) without its window: the rows of this page.
CountOfPage(p) ==
    Cardinality({i \in 1..Len(created) : p.offset < i /\ i <= p.offset + p.limit})

\* The total, count(*) OVER (), rides on the rows: an empty page says 0.
TotalCount(p) == IF Len(created) > p.offset THEN Len(created) ELSE 0

\* One page, newest first, and the total.
UserListForAdmin(p) ==
    [users |-> {created[Len(created) + 1 - i] :
                 i \in {j \in 1..Len(created) : p.offset < j /\ j <= p.offset + p.limit}},
     total |-> TotalCount(p)]

ListUsers(offset, seen, known) ==
    LET page == UserListForAdmin(parsePagination(PageLimit, offset)) IN
    /\ walk' = [on |-> TRUE, offset |-> offset + PageLimit, total |-> page.total,
                seen |-> seen \cup page.users, known |-> known]
    /\ UNCHANGED <<users, created, thr, granted, refused, saves, faults>>

\* The dashboard's pager (not in this repository): first page, then the next
\* until the offset passes the total it was last told.
WalkDone  == walk.on /\ walk.offset >= walk.total
FirstPage == ~walk.on /\ ListUsers(0, {}, {created[i] : i \in 1..Len(created)})
NextPage  == walk.on /\ ~WalkDone /\ ListUsers(walk.offset, walk.seen, walk.known)
Leave     == /\ WalkDone
             /\ walk' = NoWalk
             /\ UNCHANGED <<users, created, thr, granted, refused, saves, faults>>

-----------------------------------------------------------------------------
\* The gRPC service has the app's two sign-ins, REST the web's.
AuthController(t) ==
    \/ \E s \in AppleSub : SignInWithApple(t, s)
    \/ \E s \in Device : DevSignIn(t, s)

Request(t) ==
    \/ AuthController(t)
    \/ \E s \in GoogleSub : SignInWithGoogle(t, s)
    \/ \E e \in Email, p \in Password : SignUpWithEmail(t, e, p) \/ SignInWithEmail(t, e, p)

Settings(u, body) ==
    \/ updatePreferences(u, body) \/ updateCurrency(u, body)
    \/ updateGoals(u, body) \/ updateProfile(u, body)

Operator == FirstPage \/ NextPage \/ Leave

Next ==
    \/ \E t \in Thread : Request(t) \/ Create(t) \/ Refuse(t) \/ DbFails(t)
    \/ \E u \in User, body \in Value \cup {Malformed} : Settings(u, body)
    \/ Operator

Spec == Init /\ [][Next]_vars

-----------------------------------------------------------------------------
TypeOK ==
    /\ users \in [User -> UserRow \cup {NoUser}]
    /\ \A u \in User, c \in Setting : Exists(u) => users[u].settings[c] \in Valid[c]
    /\ created \in Seq(User)
    /\ thr \in [Thread -> Local]
    /\ granted \subseteq [credential : Credential, user : User]
    /\ refused \in [Sub -> Nat]
    /\ saves \in Nat /\ faults \in Nat

\* Whoever proves an identity again is the same user: two tokens given for one
\* Apple or Google subject, or for one address and password, name one row, and
\* that row carries the identity (findOrCreateAndIssueToken, SignInWithGoogle,
\* SignInWithEmail, however their look-ups and inserts interleave).
SameIdentitySameUser ==
    /\ \A g \in granted : /\ Me(g.user) # {}
                          /\ Key(g.credential.by, users[g.user]) = g.credential
    /\ \A g, h \in granted : g.credential = h.credential => g.user = h.user

\* Who signed up with an address and a password can sign in with it in every
\* spelling (SignUpWithEmail and SignInWithEmail agree on normalizeEmail, and no
\* provider's row hides the one with the password).
PasswordReachable ==
    \A u \in User : (Exists(u) /\ users[u].password # Null) =>
        \A e \in Email : Normal[e] = Normal[users[u].email] => UserGetByEmail(Normal[e]) = {u}

\* Racing first sign-ins cost a user without a contested address at most one
\* refusal for each other goroutine in flight: from then on the look-up finds the
\* row (auth.go:225 and 131, the unique index as the only lock).
RaceRefusesFew ==
    \A s \in Sub : EmailOf[s] = Blank => refused[s] < Cardinality(Thread)

\* A sign-in never takes over, links or rewrites a row that exists: no step changes
\* who a row is, and none changes more than one setting of one user.
IdentityFixed ==
    [][/\ \A u \in User : Exists(u) =>
            [users'[u] EXCEPT !.settings = Null] = [users[u] EXCEPT !.settings = Null]
       /\ Cardinality({k \in User \X Setting : Exists(k[1]) /\
                users'[k[1]].settings[k[2]] # users[k[1]].settings[k[2]]}) <= 1]_vars

\* The operator's walk misses nobody who was there when it began, although offsets
\* shift under it with every sign-up (UserListForAdmin orders newest first).
NoUserSkipped == WalkDone => walk.known \subseteq walk.seen

-----------------------------------------------------------------------------
(* The promise behind it: Identity implements Accounts.                    *)

\* Who a row is: what its owner proves to get in.
IdentityOf(r) ==
    CASE r.apple_sub # Null  -> Key("apple", r)
      [] r.google_sub # Null -> Key("google", r)
      [] OTHER               -> Key("password", r)

Promise == INSTANCE Accounts WITH
    Identity <- Credential,
    Nobody   <- NoUser,
    identity <- [u \in User |-> IF Exists(u) THEN IdentityOf(users[u]) ELSE NoUser],
    settings <- [u \in User |-> IF Exists(u) THEN users[u].settings ELSE NewRow.settings],
    tokens   <- {<<g.credential, g.user>> : g \in granted}

\* However look-ups and inserts of first sign-ins interleave, and whoever saves what
\* meanwhile, each step registers a free identity, lets one in, saves one valid
\* setting, or changes none of these (internal/service/auth, over the indexes).
ImplementsAccounts == Promise!Spec

=============================================================================
