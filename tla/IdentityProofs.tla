--------------------------- MODULE IdentityProofs ---------------------------
(***************************************************************************)
(* Proofs about Identity, for any users, goroutines, subjects, addresses   *)
(* and failures. A look-up that found nobody may be old when the row is    *)
(* inserted; the unique indexes make up for it, and rows never change who  *)
(* they are. Seen through those rows alone, Identity implements Accounts.  *)
(***************************************************************************)
EXTENDS Identity, FiniteSetTheorems, TLAPS

-----------------------------------------------------------------------------
(* Rows on their way, by who makes them.                                   *)

AppleRow(r) ==
    /\ r.apple_sub \in AppleSub \cup Device
    /\ r.google_sub = Null /\ r.password = Null
    /\ r.email \in {Null, TextFromString(EmailOf[r.apple_sub])}

GoogleRow(r) ==
    /\ r.google_sub \in GoogleSub
    /\ r.apple_sub = Null /\ r.password = Null
    /\ r.email = TextFromString(EmailOf[r.google_sub])

PasswordRow(r) ==
    /\ r.email \in Email /\ Normal[r.email] = r.email
    /\ r.password \in Password
    /\ r.apple_sub = Null /\ r.google_sub = Null

RowBy(by, r) ==
    /\ r \in UserRow
    /\ \A c \in Setting : r.settings[c] \in Valid[c]
    /\ \/ by = "apple" /\ AppleRow(r)
       \/ by = "google" /\ GoogleRow(r)
       \/ by = "password" /\ PasswordRow(r)

LEMMA NewRowFine ==
    /\ NewRow \in UserRow
    /\ NewRow.apple_sub = Null /\ NewRow.google_sub = Null /\ NewRow.password = Null
    /\ \A c \in Setting : NewRow.settings[c] \in Valid[c]
<1>1. \A c \in Setting : Default \in Valid[c] /\ Valid[c] \subseteq Value
  BY SettingAssumption
<1>2. QED
  BY <1>1 DEF NewRow, UserRow

LEMMA UserCreateFine ==
    ASSUME NEW s \in AppleSub \cup Device, NEW email \in {Blank, EmailOf[s]}
    PROVE  /\ RowBy("apple", UserCreate(s, email))
           /\ UserCreate(s, email).apple_sub = s
<1> DEFINE r == UserCreate(s, email)
           e == TextFromString(email)
<1>1. s # Blank /\ s # Null /\ EmailOf[s] \in Address
  BY NullAssumption, ClaimAssumption DEF Sub
<1>2. TextFromString(s) = s
  BY <1>1 DEF TextFromString
<1>3. e \in Email \cup {Null} /\ e \in {Null, TextFromString(EmailOf[s])}
  BY <1>1 DEF TextFromString, Address
<1> HIDE DEF e
<1>4. r = [NewRow EXCEPT !.apple_sub = s, !.email = e]
  BY <1>2 DEF UserCreate, e
<1>5. r \in UserRow /\ r.apple_sub = s /\ r.google_sub = Null /\ r.password = Null /\ r.email = e
      /\ r.settings = NewRow.settings
  BY <1>3, <1>4, NewRowFine DEF UserRow
<1>6. QED
  BY <1>3, <1>5, NewRowFine DEF RowBy, AppleRow

LEMMA UserCreateWithGoogleFine ==
    ASSUME NEW s \in GoogleSub
    PROVE  /\ RowBy("google", UserCreateWithGoogle(s, EmailOf[s]))
           /\ UserCreateWithGoogle(s, EmailOf[s]).google_sub = s
<1> DEFINE r == UserCreateWithGoogle(s, EmailOf[s])
           e == TextFromString(EmailOf[s])
<1>1. s # Blank /\ s # Null /\ EmailOf[s] \in Address
  BY NullAssumption, ClaimAssumption DEF Sub
<1>2. TextFromString(s) = s
  BY <1>1 DEF TextFromString
<1>3. e \in Email \cup {Null}
  BY <1>1 DEF TextFromString, Address
<1>4. r = [NewRow EXCEPT !.google_sub = s, !.email = e]
  BY <1>2 DEF UserCreateWithGoogle
<1> HIDE DEF e, r
<1>5. r \in UserRow /\ r.apple_sub = Null /\ r.google_sub = s /\ r.password = Null /\ r.email = e
      /\ r.settings = NewRow.settings
  BY <1>3, <1>4, NewRowFine DEF UserRow
<1>6. QED
  BY <1>5, NewRowFine DEF RowBy, GoogleRow, e, r

LEMMA UserCreateWithEmailFine ==
    ASSUME NEW address \in Email, Normal[address] # Blank, NEW p \in Password
    PROVE  RowBy("password", UserCreateWithEmail(Normal[address], Hash(p)))
<1> DEFINE email == Normal[address]
           r == UserCreateWithEmail(email, Hash(p))
<1>1. email \in Email /\ email # Blank /\ Normal[email] = email /\ p # Blank
  BY NullAssumption, NormalAssumption DEF Address
<1> HIDE DEF email
<1>2. r = [NewRow EXCEPT !.email = email, !.password = p]
  BY <1>1 DEF UserCreateWithEmail, TextFromString, Hash
<1> HIDE DEF r
<1>3. r \in UserRow /\ r.apple_sub = Null /\ r.google_sub = Null /\ r.password = p
      /\ r.email = email /\ r.settings = NewRow.settings
  BY <1>1, <1>2, NewRowFine DEF UserRow
<1>4. QED
  BY <1>1, <1>3, NewRowFine DEF RowBy, PasswordRow, email, r

-----------------------------------------------------------------------------
(* The invariant.                                                          *)

\* No two rows have an identity in common.
Distinct ==
    \A u, v \in User : (Exists(u) /\ Exists(v) /\ u # v) =>
        /\ users[u].apple_sub = Null \/ users[u].apple_sub # users[v].apple_sub
        /\ users[u].google_sub = Null \/ users[u].google_sub # users[v].google_sub
        /\ users[u].email = Null \/ users[u].email # users[v].email

RowsFine == \A u \in User : Exists(u) => \E by : RowBy(by, users[u])

PendingFine == \A t \in Thread : thr[t].pc = "create" => RowBy(thr[t].by, thr[t].row)

GrantsFine ==
    \A g \in granted : Exists(g.user) /\ Key(g.credential.by, users[g.user]) = g.credential

Inv == TypeOK /\ Distinct /\ RowsFine /\ PendingFine /\ GrantsFine

LEMMA ExistsFacts ==
    ASSUME TypeOK, NEW u \in User
    PROVE  /\ Exists(u) => users[u] \in UserRow
           /\ ~Exists(u) => users[u] = NoUser
<1>1. users[u] \in UserRow \/ users[u] = NoUser
  BY DEF TypeOK
<1>2. users[u] \in UserRow => Exists(u)
  BY DEF UserRow, Exists
<1>3. users[u] = NoUser => ~Exists(u)
  BY DEF NoUser, Exists
<1>4. QED
  BY <1>1, <1>2, <1>3

\* A goroutine that is about to insert has a row.
LEMMA LocalFacts ==
    ASSUME TypeOK, NEW t \in Thread, thr[t].pc = "create"
    PROVE  thr[t] \in [pc : {"create"}, by : {"apple", "google", "password"}, row : UserRow]
BY DEF TypeOK, Local, Idle

\* The credential of a row, by who made it.
LEMMA KeyFacts ==
    ASSUME NEW by, NEW r, RowBy(by, r)
    PROVE  /\ Key(by, r) \in Credential /\ Key(by, r).key # Null
           /\ by = "apple" => Key(by, r).key = r.apple_sub
           /\ by = "google" => Key(by, r).key = r.google_sub
           /\ by = "password" => Key(by, r).key = r.email /\ Key(by, r).key \notin Sub
           /\ Key(by, r).by = by
BY NullAssumption, SubjectAssumption
   DEF RowBy, AppleRow, GoogleRow, PasswordRow, Key, Credential, Sub, Address

LEMMA InitInv == Init => Inv
BY IdentityBounds
   DEF Init, Inv, TypeOK, Distinct, RowsFine, PendingFine, GrantsFine, Exists, NoUser, Idle, Local

-----------------------------------------------------------------------------
(* The steps of a sign-in.                                                 *)

LEMMA GoCreateStep ==
    ASSUME Inv, NEW t \in Thread, NEW by \in {"apple", "google", "password"}, NEW r,
           RowBy(by, r), GoCreate(t, by, r)
    PROVE  Inv'
<1> DEFINE l == [pc |-> "create", by |-> by, row |-> r]
<1>1. thr' = [thr EXCEPT ![t] = l] /\ UNCHANGED <<users, created, granted, refused, faults, walk, saves>>
  BY DEF GoCreate, Quiet
<1>2. l \in Local
  BY DEF Local, RowBy
<1>3. TypeOK'
  BY <1>1, <1>2 DEF Inv, TypeOK, Exists
<1>4. PendingFine'
  <2>1. ASSUME NEW s \in Thread, thr'[s].pc = "create" PROVE RowBy(thr'[s].by, thr'[s].row)
    <3>1. thr'[s] = thr[s] \/ thr'[s] = l
      BY <1>1 DEF Inv, TypeOK
    <3>2. QED
      BY <2>1, <3>1 DEF Inv, PendingFine
  <2>2. QED
    BY <2>1 DEF PendingFine
<1>5. QED
  BY <1>1, <1>3, <1>4 DEF Inv, Distinct, RowsFine, GrantsFine, Exists

\* A sign-in that finds its row changes what is granted and nothing else.
LEMMA FoundStep ==
    ASSUME Inv, NEW credential \in Credential, NEW us \in SUBSET User,
           \A u \in us : Exists(u) /\ Key(credential.by, users[u]) = credential,
           Found(credential, us)
    PROVE  Inv'
<1>1. PICK u \in us : granted' = granted \cup {[credential |-> credential, user |-> u]}
  BY DEF Found, Grant
<1>2. UNCHANGED <<users, created, thr, refused, faults, walk, saves>>
  BY DEF Found, Quiet
<1>3. TypeOK'
  BY <1>1, <1>2 DEF Inv, TypeOK, Exists
<1>4. GrantsFine'
  <2>1. ASSUME NEW g \in granted'
        PROVE  Exists(g.user) /\ Key(g.credential.by, users[g.user]) = g.credential
    <3>1. CASE g \in granted
      BY <3>1 DEF Inv, GrantsFine
    <3>2. CASE g = [credential |-> credential, user |-> u]
      BY <3>2
    <3>3. QED
      BY <1>1, <2>1, <3>1, <3>2
  <2>2. QED
    BY <1>2, <2>1 DEF GrantsFine, Exists
<1>5. QED
  BY <1>2, <1>3, <1>4 DEF Inv, Distinct, RowsFine, PendingFine, Exists

LEMMA AppleStep ==
    ASSUME Inv, NEW t \in Thread, NEW s \in AppleSub \cup Device, NEW email \in {Blank, EmailOf[s]},
           findOrCreateAndIssueToken(t, s, email)
    PROVE  Inv'
<1> DEFINE r == UserCreate(s, email)
           us == UserGetByAppleSub(s)
<1>1. RowBy("apple", r) /\ r.apple_sub = s
  BY UserCreateFine
<1> HIDE DEF r
<1>2. CASE us = {}
  BY <1>1, <1>2, GoCreateStep DEF findOrCreateAndIssueToken, r
<1>3. CASE us # {}
  <2>1. Found(Key("apple", r), us)
    BY <1>3 DEF findOrCreateAndIssueToken, r
  <2>2. Key("apple", r) \in Credential /\ Key("apple", r).by = "apple"
    BY <1>1, KeyFacts
  <2>3. \A u \in us : u \in User /\ Exists(u) /\ Key("apple", users[u]) = Key("apple", r)
    BY <1>1 DEF UserGetByAppleSub, Key
  <2>4. QED
    BY <2>1, <2>2, <2>3, FoundStep
<1>4. QED
  BY <1>2, <1>3

LEMMA GoogleStep ==
    ASSUME Inv, NEW t \in Thread, NEW s, SignInWithGoogle(t, s)
    PROVE  Inv'
<1> DEFINE r == UserCreateWithGoogle(s, EmailOf[s])
           us == UserGetByGoogleSub(s)
<1>1. RowBy("google", r) /\ r.google_sub = s
  BY UserCreateWithGoogleFine DEF SignInWithGoogle
<1> HIDE DEF r
<1>2. CASE us = {}
  BY <1>1, <1>2, GoCreateStep DEF SignInWithGoogle, r
<1>3. CASE us # {}
  <2>1. Found(Key("google", r), us)
    BY <1>3 DEF SignInWithGoogle, r
  <2>2. Key("google", r) \in Credential /\ Key("google", r).by = "google"
    BY <1>1, KeyFacts
  <2>3. \A u \in us : u \in User /\ Exists(u) /\ Key("google", users[u]) = Key("google", r)
    BY <1>1 DEF UserGetByGoogleSub, Key
  <2>4. QED
    BY <2>1, <2>2, <2>3, FoundStep
<1>4. QED
  BY <1>2, <1>3

LEMMA SignUpStep ==
    ASSUME Inv, NEW t \in Thread, NEW address \in Email, NEW p \in Password,
           SignUpWithEmail(t, address, p)
    PROVE  Inv'
BY UserCreateWithEmailFine, GoCreateStep DEF SignUpWithEmail

\* A password that verifies is the row's.
LEMMA SignInStep ==
    ASSUME Inv, NEW t \in Thread, NEW address \in Email, NEW p \in Password,
           SignInWithEmail(t, address, p)
    PROVE  Inv'
<1> DEFINE email == Normal[address]
           c == [by |-> "password", key |-> email, secret |-> Hash(p)]
           us == {u \in UserGetByEmail(email) :
                    /\ FromRow(u).PasswordHash # Blank
                    /\ Verify(FromRow(u).PasswordHash, p)}
<1>1. us # {} /\ Found(c, us)
  BY DEF SignInWithEmail
<1>2. \A u \in us : u \in User /\ Exists(u) /\ users[u].email = email /\ users[u].password = p
  BY DEF UserGetByEmail, FromRow, StringOf, Verify, Hash
<1>3. \A u \in us : users[u].email # Null
  <2>1. email \in Address
    BY NormalAssumption
  <2>2. QED
    BY <1>2, <2>1, NullAssumption
<1>4. email \in Email
  BY <1>1, <1>2, <1>3, ExistsFacts DEF UserRow, Inv
<1>5. c \in Credential /\ \A u \in us : Key(c.by, users[u]) = c
  BY <1>2, <1>4 DEF Credential, Key, Hash
<1>6. us \in SUBSET User
  BY <1>2
<1> HIDE DEF c, us
<1>7. QED
  BY <1>1, <1>2, <1>5, <1>6, FoundStep

LEMMA RequestStep ==
    ASSUME Inv, NEW t \in Thread, Request(t)
    PROVE  Inv'
<1>1. ASSUME NEW s \in AppleSub, SignInWithApple(t, s) PROVE Inv'
  BY <1>1, AppleStep DEF SignInWithApple
<1>2. ASSUME NEW s \in Device, DevSignIn(t, s) PROVE Inv'
  BY <1>2, AppleStep DEF DevSignIn
<1>3. QED
  BY <1>1, <1>2, GoogleStep, SignUpStep, SignInStep DEF Request, AuthController

-----------------------------------------------------------------------------
(* The insert, and what follows it.                                        *)

LEMMA CreateStep ==
    ASSUME Inv, NEW t \in Thread, Create(t)
    PROVE  Inv'
<1> DEFINE l == thr[t]
<1>1. RowBy(l.by, l.row) /\ l.row \in UserRow /\ Unique(l.row)
  BY DEF Create, Inv, PendingFine, RowBy
<1>2. PICK u \in User : /\ ~Exists(u)
                        /\ users' = [users EXCEPT ![u] = l.row]
                        /\ created' = Append(created, u)
                        /\ granted' = granted \cup {[credential |-> Key(l.by, l.row), user |-> u]}
  BY DEF Create, Grant
<1>3. thr' = [thr EXCEPT ![t] = Idle] /\ UNCHANGED <<refused, faults, walk, saves>>
  BY DEF Create, Quiet
<1>4. Key(l.by, l.row) \in Credential /\ Key(l.by, l.row).by = l.by
  BY <1>1, KeyFacts
<1>5. users'[u] = l.row /\ Exists(u)' /\ \A v \in User : v # u => users'[v] = users[v]
  BY <1>1, <1>2 DEF Inv, TypeOK, Exists, UserRow
<1>6. \A v \in User : v # u => (Exists(v)' <=> Exists(v))
  BY <1>5 DEF Exists
<1>7. TypeOK'
  <2>1. users' \in [User -> UserRow \cup {NoUser}]
    BY <1>1, <1>2 DEF Inv, TypeOK
  <2>2. \A v \in User, c \in Setting : Exists(v)' => users'[v].settings[c] \in Valid[c]
    BY <1>1, <1>5, <1>6 DEF Inv, TypeOK, RowBy
  <2>3. created' \in Seq(User) /\ thr' \in [Thread -> Local]
        /\ granted' \subseteq [credential : Credential, user : User]
    BY <1>2, <1>3, <1>4 DEF Inv, TypeOK, Local
  <2>4. QED
    BY <1>3, <2>1, <2>2, <2>3 DEF Inv, TypeOK
<1>8. Distinct'
  <2>1. \A v \in User : (Exists(v) /\ v # u) =>
          /\ l.row.apple_sub = Null \/ l.row.apple_sub # users[v].apple_sub
          /\ l.row.google_sub = Null \/ l.row.google_sub # users[v].google_sub
          /\ l.row.email = Null \/ l.row.email # users[v].email
    BY <1>1 DEF Unique
  <2>2. QED
    BY <1>5, <1>6, <2>1 DEF Inv, Distinct
<1>9. RowsFine'
  BY <1>1, <1>5, <1>6 DEF Inv, RowsFine
<1>10. PendingFine'
  BY <1>3 DEF Inv, TypeOK, PendingFine, Idle
<1>11. GrantsFine'
  <2>1. ASSUME NEW g \in granted'
        PROVE  Exists(g.user)' /\ Key(g.credential.by, users'[g.user]) = g.credential
    <3>1. CASE g \in granted
      <4>1. g.user \in User /\ g.user # u /\ Exists(g.user)
        BY <1>2, <3>1 DEF Inv, TypeOK, GrantsFine
      <4>2. QED
        BY <1>5, <1>6, <3>1, <4>1 DEF Inv, GrantsFine
    <3>2. CASE g = [credential |-> Key(l.by, l.row), user |-> u]
      BY <1>4, <1>5, <3>2
    <3>3. QED
      BY <1>2, <3>1, <3>2
  <2>2. QED
    BY <2>1 DEF GrantsFine
<1>12. QED
  BY <1>7, <1>8, <1>9, <1>10, <1>11 DEF Inv

\* A refused insert and a failed one leave the table alone.
LEMMA RefuseStep ==
    ASSUME Inv, NEW t \in Thread, Refuse(t) \/ DbFails(t)
    PROVE  Inv'
<1>1. thr' = [thr EXCEPT ![t] = Idle] /\ UNCHANGED <<users, created, granted, walk, saves>>
  BY DEF Refuse, DbFails, Quiet
<1>2. refused' \in [Sub -> Nat] /\ faults' \in Nat
  <2>1. refused \in [Sub -> Nat] /\ faults \in Nat
    BY DEF Inv, TypeOK
  <2>2. CASE Refuse(t)
    <3>1. \/ refused' = refused
          \/ \E k \in Sub : refused' = [refused EXCEPT ![k] = @ + 1]
      BY <2>2 DEF Refuse
    <3>2. faults' = faults
      BY <2>2 DEF Refuse
    <3>3. QED
      BY <2>1, <3>1, <3>2
  <2>3. CASE DbFails(t)
    BY <2>1, <2>3 DEF DbFails
  <2>4. QED
    BY <2>2, <2>3
<1>3. TypeOK'
  BY <1>1, <1>2 DEF Inv, TypeOK, Local, Exists
<1>4. PendingFine'
  BY <1>1 DEF Inv, TypeOK, PendingFine, Idle
<1>5. QED
  BY <1>1, <1>3, <1>4 DEF Inv, Distinct, RowsFine, GrantsFine, Exists

-----------------------------------------------------------------------------
(* Settings, and the operator.                                             *)

\* A row with another setting is the same user's.
LEMMA SaveChanges ==
    ASSUME Inv, NEW u \in User, NEW c \in Setting, NEW v \in Valid[c], Save(u, c, v)
    PROVE  /\ users[u] \in UserRow /\ users'[u] \in UserRow
           /\ users'[u].apple_sub = users[u].apple_sub
           /\ users'[u].google_sub = users[u].google_sub
           /\ users'[u].email = users[u].email
           /\ users'[u].password = users[u].password
           /\ \A d \in Setting : users'[u].settings[d] = IF d = c THEN v ELSE users[u].settings[d]
           /\ \A w \in User : w # u => users'[w] = users[w]
           /\ \A w \in User : Exists(w)' <=> Exists(w)
           /\ users' \in [User -> UserRow \cup {NoUser}]
           /\ [users'[u] EXCEPT !.settings = Null] = [users[u] EXCEPT !.settings = Null]
<1>1. users[u] \in UserRow /\ users \in [User -> UserRow \cup {NoUser}] /\ v \in Value
  BY ExistsFacts, SettingAssumption DEF Save, Inv, TypeOK
<1> DEFINE r == [users[u] EXCEPT !.settings = [users[u].settings EXCEPT ![c] = v]]
<1>2. users' = [users EXCEPT ![u] = r]
  BY DEF Save
<1>3. users'[u] = r /\ \A w \in User : w # u => users'[w] = users[w]
  BY <1>1, <1>2
<1>4. r \in UserRow /\ r.apple_sub = users[u].apple_sub /\ r.google_sub = users[u].google_sub
      /\ r.email = users[u].email /\ r.password = users[u].password
      /\ \A d \in Setting : r.settings[d] = IF d = c THEN v ELSE users[u].settings[d]
  BY <1>1 DEF UserRow
<1>5. [r EXCEPT !.settings = Null] = [users[u] EXCEPT !.settings = Null]
  BY <1>1 DEF UserRow
<1> HIDE DEF r
<1>6. users' \in [User -> UserRow \cup {NoUser}]
  BY <1>1, <1>2, <1>4
<1>7. Exists(u) /\ Exists(u)'
  BY <1>3, <1>4 DEF Exists, Save, UserRow
<1>8. \A w \in User : Exists(w)' <=> Exists(w)
  BY <1>3, <1>7 DEF Exists
<1>9. QED
  BY <1>1, <1>3, <1>4, <1>5, <1>6, <1>8

LEMMA SaveStep ==
    ASSUME Inv, NEW u \in User, NEW c \in Setting, NEW v \in Valid[c], Save(u, c, v)
    PROVE  Inv'
<1>0. /\ users'[u] \in UserRow
      /\ users'[u].apple_sub = users[u].apple_sub
      /\ users'[u].google_sub = users[u].google_sub
      /\ users'[u].email = users[u].email
      /\ users'[u].password = users[u].password
      /\ \A d \in Setting : users'[u].settings[d] = IF d = c THEN v ELSE users[u].settings[d]
      /\ \A w \in User : w # u => users'[w] = users[w]
      /\ \A w \in User : Exists(w)' <=> Exists(w)
      /\ users' \in [User -> UserRow \cup {NoUser}]
  BY SaveChanges
<1>1. UNCHANGED <<created, thr, granted, refused, walk, faults>> /\ saves' = saves + 1
  BY DEF Save
<1>2. TypeOK'
  <2>1. \A w \in User, d \in Setting : Exists(w)' => users'[w].settings[d] \in Valid[d]
    BY <1>0 DEF Inv, TypeOK
  <2>2. QED
    BY <1>1, <2>1, <1>0 DEF Inv, TypeOK
<1>3. Distinct'
  BY <1>0 DEF Inv, Distinct
<1>4. RowsFine'
  <2>1. ASSUME NEW w \in User, Exists(w)' PROVE \E by : RowBy(by, users'[w])
    <3>1. PICK by : RowBy(by, users[w])
      BY <2>1, <1>0 DEF Inv, RowsFine
    <3>2. CASE w = u
      BY <3>1, <3>2, <1>0 DEF RowBy, AppleRow, GoogleRow, PasswordRow
    <3>3. QED
      BY <3>1, <3>2, <1>0
  <2>2. QED
    BY <2>1 DEF RowsFine
<1>5. GrantsFine'
  <2>1. ASSUME NEW g \in granted
        PROVE  Exists(g.user)' /\ Key(g.credential.by, users'[g.user]) = g.credential
    <3>1. g.user \in User /\ Exists(g.user) /\ Key(g.credential.by, users[g.user]) = g.credential
      BY DEF Inv, TypeOK, GrantsFine
    <3>2. QED
      BY <3>1, <1>0 DEF Key
  <2>2. QED
    BY <1>1, <2>1 DEF GrantsFine
<1>6. QED
  BY <1>1, <1>2, <1>3, <1>4, <1>5 DEF Inv, PendingFine

\* Each operation of the profile page is one such statement, with a value that
\* the service let through.
LEMMA SettingsSave ==
    ASSUME NEW u \in User, NEW body, Settings(u, body)
    PROVE  \E c \in Setting : \E v \in Valid[c] : Save(u, c, v)
BY SettingAssumption
   DEF Settings, updatePreferences, updateCurrency, updateGoals, updateProfile, UpdatePreferences,
       UpdateBaseCurrency, UpdateGoals, UpdateProfile, UserUpdatePreferences,
       UserUpdateBaseCurrency, UserUpdateGoals, UserUpdateProfile, Setting

LEMMA SameUsers ==
    ASSUME Inv, UNCHANGED <<users, created, thr, granted, refused, saves, faults>>
    PROVE  Inv'
BY DEF Inv, TypeOK, Distinct, RowsFine, PendingFine, GrantsFine, Exists

LEMMA OperatorReads ==
    ASSUME Operator
    PROVE  UNCHANGED <<users, created, thr, granted, refused, saves, faults>>
BY DEF Operator, FirstPage, NextPage, Leave, ListUsers

LEMMA Invariance == Spec => []Inv
<1>1. ASSUME Inv, Next PROVE Inv'
  BY <1>1, RequestStep, CreateStep, RefuseStep, SettingsSave, SaveStep, SameUsers, OperatorReads
     DEF Next
<1>2. ASSUME Inv, UNCHANGED vars PROVE Inv'
  BY <1>2, SameUsers DEF vars
<1>3. QED
  BY <1>1, <1>2, InitInv, PTL DEF Spec

-----------------------------------------------------------------------------
(* Who a user is.                                                          *)

\* Every reachable state is type correct.
THEOREM IdentityTypeCorrect == Spec => []TypeOK
<1>1. Inv => TypeOK
  BY DEF Inv
<1>2. QED
  BY <1>1, Invariance, PTL

\* Two tokens given for one identity name one user, whose row carries it
\* (findOrCreateAndIssueToken, SignInWithGoogle, SignInWithEmail).
THEOREM OneUserPerIdentity == Spec => []SameIdentitySameUser
<1>1. Inv => SameIdentitySameUser
  <2> SUFFICES ASSUME Inv PROVE SameIdentitySameUser
    OBVIOUS
  <2>1. ASSUME NEW g \in granted
        PROVE  /\ g.user \in User /\ Exists(g.user) /\ g.credential \in Credential
               /\ Key(g.credential.by, users[g.user]) = g.credential
    BY DEF Inv, TypeOK, GrantsFine
  <2>2. ASSUME NEW g \in granted PROVE Me(g.user) # {}
    <3>1. g.user \in UserGetByID(g.user)
      BY <2>1 DEF UserGetByID
    <3>2. QED
      BY <3>1 DEF Me
  <2>3. ASSUME NEW g \in granted, NEW h \in granted, g.credential = h.credential
        PROVE  g.user = h.user
    <3> DEFINE c == g.credential
               u == g.user
               v == h.user
    <3>1. /\ u \in User /\ v \in User /\ Exists(u) /\ Exists(v) /\ c \in Credential
          /\ Key(c.by, users[u]) = c /\ Key(c.by, users[v]) = c
      BY <2>1, <2>3
    <3>2. c.key # Null
      BY <3>1, NullAssumption DEF Credential, Sub, Address
    <3> HIDE DEF c, u, v
    <3>3. CASE c.by = "apple"
      <4>1. c.key = users[u].apple_sub /\ c.key = users[v].apple_sub
        BY <3>1, <3>3 DEF Key
      <4>2. u = v
        BY <3>1, <3>2, <4>1 DEF Inv, Distinct
      <4>3. QED
        BY <4>2 DEF u, v
    <3>4. CASE c.by = "google"
      <4>1. c.key = users[u].google_sub /\ c.key = users[v].google_sub
        BY <3>1, <3>4 DEF Key
      <4>2. u = v
        BY <3>1, <3>2, <4>1 DEF Inv, Distinct
      <4>3. QED
        BY <4>2 DEF u, v
    <3>5. CASE c.by = "password"
      <4>1. c.key = users[u].email /\ c.key = users[v].email
        BY <3>1, <3>5 DEF Key
      <4>2. u = v
        BY <3>1, <3>2, <4>1 DEF Inv, Distinct
      <4>3. QED
        BY <4>2 DEF u, v
    <3>6. QED
      BY <3>1, <3>3, <3>4, <3>5 DEF Credential
  <2>4. QED
    BY <2>1, <2>2, <2>3 DEF SameIdentitySameUser
<1>2. QED
  BY <1>1, Invariance, PTL

\* Who signed up with an address and a password is found by every spelling of it
\* (SignUpWithEmail, SignInWithEmail, normalizeEmail).
THEOREM PasswordsReach == Spec => []PasswordReachable
<1>1. Inv => PasswordReachable
  <2> SUFFICES ASSUME Inv, NEW u \in User, Exists(u), users[u].password # Null,
                      NEW e \in Email, Normal[e] = Normal[users[u].email]
               PROVE  UserGetByEmail(Normal[e]) = {u}
    BY DEF PasswordReachable
  <2>1. PasswordRow(users[u])
    BY DEF Inv, RowsFine, RowBy, AppleRow, GoogleRow
  <2>2. users[u].email = Normal[e] /\ users[u].email # Null
    BY <2>1, NullAssumption DEF PasswordRow, Address
  <2>3. \A v \in User : (Exists(v) /\ users[v].email = Normal[e]) => v = u
    BY <2>2 DEF Inv, Distinct
  <2>4. QED
    BY <2>2, <2>3 DEF UserGetByEmail
<1>2. QED
  BY <1>1, Invariance, PTL

\* No step links a sign-in to a row that exists or changes who a row is, and none
\* changes more than one setting of one user (Create, the settings).
THEOREM IdentitiesFixed == Spec => IdentityFixed
<1> DEFINE Changed == {k \in User \X Setting : Exists(k[1]) /\
                        users'[k[1]].settings[k[2]] # users[k[1]].settings[k[2]]}
           Fixed == /\ \A u \in User : Exists(u) =>
                        [users'[u] EXCEPT !.settings = Null] = [users[u] EXCEPT !.settings = Null]
                    /\ Cardinality(Changed) <= 1
<1>1. ASSUME \A u \in User : Exists(u) => users'[u] = users[u] PROVE Fixed
  <2>1. Changed = {}
    BY <1>1
  <2>2. Cardinality(Changed) = 0
    BY <2>1, FS_EmptySet
  <2> HIDE DEF Changed
  <2>3. QED
    BY <1>1, <2>2
<1>2. ASSUME Inv, NEW u \in User, NEW c \in Setting, NEW v \in Valid[c], Save(u, c, v) PROVE Fixed
  <2>1. \A w \in User, d \in Setting : (w # u \/ d # c) =>
           users'[w].settings[d] = users[w].settings[d]
    <3>1. \A d \in Setting : users'[u].settings[d] = IF d = c THEN v ELSE users[u].settings[d]
      BY <1>2, SaveChanges
    <3>2. \A w \in User : w # u => users'[w] = users[w]
      BY <1>2, SaveChanges
    <3>3. QED
      BY <3>1, <3>2
  <2>2. Changed \subseteq {<<u, c>>}
    BY <2>1
  <2>3. IsFiniteSet({<<u, c>>}) /\ Cardinality({<<u, c>>}) = 1
    BY FS_Singleton
  <2>4. Cardinality(Changed) <= 1
    <3> HIDE DEF Changed
    <3>1. QED
      BY <2>2, <2>3, FS_Subset
  <2>5. \A w \in User :
          [users'[w] EXCEPT !.settings = Null] = [users[w] EXCEPT !.settings = Null]
    BY <1>2, SaveChanges
  <2>6. QED
    BY <2>4, <2>5
<1>3. ASSUME NEW t \in Thread, Create(t), Inv PROVE Fixed
  <2>1. \A u \in User : Exists(u) => users'[u] = users[u]
    BY <1>3 DEF Create, Inv, TypeOK
  <2>2. QED
    BY <1>1, <2>1
<1>4. ASSUME UNCHANGED users PROVE Fixed
  BY <1>1, <1>4
<1>5. ASSUME NEW t \in Thread, Request(t) \/ Refuse(t) \/ DbFails(t) PROVE Fixed
  BY <1>4, <1>5 DEF Request, AuthController, SignInWithApple, DevSignIn, SignInWithGoogle,
                    findOrCreateAndIssueToken, SignUpWithEmail, SignInWithEmail, GoCreate, Found,
                    Refuse, DbFails
<1>6. Inv /\ [Next]_vars => [Fixed]_vars
  <2> HIDE DEF Fixed
  <2>1. ASSUME Inv, Next PROVE Fixed
    BY <1>2, <1>3, <1>4, <1>5, <2>1, SettingsSave, OperatorReads DEF Next
  <2>2. QED
    BY <2>1
<1>7. QED
  BY <1>6, Invariance, PTL DEF Spec, IdentityFixed

-----------------------------------------------------------------------------
(* The operator's walk. Of the n users who were there at the first page,   *)
(* those the offset has passed were seen, counted from the end of the L    *)
(* there were at the last page; sign-ups only move them further back.      *)

Walked(n, L) ==
    /\ n \in Nat /\ L \in Nat /\ n <= L /\ L <= Len(created)
    /\ walk.offset \in Nat
    /\ walk.known = {created[i] : i \in 1..n}
    /\ \A i \in 1..n : L + 1 - i <= walk.offset => created[i] \in walk.seen
    /\ walk.total = L \/ L <= walk.offset

WalkInv == walk = NoWalk \/ \E n, L : Walked(n, L)

\* What a page says: the users between its ends, counted from the newest.
LEMMA PageFacts ==
    ASSUME created \in Seq(User), NEW offset \in Nat
    PROVE  LET page == UserListForAdmin(parsePagination(PageLimit, offset)) IN
           /\ \A i \in 1..Len(created) :
                (offset < Len(created) + 1 - i /\ Len(created) + 1 - i <= offset + PageLimit) =>
                    created[i] \in page.users
           /\ page.total = Len(created) \/ Len(created) <= offset
<1> DEFINE page == UserListForAdmin(parsePagination(PageLimit, offset))
           N == Len(created)
<1>1. parsePagination(PageLimit, offset) = [limit |-> PageLimit, offset |-> offset]
  BY PageAssumption DEF parsePagination
<1>2. page.users = {created[N + 1 - i] : i \in {j \in 1..N : offset < j /\ j <= offset + PageLimit}}
  BY <1>1 DEF UserListForAdmin
<1>3. page.total = N \/ N <= offset
  BY <1>1 DEF UserListForAdmin, TotalCount
<1>4. N \in Nat /\ PageLimit \in Nat
  BY PageAssumption
<1> HIDE DEF page, N
<1>5. ASSUME NEW i \in 1..N, offset < N + 1 - i, N + 1 - i <= offset + PageLimit
      PROVE  created[i] \in page.users
  <2>1. N + 1 - i \in {j \in 1..N : offset < j /\ j <= offset + PageLimit}
    BY <1>4, <1>5
  <2>2. N + 1 - (N + 1 - i) = i
    BY <1>4
  <2>3. created[N + 1 - (N + 1 - i)] \in page.users
    BY <1>2, <2>1
  <2>4. QED
    BY <2>2, <2>3
<1>6. QED
  BY <1>3, <1>5 DEF page, N

LEMMA SignUpsWalk ==
    ASSUME Inv, WalkInv, UNCHANGED walk,
           UNCHANGED created \/ \E u \in User : created' = Append(created, u)
    PROVE  WalkInv'
<1>1. CASE walk = NoWalk
  BY <1>1 DEF WalkInv
<1>2. ASSUME NEW n, NEW L, Walked(n, L) PROVE Walked(n, L)'
  <2>1. created \in Seq(User) /\ Len(created) \in Nat
    BY DEF Inv, TypeOK
  <2>2. Len(created) <= Len(created') /\ \A i \in 1..Len(created) : created'[i] = created[i]
    BY <2>1
  <2>3. \A i \in 1..n : created'[i] = created[i]
    BY <1>2, <2>1, <2>2 DEF Walked
  <2>4. L <= Len(created')
    <3>1. Len(created') \in Nat
      BY <2>1
    <3>2. QED
      BY <1>2, <2>1, <2>2, <3>1 DEF Walked
  <2>5. QED
    BY <1>2, <2>3, <2>4 DEF Walked
<1>3. QED
  BY <1>1, <1>2 DEF WalkInv

LEMMA OperatorWalks ==
    ASSUME Inv, WalkInv, Operator
    PROVE  WalkInv'
<1> DEFINE N == Len(created)
<1>1. created \in Seq(User) /\ N \in Nat /\ PageLimit \in Nat /\ created' = created
  BY OperatorReads, PageAssumption DEF Inv, TypeOK
<1>2. CASE FirstPage
  <2> DEFINE page == UserListForAdmin(parsePagination(PageLimit, 0))
  <2>1. walk' = [on |-> TRUE, offset |-> 0 + PageLimit, total |-> page.total,
                 seen |-> {} \cup page.users, known |-> {created[i] : i \in 1..N}]
    BY <1>2 DEF FirstPage, ListUsers
  <2>2. /\ \A i \in 1..N : (0 < N + 1 - i /\ N + 1 - i <= 0 + PageLimit) => created[i] \in page.users
        /\ page.total = N \/ N <= 0
    BY <1>1, PageFacts
  <2> HIDE DEF page
  <2>3. Walked(N, N)'
    <3>1. walk'.offset = PageLimit /\ walk'.known = {created[i] : i \in 1..N}
          /\ walk'.seen = page.users /\ walk'.total = page.total
      BY <1>1, <2>1
    <3>2. \A i \in 1..N : N + 1 - i <= PageLimit => created[i] \in page.users
      BY <1>1, <2>2
    <3>3. N' = N
      BY <1>1
    <3> HIDE DEF N
    <3>4. QED
      BY <1>1, <2>2, <3>1, <3>2, <3>3 DEF Walked, N
  <2>4. QED
    BY <2>3 DEF WalkInv
<1>3. CASE NextPage
  <2> DEFINE page == UserListForAdmin(parsePagination(PageLimit, walk.offset))
  <2>1. PICK n, L : Walked(n, L)
    BY <1>3 DEF WalkInv, NextPage, NoWalk
  <2>2. walk' = [on |-> TRUE, offset |-> walk.offset + PageLimit, total |-> page.total,
                 seen |-> walk.seen \cup page.users, known |-> walk.known]
    BY <1>3 DEF NextPage, ListUsers
  <2>3. walk.offset \in Nat /\ n \in Nat /\ L \in Nat /\ n <= L /\ L <= N
    BY <2>1 DEF Walked
  <2>4. /\ \A i \in 1..N : (walk.offset < N + 1 - i /\ N + 1 - i <= walk.offset + PageLimit) =>
                created[i] \in page.users
        /\ page.total = N \/ N <= walk.offset
    BY <1>1, <2>3, PageFacts
  <2> HIDE DEF page
  <2>5. walk'.offset = walk.offset + PageLimit /\ walk'.known = walk.known
        /\ walk'.seen = walk.seen \cup page.users /\ walk'.total = page.total
    BY <2>2
  <2>6. ASSUME NEW i \in 1..n, N + 1 - i <= walk.offset + PageLimit
        PROVE  created[i] \in walk.seen \cup page.users
    <3>1. CASE N + 1 - i <= walk.offset
      <4>1. L + 1 - i <= walk.offset
        BY <1>1, <2>3, <3>1
      <4>2. QED
        BY <2>1, <4>1 DEF Walked
    <3>2. CASE walk.offset < N + 1 - i
      <4>1. i \in 1..N
        BY <1>1, <2>3
      <4>2. QED
        BY <2>4, <2>6, <3>2, <4>1
    <3>3. QED
      BY <1>1, <2>3, <3>1, <3>2
  <2>7. walk'.offset \in Nat /\ (walk'.total = N \/ N <= walk'.offset)
    BY <1>1, <2>3, <2>4, <2>5
  <2>8. walk'.known = {created[i] : i \in 1..n}
    BY <2>1, <2>5 DEF Walked
  <2>9. Walked(n, N)'
    <3>1. n <= N /\ N' = N
      BY <1>1, <2>3
    <3> HIDE DEF N
    <3>2. QED
      BY <1>1, <2>3, <2>5, <2>6, <2>7, <2>8, <3>1 DEF Walked, N
  <2>10. QED
    BY <2>9 DEF WalkInv
<1>4. CASE Leave
  BY <1>4 DEF Leave, WalkInv
<1>5. QED
  BY <1>2, <1>3, <1>4 DEF Operator

\* Who was there when the operator began is on one of the pages, although sign-ups
\* shift the offsets (UserListForAdmin).
THEOREM NobodySkipped == Spec => []NoUserSkipped
<1>1. Init => WalkInv
  BY DEF Init, WalkInv
<1>2. Inv /\ WalkInv /\ [Next]_vars => WalkInv'
  <2>1. ASSUME Inv, WalkInv, NEW t \in Thread, Create(t) PROVE WalkInv'
    BY <2>1, SignUpsWalk DEF Create, Quiet
  <2>2. ASSUME Inv, WalkInv, NEW t \in Thread, Request(t) \/ Refuse(t) \/ DbFails(t) PROVE WalkInv'
    <3>1. UNCHANGED <<walk, created>>
      BY <2>2 DEF Request, AuthController, SignInWithApple, DevSignIn, SignInWithGoogle,
                  findOrCreateAndIssueToken, SignUpWithEmail, SignInWithEmail, GoCreate, Found,
                  Refuse, DbFails, Quiet
    <3>2. QED
      BY <2>2, <3>1, SignUpsWalk
  <2>3. ASSUME Inv, WalkInv, NEW u \in User, NEW c, NEW v, Save(u, c, v) PROVE WalkInv'
    BY <2>3, SignUpsWalk DEF Save
  <2>4. ASSUME Inv, WalkInv, UNCHANGED vars PROVE WalkInv'
    BY <2>4, SignUpsWalk DEF vars
  <2>5. QED
    BY <2>1, <2>2, <2>3, <2>4, OperatorWalks, SettingsSave DEF Next
<1>3. WalkInv => NoUserSkipped
  <2> SUFFICES ASSUME WalkInv, walk.on, walk.offset >= walk.total
               PROVE  walk.known \subseteq walk.seen
    BY DEF NoUserSkipped, WalkDone
  <2>1. PICK n, L : Walked(n, L)
    BY DEF WalkInv, NoWalk
  <2>2. n \in Nat /\ L \in Nat /\ walk.offset \in Nat /\ L <= walk.offset
    BY <2>1 DEF Walked
  <2>3. \A i \in 1..n : L + 1 - i <= walk.offset
    BY <2>2
  <2>4. QED
    BY <2>1, <2>3 DEF Walked
<1>4. QED
  BY <1>1, <1>2, <1>3, Invariance, PTL DEF Spec

-----------------------------------------------------------------------------
(* Races of first sign-ins. While nobody has a subject nobody was refused  *)
(* it; once somebody has, its refusals to come are those under way.        *)

Taken(s) == \E u \in User : Exists(u) /\ (users[u].apple_sub = s \/ users[u].google_sub = s)

Pending(s) == {t \in Thread : thr[t].pc = "create" /\ Key(thr[t].by, thr[t].row).key = s}

RaceOf(s) ==
    /\ ~Taken(s) => refused[s] = 0
    /\ Taken(s) => refused[s] + Cardinality(Pending(s)) < Cardinality(Thread)

RaceInv == \A s \in Sub : EmailOf[s] = Blank => RaceOf(s)

LEMMA PendingFinite ==
    ASSUME NEW P \in SUBSET Thread
    PROVE  /\ IsFiniteSet(P) /\ Cardinality(P) \in Nat /\ Cardinality(Thread) \in Nat
           /\ Cardinality(P) <= Cardinality(Thread)
           /\ \A t \in P : Cardinality(P \ {t}) = Cardinality(P) - 1
           /\ \A Q \in SUBSET P : Cardinality(Q) <= Cardinality(P) /\ Cardinality(Q) \in Nat
BY ThreadAssumption, FS_Subset, FS_CardinalityType, FS_RemoveElement

\* A subject is in the column of its own provider.
LEMMA TakenColumn ==
    ASSUME Inv, NEW s \in Sub
    PROVE  /\ s \in AppleSub \cup Device =>
                (Taken(s) <=> \E u \in User : Exists(u) /\ users[u].apple_sub = s)
           /\ s \in GoogleSub =>
                (Taken(s) <=> \E u \in User : Exists(u) /\ users[u].google_sub = s)
<1>1. s # Null
  BY NullAssumption
<1>2. \A u \in User : Exists(u) => /\ users[u].apple_sub \in AppleSub \cup Device \cup {Null}
                                   /\ users[u].google_sub \in GoogleSub \cup {Null}
  BY ExistsFacts DEF Inv, UserRow
<1>3. QED
  BY <1>1, <1>2, SubjectAssumption DEF Taken

\* A row on its way has its subject in the column of its provider, and nowhere else.
LEMMA KeyColumn ==
    ASSUME NEW by, NEW r, RowBy(by, r), NEW s \in Sub
    PROVE  (r.apple_sub = s \/ r.google_sub = s) <=> Key(by, r).key = s
BY NullAssumption, SubjectAssumption
   DEF RowBy, AppleRow, GoogleRow, PasswordRow, Key, Sub

\* Fewer may be on their way.
LEMMA RaceStays ==
    ASSUME NEW s \in Sub, RaceOf(s), refused \in [Sub -> Nat],
           refused'[s] = refused[s], Taken(s)' <=> Taken(s), Pending(s)' \subseteq Pending(s)
    PROVE  RaceOf(s)'
<1>1. /\ Cardinality(Pending(s)') <= Cardinality(Pending(s))
      /\ Cardinality(Pending(s)') \in Nat /\ Cardinality(Pending(s)) \in Nat
      /\ Cardinality(Thread) \in Nat
  BY PendingFinite DEF Pending
<1>2. refused[s] \in Nat
  OBVIOUS
<1> DEFINE p == Cardinality(Pending(s))
           q == Cardinality(Pending(s)')
<1>3. q <= p /\ p \in Nat /\ q \in Nat
  BY <1>1
<1>4. Taken(s) => refused[s] + p < Cardinality(Thread)
  BY DEF RaceOf
<1> HIDE DEF p, q
<1>5. Taken(s) => refused[s] + q < Cardinality(Thread)
  BY <1>1, <1>2, <1>3, <1>4
<1>6. QED
  BY <1>5 DEF RaceOf, q

\* A goroutine goes on to create a row only after it found nobody.
LEMMA RaceGoCreate ==
    ASSUME Inv, NEW s \in Sub, RaceOf(s), NEW t \in Thread, thr[t] = Idle, NEW by, NEW r,
           RowBy(by, r), GoCreate(t, by, r), Key(by, r).key = s => ~Taken(s)
    PROVE  RaceOf(s)'
<1>1. thr' = [thr EXCEPT ![t] = [pc |-> "create", by |-> by, row |-> r]]
      /\ UNCHANGED <<users, refused>> /\ thr \in [Thread -> Local] /\ refused \in [Sub -> Nat]
  BY DEF GoCreate, Inv, TypeOK
<1>2. Taken(s)' <=> Taken(s)
  BY <1>1 DEF Taken, Exists
<1>3. CASE Key(by, r).key = s
  BY <1>1, <1>2, <1>3 DEF RaceOf
<1>4. CASE Key(by, r).key # s
  <2>1. Pending(s)' \subseteq Pending(s)
    BY <1>1, <1>4 DEF Pending
  <2>2. QED
    BY <1>1, <1>2, <2>1, RaceStays
<1>5. QED
  BY <1>3, <1>4

LEMMA RaceRequest ==
    ASSUME Inv, NEW s \in Sub, RaceOf(s), NEW t \in Thread, Request(t)
    PROVE  RaceOf(s)'
<1>1. ASSUME NEW credential, NEW us, Found(credential, us) PROVE RaceOf(s)'
  BY <1>1, RaceStays DEF Found, Taken, Pending, Exists, Inv, TypeOK
<1>2. ASSUME NEW x \in AppleSub \cup Device, NEW email \in {Blank, EmailOf[x]}, thr[t] = Idle,
             findOrCreateAndIssueToken(t, x, email)
      PROVE  RaceOf(s)'
  <2> DEFINE r == UserCreate(x, email)
  <2>1. RowBy("apple", r) /\ r.apple_sub = x /\ Key("apple", r).key = x
    BY UserCreateFine, KeyFacts
  <2>2. CASE UserGetByAppleSub(x) = {}
    <3>1. ~Taken(x)
      BY <2>2, TakenColumn DEF UserGetByAppleSub, Sub
    <3>2. GoCreate(t, "apple", r)
      BY <1>2, <2>2 DEF findOrCreateAndIssueToken
    <3> HIDE DEF r
    <3>3. QED
      BY <1>2, <2>1, <3>1, <3>2, RaceGoCreate
  <2>3. CASE UserGetByAppleSub(x) # {}
    BY <1>1, <1>2, <2>3 DEF findOrCreateAndIssueToken
  <2>4. QED
    BY <2>2, <2>3
<1>3. ASSUME NEW x \in GoogleSub, SignInWithGoogle(t, x) PROVE RaceOf(s)'
  <2> DEFINE r == UserCreateWithGoogle(x, EmailOf[x])
  <2>1. RowBy("google", r) /\ r.google_sub = x /\ Key("google", r).key = x
    BY UserCreateWithGoogleFine, KeyFacts
  <2>2. CASE UserGetByGoogleSub(x) = {}
    <3>1. ~Taken(x)
      BY <2>2, TakenColumn DEF UserGetByGoogleSub, Sub
    <3>2. GoCreate(t, "google", r) /\ thr[t] = Idle
      BY <1>3, <2>2 DEF SignInWithGoogle
    <3> HIDE DEF r
    <3>3. QED
      BY <2>1, <3>1, <3>2, RaceGoCreate
  <2>3. CASE UserGetByGoogleSub(x) # {}
    BY <1>1, <1>3, <2>3 DEF SignInWithGoogle
  <2>4. QED
    BY <2>2, <2>3
<1>4. ASSUME NEW e \in Email, NEW p \in Password, SignUpWithEmail(t, e, p) PROVE RaceOf(s)'
  <2> DEFINE r == UserCreateWithEmail(Normal[e], Hash(p))
  <2>1. RowBy("password", r) /\ GoCreate(t, "password", r) /\ thr[t] = Idle
    BY <1>4, UserCreateWithEmailFine DEF SignUpWithEmail
  <2> HIDE DEF r
  <2>2. Key("password", r).key # s
    BY <2>1, KeyFacts
  <2>3. QED
    BY <2>1, <2>2, RaceGoCreate
<1>5. QED
  BY <1>1, <1>2, <1>3, <1>4
     DEF Request, AuthController, SignInWithApple, DevSignIn, SignInWithEmail

LEMMA RaceCreate ==
    ASSUME Inv, NEW s \in Sub, RaceOf(s), NEW t \in Thread, Create(t)
    PROVE  RaceOf(s)'
<1> DEFINE r == thr[t].row
           k == Key(thr[t].by, thr[t].row).key
<1>1. RowBy(thr[t].by, r) /\ r \in UserRow /\ Unique(r) /\ thr[t].pc = "create"
  BY DEF Create, Inv, PendingFine, RowBy
<1>2. PICK u \in User : ~Exists(u) /\ users' = [users EXCEPT ![u] = r]
  BY DEF Create
<1>3. thr' = [thr EXCEPT ![t] = Idle] /\ refused' = refused /\ refused \in [Sub -> Nat]
      /\ thr \in [Thread -> Local]
  BY DEF Create, Inv, TypeOK
<1>4. users'[u] = r /\ Exists(u)' /\ \A v \in User : v # u => users'[v] = users[v]
  BY <1>1, <1>2 DEF Inv, TypeOK, Exists, UserRow
<1>5. Taken(s)' <=> (Taken(s) \/ r.apple_sub = s \/ r.google_sub = s)
  BY <1>2, <1>4 DEF Taken, Exists
<1>6. Pending(s)' = Pending(s) \ {t}
  BY <1>3 DEF Pending, Idle
<1>7. CASE k = s
  <2>1. r.apple_sub = s \/ r.google_sub = s
    BY <1>1, <1>7, KeyColumn
  <2>2. s # Null
    BY NullAssumption
  <2>3. ~Taken(s)
    <3>1. CASE r.apple_sub = s
      <4>1. s \in AppleSub \cup Device
        BY <1>1, <2>2, <3>1 DEF UserRow
      <4>2. \A v \in User : Exists(v) => users[v].apple_sub # s
        BY <1>1, <2>2, <3>1 DEF Unique
      <4>3. QED
        BY <4>1, <4>2, TakenColumn
    <3>2. CASE r.google_sub = s
      <4>1. s \in GoogleSub
        BY <1>1, <2>2, <3>2 DEF UserRow
      <4>2. \A v \in User : Exists(v) => users[v].google_sub # s
        BY <1>1, <2>2, <3>2 DEF Unique
      <4>3. QED
        BY <4>1, <4>2, TakenColumn
    <3>3. QED
      BY <2>1, <3>1, <3>2
  <2>4. refused'[s] = 0
    BY <1>3, <2>3 DEF RaceOf
  <2>5. t \in Pending(s)
    BY <1>1, <1>7 DEF Pending
  <2>6. Cardinality(Pending(s)') < Cardinality(Thread) /\ Cardinality(Pending(s)') \in Nat
    <3>1. Pending(s) \in SUBSET Thread
      BY DEF Pending
    <3>2. /\ Cardinality(Pending(s) \ {t}) = Cardinality(Pending(s)) - 1
          /\ Cardinality(Pending(s) \ {t}) \in Nat
          /\ Cardinality(Pending(s)) <= Cardinality(Thread)
          /\ Cardinality(Pending(s)) \in Nat /\ Cardinality(Thread) \in Nat
      BY <2>5, <3>1, PendingFinite
    <3>3. QED
      BY <1>6, <3>2
  <2>7. QED
    BY <1>5, <2>1, <2>4, <2>6 DEF RaceOf
<1>8. CASE k # s
  <2>1. Taken(s)' <=> Taken(s)
    BY <1>1, <1>5, <1>8, KeyColumn
  <2>2. QED
    BY <1>3, <1>6, <2>1, RaceStays
<1>9. QED
  BY <1>7, <1>8

\* A subject without an address is refused only if somebody has it.
LEMMA RaceRefuse ==
    ASSUME Inv, NEW s \in Sub, RaceOf(s), EmailOf[s] = Blank, NEW t \in Thread,
           Refuse(t) \/ DbFails(t)
    PROVE  RaceOf(s)'
<1> DEFINE r == thr[t].row
           k == Key(thr[t].by, thr[t].row).key
<1>1. RowBy(thr[t].by, r) /\ r \in UserRow /\ thr[t].pc = "create"
  BY DEF Refuse, DbFails, Inv, PendingFine, RowBy
<1>2. thr' = [thr EXCEPT ![t] = Idle] /\ UNCHANGED users /\ refused \in [Sub -> Nat]
      /\ thr \in [Thread -> Local]
  BY DEF Refuse, DbFails, Inv, TypeOK
<1>3. Taken(s)' <=> Taken(s)
  BY <1>2 DEF Taken, Exists
<1>4. Pending(s)' = Pending(s) \ {t}
  BY <1>2 DEF Pending, Idle
<1>5. CASE refused'[s] = refused[s]
  BY <1>2, <1>3, <1>4, <1>5, RaceStays
<1>6. CASE refused'[s] # refused[s]
  <2>1. Refuse(t) /\ k = s /\ refused'[s] = refused[s] + 1 /\ ~Unique(r)
    <3>1. Refuse(t)
      BY <1>6 DEF DbFails
    <3>2. refused' = refused \/ (k \in Sub /\ refused' = [refused EXCEPT ![k] = @ + 1])
      BY <3>1 DEF Refuse
    <3>3. QED
      BY <1>2, <1>6, <3>1, <3>2 DEF Refuse
  <2>2. r.email = Null /\ (r.apple_sub = s \/ r.google_sub = s)
    <3>1. r.apple_sub = s \/ r.google_sub = s
      BY <1>1, <2>1, KeyColumn
    <3>2. s # Null /\ TextFromString(EmailOf[s]) = Null
      BY NullAssumption DEF TextFromString
    <3>3. QED
      BY <1>1, <3>1, <3>2 DEF RowBy, AppleRow, GoogleRow, PasswordRow
  <2>3. Taken(s)
    <3>1. PICK u \in User : Exists(u) /\ \/ r.apple_sub # Null /\ r.apple_sub = users[u].apple_sub
                                         \/ r.google_sub # Null /\ r.google_sub = users[u].google_sub
      BY <2>1, <2>2 DEF Unique
    <3>2. r.apple_sub = s => r.google_sub = Null
      BY <1>1, NullAssumption DEF RowBy, AppleRow, GoogleRow, PasswordRow
    <3>3. r.google_sub = s => r.apple_sub = Null
      BY <1>1, NullAssumption DEF RowBy, AppleRow, GoogleRow, PasswordRow
    <3>4. QED
      BY <2>2, <3>1, <3>2, <3>3 DEF Taken
  <2>4. t \in Pending(s) /\ Pending(s) \in SUBSET Thread
    BY <1>1, <2>1 DEF Pending
  <2>5. /\ Cardinality(Pending(s)') = Cardinality(Pending(s)) - 1
        /\ Cardinality(Pending(s)) \in Nat /\ Cardinality(Thread) \in Nat
    BY <1>4, <2>4, PendingFinite
  <2>6. refused[s] \in Nat /\ refused[s] + Cardinality(Pending(s)) < Cardinality(Thread)
    BY <1>2, <2>3 DEF RaceOf
  <2>7. refused'[s] + Cardinality(Pending(s)') < Cardinality(Thread)
    BY <2>1, <2>5, <2>6
  <2>8. QED
    BY <1>3, <2>3, <2>7 DEF RaceOf
<1>7. QED
  BY <1>5, <1>6

\* Racing first sign-ins cost a user without a contested address at most one
\* refusal for each other goroutine (the unique index as the only lock).
THEOREM RacesRefuseFew == Spec => []RaceRefusesFew
<1>1. Init => RaceInv
  BY DEF Init, RaceInv, RaceOf, Taken, Exists, NoUser
<1>2. Inv /\ RaceInv /\ [Next]_vars => RaceInv'
  <2> SUFFICES ASSUME Inv, [Next]_vars, NEW s \in Sub, EmailOf[s] = Blank, RaceOf(s)
               PROVE  RaceOf(s)'
    BY DEF RaceInv
  <2>1. ASSUME NEW u \in User, NEW c \in Setting, NEW v \in Valid[c], Save(u, c, v)
        PROVE  RaceOf(s)'
    <3>1. Taken(s)' <=> Taken(s)
      <4>1. /\ users'[u].apple_sub = users[u].apple_sub
            /\ users'[u].google_sub = users[u].google_sub
            /\ \A w \in User : w # u => users'[w] = users[w]
            /\ \A w \in User : Exists(w)' <=> Exists(w)
        BY <2>1, SaveChanges
      <4>2. QED
        BY <4>1 DEF Taken
    <3>2. refused' = refused /\ Pending(s)' = Pending(s) /\ refused \in [Sub -> Nat]
      BY <2>1 DEF Save, Pending, Inv, TypeOK
    <3>3. QED
      BY <3>1, <3>2, RaceStays
  <2>2. ASSUME UNCHANGED <<users, thr, refused>> PROVE RaceOf(s)'
    BY <2>2 DEF RaceOf, Taken, Pending, Exists
  <2>3. QED
    BY <2>1, <2>2, RaceRequest, RaceCreate, RaceRefuse, SettingsSave, OperatorReads DEF Next, vars
<1>3. Inv /\ RaceInv => RaceRefusesFew
  <2> SUFFICES ASSUME Inv, NEW s \in Sub, RaceOf(s)
               PROVE  refused[s] < Cardinality(Thread)
    BY DEF RaceInv, RaceRefusesFew
  <2>1. refused[s] \in Nat /\ Cardinality(Thread) \in Nat /\ Cardinality(Pending(s)) \in Nat
    BY PendingFinite DEF Inv, TypeOK, Pending
  <2>2. Cardinality(Thread) # 0
    BY ThreadAssumption, FS_EmptySet
  <2>3. QED
    BY <2>1, <2>2 DEF RaceOf
<1>4. QED
  BY <1>1, <1>2, <1>3, Invariance, PTL DEF Spec

-----------------------------------------------------------------------------
(* Identity implements Accounts.                                           *)

\* The values the promise's variables are mapped to.
Who == [u \in User |-> IF Exists(u) THEN IdentityOf(users[u]) ELSE NoUser]
Set == [u \in User |-> IF Exists(u) THEN users[u].settings ELSE NewRow.settings]
Held == {<<g.credential, g.user>> : g \in granted}

Stutter == UNCHANGED <<Who, Set, Held>>

\* A promise step, or none.
Allowed == Promise!Next \/ Stutter

\* A row that is about to be inserted has the settings of a new user.
PendingNew == \A t \in Thread : thr[t].pc = "create" => thr[t].row.settings = NewRow.settings

LEMMA CreatedAsNew ==
    ASSUME NEW sub, NEW email
    PROVE  /\ UserCreate(sub, email).settings = NewRow.settings
           /\ UserCreateWithGoogle(sub, email).settings = NewRow.settings
           /\ UserCreateWithEmail(email, sub).settings = NewRow.settings
<1> DEFINE s == TextFromString(sub)
           e == TextFromString(email)
<1> HIDE DEF s, e
<1>1. [NewRow EXCEPT !.apple_sub = s, !.email = e].settings = NewRow.settings
  BY DEF NewRow
<1>2. [NewRow EXCEPT !.google_sub = s, !.email = e].settings = NewRow.settings
  BY DEF NewRow
<1>3. [NewRow EXCEPT !.email = e, !.password = s].settings = NewRow.settings
  BY DEF NewRow
<1>4. QED
  BY <1>1, <1>2, <1>3 DEF UserCreate, UserCreateWithGoogle, UserCreateWithEmail, s, e

LEMMA PendingNewStep == Inv /\ PendingNew /\ [Next]_vars => PendingNew'
<1> SUFFICES ASSUME Inv, PendingNew, [Next]_vars PROVE PendingNew'
  OBVIOUS
<1>1. ASSUME UNCHANGED thr PROVE PendingNew'
  BY <1>1 DEF PendingNew
<1>2. ASSUME NEW t \in Thread, NEW l, thr' = [thr EXCEPT ![t] = l],
             l.pc = "create" => l.row.settings = NewRow.settings
      PROVE  PendingNew'
  BY <1>2 DEF PendingNew, Inv, TypeOK
<1>3. ASSUME NEW t \in Thread, NEW by, NEW r, r.settings = NewRow.settings, GoCreate(t, by, r)
      PROVE  PendingNew'
  BY <1>2, <1>3 DEF GoCreate
<1>4. ASSUME NEW t \in Thread, Request(t) PROVE PendingNew'
  <2>1. ASSUME NEW s, NEW email, findOrCreateAndIssueToken(t, s, email) PROVE PendingNew'
    BY <1>1, <1>3, <2>1, CreatedAsNew DEF findOrCreateAndIssueToken, Found
  <2>2. ASSUME NEW s, SignInWithGoogle(t, s) PROVE PendingNew'
    BY <1>1, <1>3, <2>2, CreatedAsNew DEF SignInWithGoogle, Found
  <2>3. ASSUME NEW e, NEW p, SignUpWithEmail(t, e, p) PROVE PendingNew'
    BY <1>3, <2>3, CreatedAsNew DEF SignUpWithEmail
  <2>4. ASSUME NEW e, NEW p, SignInWithEmail(t, e, p) PROVE PendingNew'
    BY <1>1, <2>4 DEF SignInWithEmail, Found
  <2>5. QED
    BY <1>4, <2>1, <2>2, <2>3, <2>4 DEF Request, AuthController, SignInWithApple, DevSignIn
<1>5. ASSUME NEW t \in Thread, Create(t) \/ Refuse(t) \/ DbFails(t) PROVE PendingNew'
  <2>1. thr' = [thr EXCEPT ![t] = Idle] /\ Idle.pc # "create"
    BY <1>5 DEF Create, Refuse, DbFails, Idle
  <2>2. QED
    BY <1>2, <2>1
<1>6. ASSUME Operator \/ \E u \in User, body \in Value \cup {Malformed} : Settings(u, body)
      PROVE  PendingNew'
  BY <1>1, <1>6, OperatorReads, SettingsSave DEF Save
<1>7. QED
  BY <1>1, <1>4, <1>5, <1>6 DEF Next, vars

\* A row is who its maker proved to be, and nobody else.
LEMMA IdentityOfRow ==
    ASSUME NEW by, NEW r, RowBy(by, r)
    PROVE  /\ IdentityOf(r) = Key(by, r) /\ IdentityOf(r) \in Credential
           /\ IdentityOf(r).by = by
           /\ \A c \in Credential : Key(c.by, r) = c => IdentityOf(r) = c
<1>0. Key(by, r) \in Credential /\ Key(by, r).by = by
  BY KeyFacts
<1>1. Null \notin Sub /\ Null \notin Password /\ Null \notin Email
  BY NullAssumption DEF Address
<1>2. CASE by = "apple" /\ AppleRow(r)
  <2>1. r.apple_sub # Null /\ r.google_sub = Null /\ r.password = Null
    BY <1>1, <1>2 DEF AppleRow, Sub
  <2>2. IdentityOf(r) = Key(by, r)
    BY <1>2, <2>1 DEF IdentityOf
  <2>3. ASSUME NEW c \in Credential, Key(c.by, r) = c PROVE c.by = by
    BY <1>1, <1>2, <2>1, <2>3 DEF Credential, Key
  <2>4. QED
    BY <1>0, <2>2, <2>3
<1>3. CASE by = "google" /\ GoogleRow(r)
  <2>1. r.apple_sub = Null /\ r.google_sub # Null /\ r.password = Null
    BY <1>1, <1>3 DEF GoogleRow, Sub
  <2>2. IdentityOf(r) = Key(by, r)
    BY <1>3, <2>1 DEF IdentityOf
  <2>3. ASSUME NEW c \in Credential, Key(c.by, r) = c PROVE c.by = by
    BY <1>1, <1>3, <2>1, <2>3 DEF Credential, Key
  <2>4. QED
    BY <1>0, <2>2, <2>3
<1>4. CASE by = "password" /\ PasswordRow(r)
  <2>1. r.apple_sub = Null /\ r.google_sub = Null
    BY <1>4 DEF PasswordRow
  <2>2. IdentityOf(r) = Key(by, r)
    BY <1>4, <2>1 DEF IdentityOf
  <2>3. ASSUME NEW c \in Credential, Key(c.by, r) = c PROVE c.by = by
    BY <1>1, <1>4, <2>1, <2>3 DEF Credential, Key
  <2>4. QED
    BY <1>0, <2>2, <2>3
<1>5. QED
  BY <1>2, <1>3, <1>4 DEF RowBy

\* The identities of users who exist are credentials, and no credential is nobody.
LEMMA WhoFacts ==
    ASSUME Inv, NEW u \in User
    PROVE  /\ Exists(u) => Who[u] \in Credential /\ Who[u] = IdentityOf(users[u])
           /\ ~Exists(u) => Who[u] = NoUser
           /\ NoUser \notin Credential
<1>1. NoUser \notin Credential
  BY DEF NoUser, Credential
<1>2. Exists(u) => \E by : RowBy(by, users[u])
  BY DEF Inv, RowsFine
<1>3. QED
  BY <1>1, <1>2, IdentityOfRow DEF Who

LEMMA InitPromised == Init => Promise!Init
<1> SUFFICES ASSUME Init PROVE Promise!Init
  OBVIOUS
<1>1. \A u \in User : ~Exists(u)
  BY DEF Init, Exists, NoUser
<1>2. Who = [u \in User |-> NoUser]
  BY <1>1 DEF Who
<1>3. Set = [u \in User |-> [c \in Setting |-> Default]]
  BY <1>1 DEF Set, NewRow
<1>4. Held = {}
  BY DEF Init, Held
<1>5. QED
  BY <1>2, <1>3, <1>4 DEF Promise!Init, Who, Set, Held

\* Whoever only reads changes nothing the promise is about.
LEMMA ReadersStutter == users' = users /\ granted' = granted => Stutter
BY DEF Stutter, Who, Set, Held, Exists

\* A token more.
LEMMA GrantAdmits ==
    ASSUME NEW c, NEW u, Grant(c, u)
    PROVE  Held' = Held \cup {<<c, u>>}
<1> DEFINE new == [credential |-> c, user |-> u]
<1>1. granted' = granted \cup {new} /\ new.credential = c /\ new.user = u
  BY DEF Grant
<1> HIDE DEF new
<1>2. QED
  BY <1>1 DEF Held

\* A look-up that finds the row lets its owner in.
LEMMA FoundEnters ==
    ASSUME Inv, NEW c \in Credential, NEW us \in SUBSET User,
           \A u \in us : Exists(u) /\ Key(c.by, users[u]) = c, Found(c, us)
    PROVE  Promise!Next
<1>1. PICK u \in us : Grant(c, u)
  BY DEF Found
<1>2. Who' = Who /\ Set' = Set
  BY DEF Found, Who, Set, Exists
<1>3. Who[u] = c
  <2>1. \E by : RowBy(by, users[u])
    BY DEF Inv, RowsFine
  <2>2. QED
    BY <2>1, IdentityOfRow, WhoFacts
<1>4. Held' = Held \cup {<<c, u>>}
  BY <1>1, GrantAdmits
<1>5. Promise!Enter(c)
  BY <1>1, <1>2, <1>3, <1>4 DEF Promise!Enter, Promise!Admit, Who, Set, Held
<1>6. QED
  BY <1>5 DEF Promise!Next

LEMMA RequestAllowed ==
    ASSUME Inv, NEW t \in Thread, Request(t)
    PROVE  Allowed
<1>1. ASSUME NEW by, NEW r, GoCreate(t, by, r) PROVE Allowed
  BY <1>1, ReadersStutter DEF GoCreate, Allowed
<1>2. ASSUME NEW s \in AppleSub \cup Device, NEW email \in {Blank, EmailOf[s]},
             findOrCreateAndIssueToken(t, s, email)
      PROVE  Allowed
  <2> DEFINE r == UserCreate(s, email)
             us == UserGetByAppleSub(s)
  <2>1. RowBy("apple", r) /\ r.apple_sub = s
    BY UserCreateFine
  <2>2. GoCreate(t, "apple", r) \/ Found(Key("apple", r), us)
    BY <1>2 DEF findOrCreateAndIssueToken
  <2> HIDE DEF r
  <2>3. Key("apple", r) \in Credential /\ Key("apple", r).by = "apple"
    BY <2>1, KeyFacts
  <2>4. us \in SUBSET User /\ \A u \in us : Exists(u) /\ Key("apple", users[u]) = Key("apple", r)
    BY <2>1 DEF UserGetByAppleSub, Key
  <2>5. QED
    BY <1>1, <2>2, <2>3, <2>4, FoundEnters DEF Allowed
<1>3. ASSUME NEW s, SignInWithGoogle(t, s) PROVE Allowed
  <2> DEFINE r == UserCreateWithGoogle(s, EmailOf[s])
             us == UserGetByGoogleSub(s)
  <2>1. RowBy("google", r) /\ r.google_sub = s
    BY <1>3, UserCreateWithGoogleFine DEF SignInWithGoogle
  <2>2. GoCreate(t, "google", r) \/ Found(Key("google", r), us)
    BY <1>3 DEF SignInWithGoogle
  <2> HIDE DEF r
  <2>3. Key("google", r) \in Credential /\ Key("google", r).by = "google"
    BY <2>1, KeyFacts
  <2>4. us \in SUBSET User /\ \A u \in us : Exists(u) /\ Key("google", users[u]) = Key("google", r)
    BY <2>1 DEF UserGetByGoogleSub, Key
  <2>5. QED
    BY <1>1, <2>2, <2>3, <2>4, FoundEnters DEF Allowed
<1>4. ASSUME NEW e \in Email, NEW p \in Password, SignUpWithEmail(t, e, p) PROVE Allowed
  BY <1>1, <1>4 DEF SignUpWithEmail
<1>5. ASSUME NEW e \in Email, NEW p \in Password, SignInWithEmail(t, e, p) PROVE Allowed
  <2> DEFINE c == [by |-> "password", key |-> Normal[e], secret |-> Hash(p)]
             us == {u \in UserGetByEmail(Normal[e]) :
                      /\ FromRow(u).PasswordHash # Blank
                      /\ Verify(FromRow(u).PasswordHash, p)}
  <2>1. us # {} /\ Found(c, us)
    BY <1>5 DEF SignInWithEmail
  <2>2. \A u \in us : u \in User /\ Exists(u) /\ users[u].email = Normal[e] /\ users[u].password = p
    BY DEF UserGetByEmail, FromRow, StringOf, Verify, Hash
  <2>3. Normal[e] \in Email
    <3>1. Normal[e] # Null
      BY NormalAssumption, NullAssumption
    <3>2. \A u \in us : users[u].email \in Email \cup {Null}
      BY <2>2, ExistsFacts DEF UserRow, Inv
    <3> HIDE DEF us
    <3>3. QED
      BY <2>1, <2>2, <3>1, <3>2
  <2>4. c \in Credential /\ \A u \in us : Key(c.by, users[u]) = c
    BY <2>2, <2>3 DEF Credential, Key, Hash
  <2>5. us \in SUBSET User
    BY <2>2
  <2> HIDE DEF c, us
  <2>6. QED
    BY <2>1, <2>2, <2>4, <2>5, FoundEnters DEF Allowed
<1>6. QED
  BY <1>2, <1>3, <1>4, <1>5 DEF Request, AuthController, SignInWithApple, DevSignIn

\* An insert that the indexes accept registers who nobody is yet.
LEMMA CreateRegisters ==
    ASSUME Inv, PendingNew, NEW t \in Thread, Create(t)
    PROVE  Promise!Next
<1> DEFINE by == thr[t].by
           r == thr[t].row
           c == Key(by, r)
<1>1. RowBy(by, r) /\ r.settings = NewRow.settings /\ Unique(r) /\ r \in UserRow
  BY DEF Create, Inv, PendingFine, PendingNew, RowBy
<1>2. PICK u \in User : ~Exists(u) /\ users' = [users EXCEPT ![u] = r] /\ Grant(c, u)
  BY DEF Create
<1> HIDE DEF by, r
<1>3. IdentityOf(r) = c /\ c \in Credential /\ c.by = by
  BY <1>1, IdentityOfRow
<1>4. users'[u] = r /\ r.exists /\ \A v \in User : v # u => users'[v] = users[v]
  BY <1>1, <1>2 DEF Inv, TypeOK, UserRow
<1>5. Who' = [Who EXCEPT ![u] = c]
  BY <1>3, <1>4 DEF Who, Exists
<1>6. Set' = Set
  BY <1>1, <1>2, <1>4 DEF Set, Exists
<1>7. Held' = Held \cup {<<c, u>>}
  BY <1>2, GrantAdmits
<1>8. ASSUME NEW v \in User, Who[v] # NoUser PROVE Who[v].by # c.by \/ Who[v].key # c.key
  <2>1. Exists(v) /\ Who[v] = IdentityOf(users[v])
    BY <1>8, WhoFacts
  <2>2. PICK maker : RowBy(maker, users[v])
    BY <2>1 DEF Inv, RowsFine
  <2>3. Who[v] = Key(maker, users[v]) /\ Who[v].by = maker
    BY <2>1, <2>2, IdentityOfRow
  <2>4. \A column \in {"apple_sub", "google_sub", "email"} :
           r[column] = Null \/ r[column] # users[v][column]
    BY <1>1, <2>1 DEF Unique
  <2>5. r.apple_sub = Null \/ r.apple_sub # users[v].apple_sub
    BY <2>4
  <2>6. r.google_sub = Null \/ r.google_sub # users[v].google_sub
    BY <2>4
  <2>7. r.email = Null \/ r.email # users[v].email
    BY <2>4
  <2>8. CASE maker = by
    <3>1. /\ Key(by, r).key # Null
          /\ by = "apple" => Key(by, r).key = r.apple_sub /\ Key(by, users[v]).key = users[v].apple_sub
          /\ by = "google" => Key(by, r).key = r.google_sub /\ Key(by, users[v]).key = users[v].google_sub
          /\ by = "password" => Key(by, r).key = r.email /\ Key(by, users[v]).key = users[v].email
          /\ by \in {"apple", "google", "password"}
      BY <1>1, <2>2, <2>8, KeyFacts DEF RowBy
    <3>2. QED
      BY <2>3, <2>5, <2>6, <2>7, <2>8, <3>1
  <2>9. QED
    BY <1>3, <2>3, <2>8
<1>9. Who[u] = NoUser
  BY <1>2, WhoFacts
<1> HIDE DEF c
<1>10. Promise!Free(c)
  BY <1>8 DEF Promise!Free, Who
<1>11. Promise!Register(c)
  BY <1>5, <1>6, <1>7, <1>9, <1>10 DEF Promise!Register, Promise!Admit, Who, Set, Held
<1>12. QED
  BY <1>3, <1>11 DEF Promise!Next

\* What the profile page saves is one setting of one user.
LEMMA SaveConfigures ==
    ASSUME Inv, NEW u \in User, NEW c \in Setting, NEW v \in Valid[c], Save(u, c, v)
    PROVE  Promise!Next
<1>1. /\ users[u] \in UserRow /\ users'[u] \in UserRow
      /\ users'[u].apple_sub = users[u].apple_sub
      /\ users'[u].google_sub = users[u].google_sub
      /\ users'[u].email = users[u].email
      /\ users'[u].password = users[u].password
      /\ \A d \in Setting : users'[u].settings[d] = IF d = c THEN v ELSE users[u].settings[d]
      /\ \A w \in User : w # u => users'[w] = users[w]
      /\ \A w \in User : Exists(w)' <=> Exists(w)
  BY SaveChanges
<1>2. Exists(u) /\ granted' = granted
  BY DEF Save
<1>3. IdentityOf(users[u])' = IdentityOf(users[u])
  BY <1>1 DEF IdentityOf, Key
<1>4. Who' = Who
  BY <1>1, <1>3 DEF Who
<1>5. users'[u].settings = [users[u].settings EXCEPT ![c] = v]
  BY <1>1 DEF UserRow
<1>6. Set' = [Set EXCEPT ![u][c] = v]
  BY <1>1, <1>2, <1>5 DEF Set
<1>7. Held' = Held
  BY <1>2 DEF Held
<1>8. Who[u] # NoUser
  BY <1>2, WhoFacts
<1>9. Promise!Configure(u, c)
  BY <1>4, <1>6, <1>7, <1>8 DEF Promise!Configure, Who, Set, Held
<1>10. QED
  BY <1>9 DEF Promise!Next

\* Identity implements Accounts: the look-ups, inserts and updates of every
\* goroutine come down to registering a free identity, letting its user in and
\* saving a setting of that user (internal/service/auth).
THEOREM IdentityImplementsAccounts == Spec => ImplementsAccounts
<1>1. Init => PendingNew
  BY DEF Init, PendingNew, Idle
<1>2. Inv /\ PendingNew /\ [Next]_vars => Allowed
  <2> SUFFICES ASSUME Inv, PendingNew, [Next]_vars PROVE Allowed
    OBVIOUS
  <2>1. ASSUME NEW t \in Thread, Refuse(t) \/ DbFails(t) PROVE Allowed
    BY <2>1, ReadersStutter DEF Refuse, DbFails, Allowed
  <2>2. ASSUME NEW u \in User, NEW body, Settings(u, body) PROVE Allowed
    BY <2>2, SettingsSave, SaveConfigures DEF Allowed
  <2>3. ASSUME Operator \/ UNCHANGED vars PROVE Allowed
    BY <2>3, OperatorReads, ReadersStutter DEF Allowed, vars
  <2>4. QED
    BY <2>1, <2>2, <2>3, RequestAllowed, CreateRegisters DEF Next, Allowed
<1>3. Allowed => [Promise!Next]_Promise!vars
  BY DEF Allowed, Stutter, Promise!vars, Who, Set, Held
<1>4. QED
  BY <1>1, <1>2, <1>3, InitPromised, PendingNewStep, Invariance, PTL
     DEF Spec, ImplementsAccounts, Promise!Spec

=============================================================================
