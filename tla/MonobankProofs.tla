--------------------------- MODULE MonobankProofs ---------------------------
(***************************************************************************)
(* Proofs about MonobankSync, for any users, goroutines, tokens, accounts  *)
(* and items, and any number of failures.                                  *)
(***************************************************************************)
EXTENDS MonobankSync, TLAPS

-----------------------------------------------------------------------------
(* Lists of accounts, and what a goroutine's locals hold.                  *)

\* The currencies that came with a list are those of its accounts.
TrackSound(track) ==
    \A n \in DOMAIN track.currencies :
        n \in DOMAIN track.accounts
        /\ track.currencies[n] = CurrencyOf[track.accounts[n]]

LEMMA TrackOfSound ==
    ASSUME NEW accounts \in Pick
    PROVE  TrackOf(accounts) \in Tracking /\ TrackSound(TrackOf(accounts))
<1>1. accounts \in Seq(Account) /\ CurrencyOf \in [Account -> Currency]
  BY PickAssumption, MapsAssumption
<1>2. [n \in DOMAIN accounts |-> CurrencyOf[accounts[n]]] \in Seq(Currency)
  BY <1>1
<1>3. QED
  BY <1>2 DEF TrackOf, Tracking, TrackSound

\* A list as a request sends it is sound, where there is one.
SentSound(track) == track.currencies # None => TrackSound(track)

LEMMA SentIsSound ==
    ASSUME NEW accounts \in Pick, NEW track \in {TrackOf(accounts), TrackOfIos(accounts)}
    PROVE  track \in Sent /\ SentSound(track)
<1>1. CASE track = TrackOf(accounts)
  BY <1>1, TrackOfSound DEF Tracking, Sent, SentSound
<1>2. CASE track = TrackOfIos(accounts)
  BY <1>2 DEF TrackOfIos, Sent, SentSound
<1>3. QED
  BY <1>1, <1>2

LEMMA SentIsTracking ==
    ASSUME NEW track \in Sent, track.currencies # None
    PROVE  track \in Tracking
BY DEF Sent, Tracking

LEMMA TrackingHasFirst ==
    ASSUME NEW track \in Tracking
    PROVE  /\ track.accounts[1] \in Tracked(track)
           /\ Tracked(track) \subseteq Account
<1>1. track.accounts \in Seq(Account) /\ track.accounts # <<>>
  BY PickAssumption DEF Tracking
<1>2. 1 \in DOMAIN track.accounts
  BY <1>1
<1>3. QED
  BY <1>1, <1>2 DEF Tracked

LEMMA CurrencySound ==
    ASSUME NEW track \in Tracking, TrackSound(track), NEW a \in Tracked(track)
    PROVE  CurrencyAt(track, a) \in {Unknown, CurrencyOf[a]}
<1> DEFINE n == CHOOSE n \in DOMAIN track.accounts : track.accounts[n] = a
<1>1. n \in DOMAIN track.accounts /\ track.accounts[n] = a
  BY DEF Tracked
<1>2. n \in DOMAIN track.currencies => track.currencies[n] = CurrencyOf[a]
  BY <1>1 DEF TrackSound
<1>3. QED
  BY <1>2 DEF CurrencyAt

LEMMA LocalFields ==
    ASSUME NEW l \in Local
    PROVE  /\ l.pc \in {"idle", "hook", "save", "fetch", "lookup", "import"}
           /\ l.pc \in {"hook", "save"} =>
                 /\ l.user \in User /\ l.token \in Token /\ l.secret \in Secret
                 /\ l.track \in Sent
                 /\ l = [pc |-> l.pc, user |-> l.user, token |-> l.token,
                         secret |-> l.secret, track |-> l.track]
           /\ l.pc = "fetch" =>
                 /\ l.user \in User /\ l.token \in Token /\ l.account \in Account
                 /\ l.currency \in Currency \cup {Unknown}
           /\ l.pc = "lookup" => l.post \in Post
           /\ l.pc = "import" =>
                 /\ l.user \in User /\ l.items \subseteq Item
                 /\ l.currency \in Currency \cup {Unknown}
                 /\ l.post \in Post \cup {NoPost}
                 /\ l = [pc |-> "import", user |-> l.user, items |-> l.items,
                         currency |-> l.currency, post |-> l.post]
<1>1. CASE l = Idle
  BY <1>1 DEF Idle
<1>2. CASE l \in [pc : {"hook", "save"}, user : User, token : Token, secret : Secret,
                  track : Sent]
  BY <1>2
<1>3. CASE l \in [pc : {"fetch"}, user : User, token : Token, account : Account,
                  currency : Currency \cup {Unknown}]
  BY <1>3
<1>4. CASE l \in [pc : {"lookup"}, post : Post]
  BY <1>4
<1>5. CASE l \in [pc : {"import"}, user : User, items : SUBSET Item,
                  currency : Currency \cup {Unknown}, post : Post \cup {NoPost}]
  BY <1>5
<1>6. QED
  BY <1>1, <1>2, <1>3, <1>4, <1>5 DEF Local

LEMMA NoneIsNothing ==
    /\ NoRow \notin Row /\ NoConn \notin Connection /\ NoPost \notin Post
    /\ Idle \in Local /\ Idle.pc = "idle"
BY NoneAssumption DEF NoRow, Row, NoConn, Connection, NoPost, Post, Idle, Local

-----------------------------------------------------------------------------
(* The invariant: what each part of the state says about whose it is rests *)
(* on given, picked and maker, which only grow, and so stays true of a     *)
(* row, a post or a local long after what it was read from has changed.    *)

\* Secret s is one that was made for u, or for somebody.
Backed(s, i) ==
    /\ maker[s] # None
    /\ \E k \in given[maker[s]] : AccountOf[i] \in Covers[k]

ConnSound(u, c) ==
    c # NoConn => /\ maker[c.secret] = u /\ c.token \in given[u]
                  /\ Tracked(c.track) \subseteq picked[u] /\ TrackSound(c.track)

LocalSound(l) ==
    /\ l.pc \in {"hook", "save"} =>
          maker[l.secret] = l.user /\ l.token \in given[l.user] /\ SentSound(l.track)
    /\ l.pc = "fetch" =>
          /\ l.token \in given[l.user] /\ l.account \in picked[l.user]
          /\ l.currency \in {Unknown, CurrencyOf[l.account]}
    /\ l.pc = "lookup" => Backed(l.post.secret, l.post.item)
    /\ l.pc = "import" => \A i \in l.items :
          Consented(l.user, i) /\ l.currency \in {Unknown, CurrencyOf[AccountOf[i]]}

HookSound(k, s) == s # None => maker[s] # None /\ k \in given[maker[s]]

RowSound(row) ==
    row # NoRow =>
        /\ Consented(row.user, row.item)
        /\ row.currency \in {CurrencyOf[AccountOf[row.item]], Reported[row.item], Edited}

Inv ==
    /\ TypeOK
    /\ \A u \in User : ConnSound(u, conn[u])
    /\ \A t \in Thread : LocalSound(thr[t])
    /\ \A k \in Token : HookSound(k, hook[k])
    /\ \A p \in posts : Backed(p.secret, p.item)
    /\ \A r \in RowId : RowSound(rows[r])
    /\ OneRowPerItem

\* What no step takes back.
Later ==
    /\ \A u \in User : given[u] \subseteq given'[u] /\ picked[u] \subseteq picked'[u]
    /\ \A s \in Secret : maker[s] # None => maker'[s] = maker[s]

LEMMA InvInit == Init => Inv
<1> SUFFICES ASSUME Init PROVE Inv
  OBVIOUS
<1>1. conn \in [User -> Connection \cup {NoConn}]
  <2>1. <<>> \in Seq(Currency)
    OBVIOUS
  <2>2. QED
    BY <2>1 DEF Init, Connection, Tracking
<1>2. ASSUME NEW u \in User, Connected(u)
      PROVE  /\ conn[u] \in Connection /\ conn[u].secret \in Secret
             /\ conn[u].track \in Tracking /\ conn[u].track.currencies = <<>>
             /\ given[u] = {conn[u].token} /\ picked[u] = Tracked(conn[u].track)
  BY <1>1, <1>2 DEF Init, Connected, Connection
<1>3. ASSUME NEW u \in User, Connected(u) PROVE maker[conn[u].secret] = u
  <2> DEFINE s == conn[u].secret
             Old == {v \in User : conn[v].secret = s}
  <2>1. s \in Secret /\ u \in Old
    BY <1>2, <1>3
  <2>2. ASSUME NEW v \in Old PROVE v = u
    <3>1. Connected(v)
      BY <2>1, NoneAssumption DEF Connected, NoConn
    <3>2. QED
      BY <1>3, <3>1 DEF Init
  <2>3. maker[s] = CHOOSE v \in Old : TRUE
    BY <2>1 DEF Init
  <2>4. QED
    BY <2>1, <2>2, <2>3
<1>4. maker \in [Secret -> User \cup {None}]
  <2>1. ASSUME NEW s \in Secret
        PROVE  (LET Old == {u \in User : conn[u].secret = s}
                IN  IF Old = {} THEN None ELSE CHOOSE u \in Old : TRUE)
               \in User \cup {None}
    OBVIOUS
  <2>2. QED
    BY <2>1 DEF Init
<1>5. ASSUME NEW k \in Token PROVE hook[k] \in Secret \cup {None} /\ HookSound(k, hook[k])
  <2> DEFINE Old == {u \in User : Connected(u) /\ conn[u].token = k}
  <2>1. hook[k] = IF Old = {} THEN None ELSE conn[CHOOSE u \in Old : TRUE].secret
    BY DEF Init
  <2>2. CASE Old = {}
    BY <2>1, <2>2 DEF HookSound
  <2>3. CASE Old # {}
    <3>1. PICK u \in Old : u = CHOOSE v \in Old : TRUE
      BY <2>3
    <3>2. Connected(u) /\ conn[u].token = k /\ hook[k] = conn[u].secret
      BY <2>1, <2>3, <3>1
    <3>3. maker[hook[k]] = u /\ hook[k] \in Secret /\ k \in given[u] /\ u # None
      BY <1>2, <1>3, <3>2, NoneAssumption
    <3>4. QED
      BY <3>3 DEF HookSound
  <2>4. QED
    BY <2>2, <2>3
<1>6. given \in [User -> SUBSET Token] /\ picked \in [User -> SUBSET Account]
  <2>1. ASSUME NEW u \in User, Connected(u)
        PROVE  conn[u].token \in Token /\ Tracked(conn[u].track) \subseteq Account
    BY <1>2, <2>1, TrackingHasFirst DEF Connection
  <2>2. QED
    BY <2>1 DEF Init
<1>7. hook \in [Token -> Secret \cup {None}]
  BY <1>5 DEF Init
<1>8. TypeOK
  BY <1>1, <1>4, <1>6, <1>7, NoneIsNothing, NoneAssumption DEF Init, TypeOK
<1>9. ASSUME NEW u \in User PROVE ConnSound(u, conn[u])
  BY <1>2, <1>3 DEF ConnSound, Connected, TrackSound
<1>10. \A t \in Thread : LocalSound(thr[t])
  BY DEF Init, LocalSound, Idle
<1>11. /\ \A p \in posts : Backed(p.secret, p.item)
       /\ \A r \in RowId : RowSound(rows[r])
       /\ OneRowPerItem
  BY DEF Init, RowSound, OneRowPerItem
<1>12. QED
  BY <1>5, <1>8, <1>9, <1>10, <1>11 DEF Inv

LEMMA ConsentKept ==
    ASSUME Later, NEW u \in User, NEW i \in Item, Consented(u, i)
    PROVE  Consented(u, i)'
BY DEF Later, Consented

LEMMA BackedKept ==
    ASSUME TypeOK, Later, NEW s \in Secret, NEW i \in Item, Backed(s, i)
    PROVE  Backed(s, i)'
BY DEF TypeOK, Later, Backed

LEMMA ConnKept ==
    ASSUME Later, NEW u \in User, NEW c \in Connection \cup {NoConn}, ConnSound(u, c)
    PROVE  ConnSound(u, c)'
<1> SUFFICES ASSUME c # NoConn
             PROVE  /\ maker'[c.secret] = u /\ c.token \in given'[u]
                    /\ Tracked(c.track) \subseteq picked'[u] /\ TrackSound(c.track)
  BY DEF ConnSound, Tracked, TrackSound
<1>1. c \in Connection /\ c.secret \in Secret /\ u # None
  BY NoneAssumption DEF Connection
<1>2. QED
  BY <1>1 DEF Later, ConnSound

LEMMA LocalKept ==
    ASSUME TypeOK, Later, NEW l \in Local, LocalSound(l)
    PROVE  LocalSound(l)'
<1>1. l.pc \in {"hook", "save"} =>
          maker'[l.secret] = l.user /\ l.token \in given'[l.user] /\ SentSound(l.track)
  BY LocalFields, NoneAssumption DEF LocalSound, Later
<1>2. l.pc = "fetch" =>
          /\ l.token \in given'[l.user] /\ l.account \in picked'[l.user]
          /\ l.currency \in {Unknown, CurrencyOf[l.account]}
  BY LocalFields DEF LocalSound, Later
<1>3. l.pc = "lookup" => Backed(l.post.secret, l.post.item)'
  <2> SUFFICES ASSUME l.pc = "lookup" PROVE Backed(l.post.secret, l.post.item)'
    OBVIOUS
  <2>1. PICK s \in Secret, i \in Item : s = l.post.secret /\ i = l.post.item
    BY LocalFields DEF Post
  <2>2. Backed(s, i)'
    BY <2>1, BackedKept DEF LocalSound
  <2>3. QED
    BY <2>1, <2>2
<1>4. l.pc = "import" => \A i \in l.items :
          Consented(l.user, i)' /\ l.currency \in {Unknown, CurrencyOf[AccountOf[i]]}
  BY LocalFields, ConsentKept DEF LocalSound
<1>5. QED
  BY <1>1, <1>2, <1>3, <1>4 DEF LocalSound, SentSound, TrackSound

LEMMA RowKept ==
    ASSUME Later, NEW row \in Row \cup {NoRow}, RowSound(row)
    PROVE  RowSound(row)'
<1>1. row # NoRow => row.user \in User /\ row.item \in Item
  BY DEF Row
<1>2. row # NoRow => Consented(row.user, row.item)'
  BY <1>1, ConsentKept DEF RowSound
<1>3. QED
  BY <1>2 DEF RowSound

-----------------------------------------------------------------------------
(* What a step leaves alone stays sound.                                   *)

LEMMA ConnsKept ==
    ASSUME Inv, Later, conn' = conn
    PROVE  \A u \in User : ConnSound(u, conn[u])'
<1> TAKE u \in User
<1>1. PICK c : c = conn[u]
  OBVIOUS
<1>2. c \in Connection \cup {NoConn} /\ ConnSound(u, c)
  BY <1>1 DEF Inv, TypeOK
<1>3. ConnSound(u, c)'
  BY <1>2, ConnKept
<1>4. QED
  BY <1>1, <1>3 DEF ConnSound

\* One connection is written, the others stay.
LEMMA ConnsFrom ==
    ASSUME Inv, Later, NEW u \in User, NEW c, conn' = [conn EXCEPT ![u] = c],
           ConnSound(u, c)'
    PROVE  \A v \in User : ConnSound(v, conn[v])'
<1> TAKE v \in User
<1>1. CASE v = u
  <2>1. conn'[v] = c
    BY <1>1 DEF Inv, TypeOK
  <2>2. QED
    BY <1>1, <2>1 DEF ConnSound
<1>2. CASE v # u
  <2>1. PICK d : d = conn[v]
    OBVIOUS
  <2>2. conn'[v] = d /\ d \in Connection \cup {NoConn} /\ ConnSound(v, d)
    BY <1>2, <2>1 DEF Inv, TypeOK
  <2>3. ConnSound(v, d)'
    BY <2>2, ConnKept
  <2>4. QED
    BY <2>2, <2>3 DEF ConnSound
<1>3. QED
  BY <1>1, <1>2

LEMMA LocalsKept ==
    ASSUME Inv, Later, thr' = thr
    PROVE  \A t \in Thread : LocalSound(thr[t])'
<1> TAKE t \in Thread
<1>1. PICK l : l = thr[t]
  OBVIOUS
<1>2. l \in Local /\ LocalSound(l) /\ TypeOK
  BY <1>1 DEF Inv, TypeOK
<1>3. LocalSound(l)'
  BY <1>2, LocalKept
<1>4. QED
  BY <1>1, <1>3 DEF LocalSound

LEMMA LocalsFrom ==
    ASSUME Inv, Later, NEW t \in Thread, NEW l, thr' = [thr EXCEPT ![t] = l],
           LocalSound(l)'
    PROVE  \A s \in Thread : LocalSound(thr[s])'
<1> TAKE s \in Thread
<1>1. CASE s = t
  <2>1. thr'[s] = l
    BY <1>1 DEF Inv, TypeOK
  <2>2. QED
    BY <2>1 DEF LocalSound
<1>2. CASE s # t
  <2>1. PICK m : m = thr[s]
    OBVIOUS
  <2>2. thr'[s] = m /\ m \in Local /\ LocalSound(m) /\ TypeOK
    BY <1>2, <2>1 DEF Inv, TypeOK
  <2>3. LocalSound(m)'
    BY <2>2, LocalKept
  <2>4. QED
    BY <2>2, <2>3 DEF LocalSound
<1>3. QED
  BY <1>1, <1>2

LEMMA HooksKept ==
    ASSUME Inv, Later, hook' = hook
    PROVE  \A k \in Token : HookSound(k, hook[k])'
<1> TAKE k \in Token
<1>1. hook[k] \in Secret \cup {None} /\ maker \in [Secret -> User \cup {None}]
      /\ HookSound(k, hook[k])
  BY DEF Inv, TypeOK
<1>2. hook[k] # None =>
          maker'[hook[k]] = maker[hook[k]] /\ maker[hook[k]] \in User
  BY <1>1 DEF HookSound, Later
<1>3. QED
  BY <1>1, <1>2 DEF HookSound, Later

LEMMA PostsKept ==
    ASSUME Inv, Later, posts' \subseteq posts
    PROVE  \A p \in posts' : Backed(p.secret, p.item)'
<1> TAKE p \in posts'
<1>1. PICK s \in Secret, i \in Item : s = p.secret /\ i = p.item
  BY DEF Inv, TypeOK, Post
<1>2. TypeOK /\ Backed(s, i)
  BY <1>1 DEF Inv
<1>3. Backed(s, i)'
  BY <1>2, BackedKept
<1>4. QED
  BY <1>1, <1>3

LEMMA RowsKept ==
    ASSUME Inv, Later, rows' = rows
    PROVE  (\A r \in RowId : RowSound(rows[r])') /\ OneRowPerItem'
<1>1. ASSUME NEW r \in RowId PROVE RowSound(rows[r])'
  <2>1. PICK row : row = rows[r]
    OBVIOUS
  <2>2. row \in Row \cup {NoRow} /\ RowSound(row)
    BY <2>1 DEF Inv, TypeOK
  <2>3. RowSound(row)'
    BY <2>2, RowKept
  <2>4. QED
    BY <2>1, <2>3 DEF RowSound
<1>2. OneRowPerItem'
  BY DEF Inv, OneRowPerItem
<1>3. QED
  BY <1>1, <1>2

\* The history does not change, so nothing is taken back.
LEMMA QuietLater ==
    ASSUME given' = given, picked' = picked, maker' = maker
    PROVE  Later
BY DEF Later

\* A step that only moves one goroutine on, and may end a post.
LEMMA MoveInv ==
    ASSUME Inv, NEW t \in Thread, NEW l \in Local, LocalSound(l),
           thr' = [thr EXCEPT ![t] = l], posts' \subseteq posts, faults' \in Nat,
           UNCHANGED <<conn, rows, hook, booked, maker, given, picked>>
    PROVE  Inv'
<1>1. Later
  BY QuietLater
<1>2. LocalSound(l)'
  BY <1>1, LocalKept DEF Inv
<1>3. TypeOK'
  BY DEF Inv, TypeOK
<1>4. QED
  BY <1>1, <1>2, <1>3, ConnsKept, LocalsFrom, HooksKept, PostsKept, RowsKept DEF Inv

LEMMA IdleSound == Idle \in Local /\ LocalSound(Idle)
BY NoneIsNothing DEF LocalSound

-----------------------------------------------------------------------------
(* Every step preserves the invariant.                                     *)

LEMMA FreshIsNew ==
    ASSUME NEW t \in Thread, NEW u, NEW k, NEW track, Connect(t, u, k, track)
    PROVE  FreshSecret \in Secret /\ maker[FreshSecret] = None
BY DEF Connect, FreshSecret

LEMMA ConnectInv ==
    ASSUME Inv, NEW t \in Thread, NEW u \in User, NEW k \in Token, NEW accounts \in Pick,
           NEW track \in {TrackOf(accounts), TrackOfIos(accounts)},
           Connect(t, u, k, track)
    PROVE  Inv'
<1>1. PICK s \in Secret : s = FreshSecret /\ maker[s] = None
  BY FreshIsNew
<1>2. PICK l : l = [pc |-> "hook", user |-> u, token |-> k, secret |-> s,
                    track |-> track]
  OBVIOUS
<1>3. track \in Sent /\ SentSound(track) /\ l \in Local
  BY <1>2, SentIsSound DEF Local
<1>4. /\ maker' = [maker EXCEPT ![s] = u]
      /\ given' = [given EXCEPT ![u] = @ \cup {k}] /\ thr' = [thr EXCEPT ![t] = l]
      /\ UNCHANGED <<conn, rows, hook, booked, posts, faults, picked>>
  BY <1>1, <1>2 DEF Connect, Start, bank
<1>5. TypeOK'
  BY <1>1, <1>3, <1>4 DEF Inv, TypeOK
<1>6. Later
  BY <1>1, <1>4 DEF Inv, TypeOK, Later
<1>7. LocalSound(l)'
  BY <1>1, <1>2, <1>3, <1>4 DEF LocalSound, Inv, TypeOK, SentSound, TrackSound
<1>8. QED
  BY <1>4, <1>5, <1>6, <1>7, ConnsKept, LocalsFrom, HooksKept, PostsKept, RowsKept
     DEF Inv

\* The bank takes the URL, whether its answer arrives or not.
LEMMA HookInv ==
    ASSUME Inv, NEW t \in Thread, thr[t].pc = "hook", NEW l \in Local, LocalSound(l),
           hook' = [hook EXCEPT ![thr[t].token] = thr[t].secret],
           thr' = [thr EXCEPT ![t] = l], faults' \in Nat,
           UNCHANGED <<conn, rows, booked, posts, maker, given, picked>>
    PROVE  Inv'
<1>1. PICK m : m = thr[t]
  OBVIOUS
<1>2. /\ m \in Local /\ m.token \in Token /\ m.secret \in Secret /\ m.user \in User
      /\ maker[m.secret] = m.user /\ m.token \in given[m.user]
  BY <1>1, LocalFields DEF Inv, TypeOK, LocalSound
<1>3. Later
  BY QuietLater
<1>4. LocalSound(l)'
  BY <1>3, LocalKept DEF Inv
<1>5. TypeOK'
  BY <1>1, <1>2 DEF Inv, TypeOK
<1>6. ASSUME NEW k \in Token PROVE HookSound(k, hook[k])'
  <2>1. CASE k = m.token
    BY <1>1, <1>2, <2>1, NoneAssumption DEF Inv, TypeOK, HookSound
  <2>2. CASE k # m.token
    BY <1>1, <2>2 DEF Inv, TypeOK, HookSound
  <2>3. QED
    BY <2>1, <2>2
<1>7. QED
  BY <1>3, <1>4, <1>5, <1>6, ConnsKept, LocalsFrom, PostsKept, RowsKept DEF Inv

\* A connection is written for its own user, and a goroutine may return.
LEMMA ConnInv ==
    ASSUME Inv, NEW u \in User, NEW c \in Connection, ConnSound(u, c)',
           conn' = [conn EXCEPT ![u] = c],
           picked' = [picked EXCEPT ![u] = @ \cup Tracked(c.track)],
           thr' = thr \/ \E t \in Thread : Return(t),
           UNCHANGED <<rows, hook, booked, posts, faults, maker, given>>
    PROVE  Inv'
<1>1. Tracked(c.track) \subseteq Account
  BY TrackingHasFirst DEF Connection
<1>2. Later
  BY <1>1 DEF Inv, TypeOK, Later
<1>3. TypeOK'
  BY <1>1, IdleSound DEF Inv, TypeOK, Return
<1>4. \A t \in Thread : LocalSound(thr[t])'
  <2>1. CASE thr' = thr
    BY <1>2, <2>1, LocalsKept
  <2>2. ASSUME NEW t \in Thread, Return(t) PROVE \A s \in Thread : LocalSound(thr[s])'
    <3>1. LocalSound(Idle)'
      BY DEF LocalSound, Idle
    <3>2. QED
      BY <1>2, <2>2, <3>1, LocalsFrom DEF Return
  <2>3. QED
    BY <2>1, <2>2
<1>5. QED
  BY <1>2, <1>3, <1>4, ConnsFrom, HooksKept, PostsKept, RowsKept DEF Inv

LEMMA UpsertInv ==
    ASSUME Inv, NEW t \in Thread, Upsert(t)
    PROVE  Inv'
<1>1. PICK l : l = thr[t]
  OBVIOUS
<1>2. /\ l \in Local /\ l.pc = "save" /\ l.user \in User /\ l.token \in Token
      /\ l.secret \in Secret /\ l.track \in Sent /\ l.track.currencies # None
      /\ maker[l.secret] = l.user /\ l.token \in given[l.user] /\ SentSound(l.track)
  BY <1>1, LocalFields DEF Upsert, Inv, TypeOK, LocalSound
<1>3. PICK c : c = [token |-> l.token, secret |-> l.secret, track |-> l.track,
                    synced |-> FALSE]
  OBVIOUS
<1>4. c \in Connection /\ c.secret = l.secret /\ c.token = l.token /\ c.track = l.track
      /\ TrackSound(l.track)
  BY <1>2, <1>3, SentIsTracking DEF Connection, SentSound
<1>5. /\ conn' = [conn EXCEPT ![l.user] = c]
      /\ picked' = [picked EXCEPT ![l.user] = @ \cup Tracked(c.track)]
      /\ UNCHANGED <<rows, hook, booked, posts, faults, maker, given>>
  BY <1>1, <1>3, <1>4 DEF Upsert, bank
<1>6. ConnSound(l.user, c)'
  BY <1>2, <1>4, <1>5 DEF ConnSound, Inv, TypeOK, TrackSound, Tracked
<1>7. PICK u \in User : u = l.user
  BY <1>2
<1>8. ConnSound(u, c)'
  BY <1>6, <1>7 DEF ConnSound
<1>9. QED
  BY <1>4, <1>5, <1>7, <1>8, ConnInv DEF Upsert

LEMMA UpdateAccountsInv ==
    ASSUME Inv, NEW u \in User, NEW accounts \in Pick,
           UpdateAccounts(u, TrackOf(accounts))
    PROVE  Inv'
<1> DEFINE track == TrackOf(accounts)
<1>1. conn[u] \in Connection /\ ConnSound(u, conn[u]) /\ conn[u] # NoConn
  BY DEF UpdateAccounts, Connected, Inv, TypeOK
<1>2. PICK c : c = [conn[u] EXCEPT !.track = track]
  OBVIOUS
<1>3. /\ track \in Tracking /\ TrackSound(track)
      /\ c \in Connection /\ c.secret = conn[u].secret /\ c.token = conn[u].token
      /\ c.track = track
  BY <1>1, <1>2, TrackOfSound DEF Connection
<1>4. /\ conn' = [conn EXCEPT ![u] = c]
      /\ picked' = [picked EXCEPT ![u] = @ \cup Tracked(c.track)]
      /\ UNCHANGED <<rows, thr, hook, booked, posts, faults, maker, given>>
  BY <1>1, <1>2, <1>3 DEF UpdateAccounts, Inv, TypeOK, bank
<1>5. ConnSound(u, c)'
  BY <1>1, <1>3, <1>4 DEF ConnSound, Inv, TypeOK, TrackSound, Tracked
<1>6. QED
  BY <1>3, <1>4, <1>5, ConnInv

LEMMA DisconnectInv ==
    ASSUME Inv, NEW u \in User, Disconnect(u)
    PROVE  Inv'
<1>1. Later /\ ConnSound(u, NoConn)'
  BY QuietLater DEF Disconnect, ConnSound
<1>2. TypeOK'
  BY DEF Disconnect, Inv, TypeOK, bank
<1>3. UNCHANGED <<rows, thr, hook, booked, posts, faults, maker, given, picked>>
  BY DEF Disconnect, bank
<1>4. QED
  BY <1>1, <1>2, <1>3, ConnsFrom, LocalsKept, HooksKept, PostsKept, RowsKept
     DEF Inv, Disconnect

LEMMA SyncNowInv ==
    ASSUME Inv, NEW t \in Thread, NEW u \in User, SyncNow(t, u)
    PROVE  Inv'
<1> DEFINE c == conn[u]
           a == c.track.accounts[1]
<1>1. c \in Connection /\ ConnSound(u, c) /\ c # NoConn
  BY DEF SyncNow, Connected, Inv, TypeOK
<1>2. c.track \in Tracking /\ TrackSound(c.track) /\ c.token \in given[u] /\ c.token \in Token
      /\ Tracked(c.track) \subseteq picked[u]
  BY <1>1 DEF Connection, ConnSound
<1>3. a \in Tracked(c.track) /\ a \in Account
  BY <1>2, TrackingHasFirst
<1>4. CurrencyAt(c.track, a) \in {Unknown, CurrencyOf[a]}
  BY <1>2, <1>3, CurrencySound
<1>5. PICK l : l = [pc |-> "fetch", user |-> u, token |-> c.token, account |-> a,
                    currency |-> CurrencyAt(c.track, a)]
  OBVIOUS
<1>6. l \in Local
  BY <1>2, <1>3, <1>4, <1>5, MapsAssumption DEF Local
<1>7. LocalSound(l)
  BY <1>2, <1>3, <1>4, <1>5 DEF LocalSound
<1>8. /\ thr' = [thr EXCEPT ![t] = l] /\ faults' \in Nat
      /\ UNCHANGED <<conn, rows, hook, booked, posts, maker, given, picked>>
  BY <1>5 DEF SyncNow, Start, bank, Inv, TypeOK
<1>9. QED
  BY <1>6, <1>7, <1>8, MoveInv

LEMMA StatementInv ==
    ASSUME Inv, NEW t \in Thread, Statement(t)
    PROVE  Inv'
<1>1. PICK m : m = thr[t]
  OBVIOUS
<1>2. /\ m \in Local /\ m.pc = "fetch" /\ m.user \in User /\ m.token \in given[m.user]
      /\ m.account \in picked[m.user]
      /\ m.currency \in {Unknown, CurrencyOf[m.account]}
      /\ m.currency \in Currency \cup {Unknown}
  BY <1>1, LocalFields DEF Statement, Inv, TypeOK, LocalSound
<1>3. /\ faults' \in Nat
      /\ UNCHANGED <<conn, rows, hook, booked, posts, maker, given, picked>>
  BY DEF Statement, bank, Inv, TypeOK
<1>4. CASE m.account \in Covers[m.token]
  <2>1. PICK l : l = [pc |-> "import", user |-> m.user,
                      items |-> {i \in booked : AccountOf[i] = m.account},
                      currency |-> m.currency, post |-> NoPost]
    OBVIOUS
  <2>2. l \in Local
    BY <1>2, <2>1 DEF Local, Inv, TypeOK
  <2>3. LocalSound(l)
    BY <1>2, <1>4, <2>1 DEF LocalSound, Consented
  <2>4. thr' = [thr EXCEPT ![t] = l]
    BY <1>1, <1>4, <2>1 DEF Statement, Goto
  <2>5. QED
    BY <1>3, <2>2, <2>3, <2>4, MoveInv
<1>5. CASE m.account \notin Covers[m.token]
  BY <1>1, <1>3, <1>5, IdleSound, MoveInv DEF Statement, Return
<1>6. QED
  BY <1>4, <1>5

LEMMA WebhookInv ==
    ASSUME Inv, NEW t \in Thread, NEW p \in posts, Webhook(t, p)
    PROVE  Inv'
<1>1. PICK l : l = [pc |-> "lookup", post |-> p]
  OBVIOUS
<1>2. p \in Post /\ Backed(p.secret, p.item)
  BY DEF Inv, TypeOK
<1>3. l \in Local /\ LocalSound(l)
  BY <1>1, <1>2 DEF Local, LocalSound
<1>4. /\ thr' = [thr EXCEPT ![t] = l] /\ faults' \in Nat
      /\ UNCHANGED <<conn, rows, hook, booked, posts, maker, given, picked>>
  BY <1>1 DEF Webhook, Start, bank, Inv, TypeOK
<1>5. QED
  BY <1>3, <1>4, MoveInv

LEMMA ProcessInv ==
    ASSUME Inv, NEW t \in Thread, Process(t)
    PROVE  Inv'
<1>1. PICK m : m = thr[t]
  OBVIOUS
<1>2. PICK p : p = m.post
  OBVIOUS
<1>3. /\ m.pc = "lookup" /\ p \in Post /\ Backed(p.secret, p.item) /\ faults' \in Nat
      /\ UNCHANGED <<conn, rows, hook, booked, maker, given, picked>>
  BY <1>1, <1>2, LocalFields DEF Process, Inv, TypeOK, LocalSound
<1>4. PICK a : a = AccountOf[p.item]
  OBVIOUS
<1>5. ASSUME NEW u \in User, Connected(u), conn[u].secret = p.secret,
             a \in Tracked(conn[u].track),
             Goto(t, [pc |-> "import", user |-> u, items |-> {p.item},
                      currency |-> CurrencyAt(conn[u].track, a), post |-> p]),
             UNCHANGED posts
      PROVE  Inv'
  <2>1. conn[u] \in Connection /\ ConnSound(u, conn[u]) /\ conn[u] # NoConn
    BY <1>5 DEF Connected, Inv, TypeOK
  <2>2. /\ maker[p.secret] = u /\ Tracked(conn[u].track) \subseteq picked[u]
        /\ conn[u].track \in Tracking /\ TrackSound(conn[u].track)
    BY <1>5, <2>1 DEF ConnSound, Connection
  <2>3. CurrencyAt(conn[u].track, a) \in {Unknown, CurrencyOf[a]}
    BY <1>5, <2>2, CurrencySound
  <2>4. p.item \in Item /\ a \in Account
    BY <1>3, <1>4, MapsAssumption DEF Post
  <2>5. PICK l : l = [pc |-> "import", user |-> u, items |-> {p.item},
                      currency |-> CurrencyAt(conn[u].track, a), post |-> p]
    OBVIOUS
  <2>6. l \in Local
    BY <1>3, <2>3, <2>4, <2>5, MapsAssumption DEF Local
  <2>7. Consented(u, p.item)
    BY <1>3, <1>4, <1>5, <2>2 DEF Consented, Backed
  <2>8. LocalSound(l)
    BY <1>4, <2>3, <2>5, <2>7 DEF LocalSound
  <2>9. QED
    BY <1>3, <1>5, <2>5, <2>6, <2>8, MoveInv DEF Goto
<1>6. ASSUME Answer(t, p) PROVE Inv'
  BY <1>3, <1>6, IdleSound, MoveInv DEF Answer, Return
<1>7. QED
  BY <1>1, <1>2, <1>4, <1>5, <1>6 DEF Process

\* What the importer writes is sound, and is no second row of its item.
LEMMA CreateInv ==
    ASSUME Inv, NEW u \in User, NEW i \in Item, NEW currency,
           Consented(u, i), currency \in {Unknown, CurrencyOf[AccountOf[i]]},
           CreateWithExternalID(u, i, currency), given' = given, picked' = picked,
           maker' = maker
    PROVE  /\ rows' \in [RowId -> Row \cup {NoRow}]
           /\ \A r \in RowId : RowSound(rows[r])'
           /\ OneRowPerItem'
<1>1. Later /\ rows \in [RowId -> Row \cup {NoRow}]
  BY QuietLater DEF Inv, TypeOK
<1>2. CASE Imported(u, i)
  BY <1>1, <1>2, RowsKept DEF CreateWithExternalID
<1>3. CASE ~Imported(u, i)
  <2>1. PICK f, row : f = FreeRow /\ row = ImportedRow(u, i, currency)
    OBVIOUS
  <2>2. /\ f \in RowId /\ rows[f] = NoRow
        /\ rows' = [rows EXCEPT ![f] = row]
    BY <1>3, <2>1 DEF CreateWithExternalID, FreeRow
  <2>3. /\ row \in Row /\ row # NoRow /\ row.user = u /\ row.item = i
        /\ row.currency \in {CurrencyOf[AccountOf[i]], Reported[i]}
    BY <2>1, MapsAssumption, NoneIsNothing DEF ImportedRow, Row
  <2>4. rows'[f] = row /\ \A r \in RowId \ {f} : rows'[r] = rows[r]
    BY <1>1, <2>2
  <2>5. ASSUME NEW r \in RowId PROVE RowSound(rows[r])'
    <3>1. PICK was : was = rows'[r]
      OBVIOUS
    <3>2. was \in Row \cup {NoRow} /\ RowSound(was)
      BY <1>1, <2>3, <2>4, <3>1 DEF Inv, RowSound
    <3>3. RowSound(was)'
      BY <1>1, <3>2, RowKept
    <3>4. QED
      BY <3>1, <3>3 DEF RowSound
  <2>6. OneRowPerItem'
    <3>1. ASSUME NEW r \in RowId, r # f, rows[r] # NoRow
          PROVE  ~(rows[r].user = u /\ rows[r].item = i)
      BY <1>3, <3>1 DEF Imported
    <3>2. QED
      BY <2>3, <2>4, <3>1 DEF Inv, OneRowPerItem
  <2>7. QED
    BY <1>1, <2>2, <2>3, <2>5, <2>6
<1>4. QED
  BY <1>2, <1>3

LEMMA ImportItemInv ==
    ASSUME Inv, NEW t \in Thread, ImportItem(t)
    PROVE  Inv'
<1>1. PICK m : m = thr[t]
  OBVIOUS
<1>2. PICK i \in m.items :
          /\ CreateWithExternalID(m.user, i, m.currency)
          /\ Goto(t, [m EXCEPT !.items = @ \ {i}])
  BY <1>1 DEF ImportItem
<1>3. /\ m \in Local /\ m.pc = "import" /\ m.user \in User /\ m.items \subseteq Item
      /\ LocalSound(m)
  BY <1>1, LocalFields DEF ImportItem, Inv, TypeOK
<1>4. /\ Consented(m.user, i)
      /\ m.currency \in {Unknown, CurrencyOf[AccountOf[i]]}
  BY <1>2, <1>3 DEF LocalSound
<1>5. PICK u, currency : u = m.user /\ u \in User /\ currency = m.currency
  BY <1>3
<1>6. UNCHANGED <<conn, hook, booked, posts, faults, maker, given, picked>>
  BY DEF ImportItem, bank
<1>7. /\ rows' \in [RowId -> Row \cup {NoRow}]
      /\ \A r \in RowId : RowSound(rows[r])'
      /\ OneRowPerItem'
  BY <1>2, <1>3, <1>4, <1>5, <1>6, CreateInv
<1>8. PICK l : l = [m EXCEPT !.items = @ \ {i}]
  OBVIOUS
<1>9. /\ l.pc = "import" /\ l.user = m.user /\ l.items = m.items \ {i}
      /\ l.currency = m.currency /\ l \in Local
  BY <1>3, <1>8, LocalFields DEF Local
<1>10. LocalSound(l)
  BY <1>3, <1>9 DEF LocalSound
<1>11. Later /\ LocalSound(l)'
  BY <1>6, <1>9, <1>10, QuietLater, LocalKept DEF Inv
<1>12. thr' = [thr EXCEPT ![t] = l]
  BY <1>2, <1>8 DEF Goto
<1>13. TypeOK'
  BY <1>6, <1>7, <1>9, <1>12 DEF Inv, TypeOK
<1>14. QED
  BY <1>6, <1>7, <1>11, <1>12, <1>13, ConnsKept, LocalsFrom, HooksKept, PostsKept
     DEF Inv

LEMMA TouchSyncInv ==
    ASSUME Inv, NEW t \in Thread, TouchSync(t)
    PROVE  Inv'
<1>1. PICK u \in User : u = thr[t].user
  BY LocalFields DEF TouchSync, Inv, TypeOK
<1>2. /\ thr' = [thr EXCEPT ![t] = Idle] /\ posts' \subseteq posts
      /\ UNCHANGED <<rows, hook, booked, faults, maker, given, picked>>
  BY DEF TouchSync, Answer, Return
<1>3. Later /\ LocalSound(Idle)'
  BY <1>2, QuietLater DEF LocalSound, Idle
<1>4. (\A v \in User : ConnSound(v, conn[v])') /\ conn' \in [User -> Connection \cup {NoConn}]
  <2>1. CASE ~Connected(u)
    BY <1>1, <1>3, <2>1, ConnsKept DEF TouchSync, Inv, TypeOK
  <2>2. CASE Connected(u)
    <3>1. conn[u] \in Connection /\ ConnSound(u, conn[u]) /\ conn[u] # NoConn
      BY <2>2 DEF Connected, Inv, TypeOK
    <3>2. PICK c : c = [conn[u] EXCEPT !.synced = TRUE]
      OBVIOUS
    <3>3. /\ c \in Connection /\ c.secret = conn[u].secret /\ c.token = conn[u].token
          /\ c.track = conn[u].track
      BY <3>1, <3>2 DEF Connection
    <3>4. conn' = [conn EXCEPT ![u] = c]
      BY <1>1, <2>2, <3>2 DEF TouchSync, Inv, TypeOK
    <3>5. ConnSound(u, c)'
      BY <1>2, <3>1, <3>3 DEF ConnSound, TrackSound, Tracked
    <3>6. QED
      BY <1>3, <3>3, <3>4, <3>5, ConnsFrom DEF Inv, TypeOK
  <2>3. QED
    BY <2>1, <2>2
<1>5. TypeOK'
  BY <1>2, <1>4, NoneIsNothing DEF Inv, TypeOK
<1>6. QED
  BY <1>2, <1>3, <1>4, <1>5, LocalsFrom, HooksKept, PostsKept, RowsKept DEF Inv

\* A goroutine gives up, and answers a post or leaves it.
LEMMA FailInv ==
    ASSUME Inv, NEW t \in Thread, UpsertOfNull(t) \/ DbFails(t) \/ Lost(t)
    PROVE  Inv'
<1>1. /\ thr' = [thr EXCEPT ![t] = Idle] /\ posts' \subseteq posts /\ faults' \in Nat
      /\ UNCHANGED <<conn, rows, hook, booked, maker, given, picked>>
  BY DEF UpsertOfNull, DbFails, Lost, Fault, Answer, Return, bank, Inv, TypeOK
<1>2. QED
  BY <1>1, IdleSound, MoveInv

\* The user's own changes never add a row, nor change whose it is.
LEMMA OwnChangeInv ==
    ASSUME Inv, NEW r \in RowId, Update(r) \/ Delete(r)
    PROVE  Inv'
<1>1. /\ rows \in [RowId -> Row \cup {NoRow}] /\ rows[r] \in Row /\ RowSound(rows[r])
      /\ rows[r] # NoRow
  BY DEF Update, Delete, Inv, TypeOK
<1>2. PICK row : row = [rows[r] EXCEPT !.currency = Edited]
  OBVIOUS
<1>3. /\ row \in Row /\ row.user = rows[r].user /\ row.item = rows[r].item
      /\ row.currency = Edited
  BY <1>1, <1>2 DEF Row
<1>4. /\ rows'[r] \in {row, NoRow} /\ rows' \in [RowId -> Row \cup {NoRow}]
      /\ \A q \in RowId \ {r} : rows'[q] = rows[q]
  BY <1>1, <1>2, <1>3 DEF Update, Delete
<1>5. UNCHANGED <<conn, thr, hook, booked, posts, faults, maker, given, picked>>
  BY DEF Update, Delete, bank
<1>6. Later
  BY <1>5, QuietLater
<1>7. ASSUME NEW q \in RowId PROVE RowSound(rows[q])'
  <2>1. PICK was : was = rows'[q]
    OBVIOUS
  <2>2. was \in Row \cup {NoRow} /\ RowSound(was)
    BY <1>1, <1>3, <1>4, <2>1 DEF Inv, RowSound
  <2>3. RowSound(was)'
    BY <1>6, <2>2, RowKept
  <2>4. QED
    BY <2>1, <2>3 DEF RowSound
<1>8. OneRowPerItem'
  BY <1>1, <1>3, <1>4 DEF Inv, OneRowPerItem
<1>9. TypeOK'
  BY <1>4, <1>5 DEF Inv, TypeOK
<1>10. QED
  BY <1>5, <1>6, <1>7, <1>8, <1>9, ConnsKept, LocalsKept, HooksKept, PostsKept DEF Inv

LEMMA BookInv ==
    ASSUME Inv, NEW i \in Item, Book(i)
    PROVE  Inv'
<1>1. UNCHANGED <<conn, rows, thr, hook, faults, maker, given, picked>>
  BY DEF Book
<1>2. Later
  BY <1>1, QuietLater
<1>3. ASSUME NEW p \in posts'
      PROVE  p \in Post /\ Backed(p.secret, p.item)
  <2>1. CASE p \in posts
    BY <2>1 DEF Inv, TypeOK
  <2>2. CASE p \notin posts
    <3>1. PICK k \in Token : /\ AccountOf[i] \in Covers[k] /\ hook[k] # None
                             /\ p = [secret |-> hook[k], item |-> i]
      BY <1>3, <2>2 DEF Book
    <3>2. hook[k] \in Secret /\ HookSound(k, hook[k])
      BY <3>1 DEF Inv, TypeOK
    <3>3. QED
      BY <3>1, <3>2 DEF Post, HookSound, Backed
  <2>3. QED
    BY <2>1, <2>2
<1>4. \A p \in posts' : Backed(p.secret, p.item)'
  <2> TAKE p \in posts'
  <2>1. PICK s \in Secret, j \in Item : s = p.secret /\ j = p.item
    BY <1>3 DEF Post
  <2>2. TypeOK /\ Backed(s, j)
    BY <1>3, <2>1 DEF Inv
  <2>3. Backed(s, j)'
    BY <1>2, <2>2, BackedKept
  <2>4. QED
    BY <2>1, <2>3
<1>5. TypeOK'
  BY <1>1, <1>3 DEF Book, Inv, TypeOK
<1>6. QED
  BY <1>1, <1>2, <1>4, <1>5, ConnsKept, LocalsKept, HooksKept, RowsKept DEF Inv

LEMMA GiveUpInv ==
    ASSUME Inv, NEW p \in posts, GiveUp(p)
    PROVE  Inv'
<1>1. /\ posts' \subseteq posts
      /\ UNCHANGED <<conn, rows, thr, hook, booked, faults, maker, given, picked>>
  BY DEF GiveUp
<1>2. Later
  BY <1>1, QuietLater
<1>3. TypeOK'
  BY <1>1 DEF Inv, TypeOK
<1>4. QED
  BY <1>1, <1>2, <1>3, ConnsKept, LocalsKept, HooksKept, PostsKept, RowsKept DEF Inv

LEMMA StepInv ==
    ASSUME Inv, NEW t \in Thread, Step(t)
    PROVE  Inv'
<1>1. CASE SetWebHook(t)
  <2>1. PICK m : m = thr[t]
    OBVIOUS
  <2>2. m \in Local /\ LocalSound(m) /\ m.pc = "hook"
    BY <1>1, <2>1 DEF SetWebHook, Inv, TypeOK
  <2>3. PICK l : l = [m EXCEPT !.pc = "save"]
    OBVIOUS
  <2>4. /\ l \in Local /\ l.pc = "save" /\ l.user = m.user /\ l.token = m.token
        /\ l.secret = m.secret /\ l.track = m.track
    BY <2>2, <2>3, LocalFields DEF Local
  <2>5. LocalSound(l)
    BY <2>2, <2>4 DEF LocalSound
  <2>6. faults' \in Nat /\ thr' = [thr EXCEPT ![t] = l]
    BY <1>1, <2>1, <2>3 DEF SetWebHook, Goto, Inv, TypeOK
  <2>7. QED
    BY <1>1, <2>4, <2>5, <2>6, HookInv DEF SetWebHook
<1>2. CASE SetWebHookUnanswered(t)
  <2>1. faults' \in Nat /\ thr' = [thr EXCEPT ![t] = Idle]
    BY <1>2 DEF SetWebHookUnanswered, Fault, Return, Inv, TypeOK
  <2>2. QED
    BY <1>2, <2>1, IdleSound, HookInv DEF SetWebHookUnanswered
<1>3. QED
  BY <1>1, <1>2, UpsertInv, StatementInv, ProcessInv, ImportItemInv, TouchSyncInv,
     FailInv DEF Step

LEMMA NextInv == Inv /\ [Next]_vars => Inv'
<1> SUFFICES ASSUME Inv, [Next]_vars PROVE Inv'
  OBVIOUS
<1>1. CASE UNCHANGED vars
  <2>1. UNCHANGED <<conn, rows, thr, hook, booked, posts, faults, maker, given, picked>>
    BY <1>1 DEF vars, bank
  <2>2. Later /\ TypeOK'
    BY <2>1, QuietLater DEF Inv, TypeOK
  <2>3. QED
    BY <2>1, <2>2, ConnsKept, LocalsKept, HooksKept, PostsKept, RowsKept DEF Inv
<1>2. ASSUME NEW u \in User, Request(u) PROVE Inv'
  BY <1>2, ConnectInv, UpdateAccountsInv, DisconnectInv, SyncNowInv DEF Request
<1>3. QED
  BY <1>1, <1>2, StepInv, WebhookInv, OwnChangeInv, BookInv, GiveUpInv DEF Next

\* Whatever users, the bank and failing handlers do in any order, each
\* connection, goroutine, hook, post and row is backed by what its user gave,
\* picked and asked for (Connect, SyncNow, process, Item).
THEOREM Invariance == Spec => []Inv
BY InvInit, NextInv, PTL DEF Spec

-----------------------------------------------------------------------------
(* Safety.                                                                 *)

\* Every reachable state is type correct.
THEOREM SyncTypeCorrect == Spec => []TypeOK
<1>1. Inv => TypeOK
  BY DEF Inv
<1>2. QED
  BY <1>1, Invariance, PTL

\* Webhook posts, repeated ones, and SyncNow calls of any number never make
\* two rows of one item (CreateWithExternalID).
THEOREM ImportedOnce == Spec => []OneRowPerItem
<1>1. Inv => OneRowPerItem
  BY DEF Inv
<1>2. QED
  BY <1>1, Invariance, PTL

\* A row is of an account its user picked under a token its user gave, with
\* any number of users, reconnects and handlers at work (process, SyncNow).
THEOREM ImportsConsented == Spec => []OnlyConsented
<1>1. Inv => OnlyConsented
  BY DEF Inv, RowSound, OnlyConsented
<1>2. QED
  BY <1>1, Invariance, PTL

\* A row's currency is its own account's or the bank's (CurrencyAt).
THEOREM CurrencyRight == Spec => []CurrencyOfItsAccount
<1>1. Inv => CurrencyOfItsAccount
  BY DEF Inv, RowSound, CurrencyOfItsAccount
<1>2. QED
  BY <1>1, Invariance, PTL

-----------------------------------------------------------------------------
(* Steps.                                                                  *)

LEMMA RowSteps ==
    ASSUME Next, rows' # rows
    PROVE  \/ \E t \in Thread : ImportItem(t)
           \/ \E r \in RowId : Update(r) \/ Delete(r)
<1>1. ASSUME NEW t \in Thread, Step(t) PROVE ImportItem(t)
  BY <1>1 DEF Step, SetWebHook, SetWebHookUnanswered, Upsert, UpsertOfNull, Statement,
     Process, TouchSync, DbFails, Lost, bank
<1>2. ASSUME NEW u \in User, Request(u) PROVE FALSE
  BY <1>2 DEF Request, Connect, UpdateAccounts, Disconnect, SyncNow, bank
<1>3. QED
  BY <1>1, <1>2 DEF Next, Webhook, Book, GiveUp, bank

\* An import changes no row but an empty one.
LEMMA ImportFills ==
    ASSUME Inv, NEW t \in Thread, ImportItem(t), NEW r \in RowId
    PROVE  \/ rows'[r] = rows[r]
           \/ rows[r] = NoRow /\ rows'[r].user = thr[t].user
<1> DEFINE u == thr[t].user
           currency == thr[t].currency
<1>1. PICK i \in thr[t].items : CreateWithExternalID(u, i, currency)
  BY DEF ImportItem
<1>2. CASE Imported(u, i)
  BY <1>1, <1>2 DEF CreateWithExternalID
<1>3. CASE ~Imported(u, i)
  <2>1. PICK f, row : f = FreeRow /\ row = ImportedRow(u, i, currency)
    OBVIOUS
  <2>2. /\ f \in RowId /\ rows[f] = NoRow /\ row.user = u
        /\ rows' = [rows EXCEPT ![f] = row]
    BY <1>1, <1>3, <2>1 DEF CreateWithExternalID, FreeRow, ImportedRow
  <2>3. QED
    BY <1>1, <2>2 DEF Inv, TypeOK
<1>4. QED
  BY <1>2, <1>3

\* A saved edit stays until the user deletes the row: importing the item
\* again, by whichever path, changes nothing (CreateWithExternalID).
THEOREM EditsKept == Spec => EditsSurvive
<1>1. Inv /\ [Next]_vars =>
          [\A r \in RowId : rows[r] # NoRow /\ rows[r].currency = Edited
               => rows'[r] \in {rows[r], NoRow}]_rows
  <2> SUFFICES ASSUME Inv, Next, rows' # rows, NEW r \in RowId, rows[r] # NoRow,
                      rows[r].currency = Edited
               PROVE  rows'[r] \in {rows[r], NoRow}
    BY DEF vars
  <2>1. rows \in [RowId -> Row \cup {NoRow}] /\ rows[r] \in Row
    BY DEF Inv, TypeOK
  <2>2. ASSUME NEW t \in Thread, ImportItem(t) PROVE rows'[r] = rows[r]
    BY <2>2, ImportFills
  <2>3. ASSUME NEW q \in RowId, Update(q) PROVE rows'[r] = rows[r]
    <3>1. CASE q = r
      <4>1. rows'[r] = [rows[r] EXCEPT !.currency = Edited]
        BY <2>1, <2>3, <3>1 DEF Update
      <4>2. QED
        BY <2>1, <4>1 DEF Row
    <3>2. CASE q # r
      BY <2>1, <2>3, <3>2 DEF Update
    <3>3. QED
      BY <3>1, <3>2
  <2>4. ASSUME NEW q \in RowId, Delete(q) PROVE rows'[r] \in {rows[r], NoRow}
    BY <2>1, <2>4 DEF Delete
  <2>5. QED
    BY <2>2, <2>3, <2>4, RowSteps
<1>2. QED
  BY <1>1, Invariance, PTL DEF Spec, EditsSurvive

\* What a goroutine holds brings secret s back to no connection and no row.
Without(l, s) ==
    /\ l.pc \in {"hook", "save"} => l.secret # s
    /\ l.pc = "import" => l.post.secret # s

\* A step that moves one goroutine on, and makes no connection of secret s.
LEMMA MoveRetired ==
    ASSUME Inv, NEW s \in Secret, Retired(s), maker'[s] = maker[s],
           \A u \in User : conn'[u].secret # s,
           \/ thr' = thr
           \/ \E t \in Thread : \E l : thr' = [thr EXCEPT ![t] = l] /\ Without(l, s)
    PROVE  Retired(s)'
<1>1. thr \in [Thread -> Local] /\ \A t \in Thread : Without(thr[t], s)
  BY DEF Inv, TypeOK, Retired, Without
<1>2. \A t \in Thread : Without(thr'[t], s)
  <2>1. CASE thr' = thr
    BY <1>1, <2>1
  <2>2. ASSUME NEW t \in Thread, NEW l, thr' = [thr EXCEPT ![t] = l], Without(l, s)
        PROVE  \A q \in Thread : Without(thr'[q], s)
    <3> TAKE q \in Thread
    <3>1. CASE q = t
      <4>1. thr'[q] = l
        BY <1>1, <2>2, <3>1
      <4>2. QED
        BY <2>2, <4>1
    <3>2. CASE q # t
      <4>1. thr'[q] = thr[q]
        BY <1>1, <2>2, <3>2
      <4>2. QED
        BY <1>1, <4>1
    <3>3. QED
      BY <3>1, <3>2
  <2>3. QED
    BY <2>1, <2>2
<1>3. QED
  BY <1>2 DEF Retired, Without

LEMMA RequestRetired ==
    ASSUME Inv, NEW s \in Secret, Retired(s), NEW u \in User, Request(u)
    PROVE  Retired(s)'
<1>1. /\ maker \in [Secret -> User \cup {None}] /\ maker[s] # None
      /\ conn \in [User -> Connection \cup {NoConn}] /\ s # None
      /\ \A v \in User : conn[v].secret # s
  BY NoneAssumption DEF Inv, TypeOK, Retired
<1>2. ASSUME NEW t \in Thread, NEW k \in Token, NEW track, Connect(t, u, k, track)
      PROVE  Retired(s)'
  <2>1. PICK l : l = [pc |-> "hook", user |-> u, token |-> k, secret |-> FreshSecret,
                      track |-> track]
    OBVIOUS
  <2>2. FreshSecret # s
    BY <1>1, <1>2, FreshIsNew
  <2>3. Without(l, s) /\ thr' = [thr EXCEPT ![t] = l]
    BY <1>2, <2>1, <2>2 DEF Without, Connect, Start
  <2>4. conn' = conn /\ maker'[s] = maker[s]
    BY <1>1, <1>2, <2>2 DEF Connect
  <2>5. QED
    BY <1>1, <2>3, <2>4, MoveRetired
<1>3. ASSUME NEW track, UpdateAccounts(u, track) PROVE Retired(s)'
  <2>1. conn[u] \in Connection
    BY <1>1, <1>3 DEF UpdateAccounts, Connected
  <2>2. conn' = [conn EXCEPT ![u] = [conn[u] EXCEPT !.track = track]]
        /\ thr' = thr /\ maker' = maker
    BY <1>1, <1>3 DEF UpdateAccounts
  <2>3. [conn[u] EXCEPT !.track = track].secret = conn[u].secret
    BY <2>1 DEF Connection
  <2>4. \A v \in User : conn'[v].secret # s
    BY <1>1, <2>2, <2>3
  <2>5. QED
    BY <2>2, <2>4, MoveRetired
<1>4. CASE Disconnect(u)
  <2>1. \A v \in User : conn'[v].secret # s
    BY <1>1, <1>4 DEF Disconnect, NoConn
  <2>2. QED
    BY <1>4, <2>1, MoveRetired DEF Disconnect
<1>5. ASSUME NEW t \in Thread, SyncNow(t, u) PROVE Retired(s)'
  <2>1. PICK l : l.pc = "fetch" /\ thr' = [thr EXCEPT ![t] = l]
    BY <1>5 DEF SyncNow, Start
  <2>2. Without(l, s)
    BY <2>1 DEF Without
  <2>3. conn' = conn /\ maker' = maker
    BY <1>5 DEF SyncNow
  <2>4. QED
    BY <1>1, <2>1, <2>2, <2>3, MoveRetired
<1>6. QED
  BY <1>2, <1>3, <1>4, <1>5 DEF Request

LEMMA StepRetired ==
    ASSUME Inv, NEW s \in Secret, Retired(s), NEW t \in Thread, Step(t)
    PROVE  Retired(s)'
<1>1. /\ conn \in [User -> Connection \cup {NoConn}] /\ s # None
      /\ \A v \in User : conn[v].secret # s
      /\ thr[t] \in Local /\ Without(thr[t], s) /\ maker' = maker
  BY NoneAssumption DEF Inv, TypeOK, Retired, Without, Step, SetWebHook,
     SetWebHookUnanswered, Upsert, UpsertOfNull, Statement, Process, ImportItem,
     TouchSync, DbFails, Lost
<1>2. Without(Idle, s)
  BY DEF Without, Idle
<1>3. CASE conn' = conn /\ thr' = [thr EXCEPT ![t] = Idle]
  BY <1>1, <1>2, <1>3, MoveRetired
<1>4. CASE SetWebHook(t)
  <2>1. PICK l : l = [thr[t] EXCEPT !.pc = "save"]
    OBVIOUS
  <2>2. l.pc = "save" /\ l.secret = thr[t].secret
    BY <1>1, <1>4, <2>1, LocalFields DEF SetWebHook
  <2>3. Without(l, s)
    BY <1>1, <1>4, <2>2 DEF Without, SetWebHook
  <2>4. conn' = conn /\ thr' = [thr EXCEPT ![t] = l]
    BY <1>4, <2>1 DEF SetWebHook, Goto
  <2>5. QED
    BY <1>1, <2>3, <2>4, MoveRetired
<1>5. CASE Upsert(t)
  <2>1. thr[t].secret # s
    BY <1>1, <1>5 DEF Upsert, Without
  <2>2. \A v \in User : conn'[v].secret # s
    BY <1>1, <1>5, <2>1 DEF Upsert
  <2>3. thr' = [thr EXCEPT ![t] = Idle]
    BY <1>5 DEF Upsert, Return
  <2>4. QED
    BY <1>1, <1>2, <2>2, <2>3, MoveRetired
<1>6. CASE Statement(t)
  <2>1. CASE thr' = [thr EXCEPT ![t] = Idle]
    BY <1>3, <1>6, <2>1 DEF Statement
  <2>2. ASSUME NEW l, l.post = NoPost, l.pc = "import", thr' = [thr EXCEPT ![t] = l]
        PROVE  Retired(s)'
    <3>1. Without(l, s)
      BY <1>1, <2>2 DEF Without, NoPost
    <3>2. conn' = conn
      BY <1>6 DEF Statement
    <3>3. QED
      BY <1>1, <2>2, <3>1, <3>2, MoveRetired
  <2>3. QED
    BY <1>6, <2>1, <2>2 DEF Statement, Goto, Return
<1>7. CASE Process(t)
  <2>1. conn' = conn
    BY <1>7 DEF Process
  <2>2. ASSUME NEW u \in User, NEW l, conn[u].secret = thr[t].post.secret,
               l.pc = "import", l.post = thr[t].post, thr' = [thr EXCEPT ![t] = l]
        PROVE  Retired(s)'
    <3>1. Without(l, s)
      BY <1>1, <2>2 DEF Without
    <3>2. QED
      BY <1>1, <2>1, <2>2, <3>1, MoveRetired
  <2>3. CASE Answer(t, thr[t].post)
    BY <1>3, <2>1, <2>3 DEF Answer, Return
  <2>4. QED
    BY <1>7, <2>2, <2>3 DEF Process, Goto
<1>8. CASE ImportItem(t)
  <2>1. PICK l : /\ \E i \in thr[t].items : l = [thr[t] EXCEPT !.items = @ \ {i}]
                 /\ thr' = [thr EXCEPT ![t] = l]
    BY <1>8 DEF ImportItem, Goto
  <2>2. l.pc = "import" /\ l.post = thr[t].post
    BY <1>1, <1>8, <2>1, LocalFields DEF ImportItem
  <2>3. Without(l, s)
    BY <1>1, <1>8, <2>2 DEF Without, ImportItem
  <2>4. conn' = conn
    BY <1>8 DEF ImportItem
  <2>5. QED
    BY <1>1, <2>1, <2>3, <2>4, MoveRetired
<1>9. CASE TouchSync(t)
  <2>1. \A v \in User : conn'[v].secret # s
    <3>1. CASE ~Connected(thr[t].user)
      BY <1>1, <1>9, <3>1 DEF TouchSync
    <3>2. CASE Connected(thr[t].user)
      <4>1. PICK u \in User : u = thr[t].user
        BY <1>1, <1>9, LocalFields DEF TouchSync
      <4>2. conn[u] \in Connection
        BY <1>1, <3>2, <4>1 DEF Connected
      <4>3. conn' = [conn EXCEPT ![u] = [conn[u] EXCEPT !.synced = TRUE]]
        BY <1>1, <1>9, <3>2, <4>1 DEF TouchSync
      <4>4. [conn[u] EXCEPT !.synced = TRUE].secret = conn[u].secret
        BY <4>2 DEF Connection
      <4>5. QED
        BY <1>1, <4>3, <4>4
    <3>3. QED
      BY <3>1, <3>2
  <2>2. thr' = [thr EXCEPT ![t] = Idle]
    BY <1>9 DEF TouchSync, Answer, Return
  <2>3. QED
    BY <1>1, <1>2, <2>1, <2>2, MoveRetired
<1>10. CASE SetWebHookUnanswered(t) \/ UpsertOfNull(t) \/ DbFails(t) \/ Lost(t)
  <2>1. conn' = conn /\ thr' = [thr EXCEPT ![t] = Idle]
    BY <1>10 DEF SetWebHookUnanswered, UpsertOfNull, DbFails, Lost, Answer, Return
  <2>2. QED
    BY <1>3, <2>1
<1>11. QED
  BY <1>4, <1>5, <1>6, <1>7, <1>8, <1>9, <1>10 DEF Step

\* Rows of a user that no connection and no running handler speaks for are
\* none but those he has.
LEMMA StepSevered ==
    ASSUME Inv, Next, NEW u \in User, NEW i \in Item, Severed(u), Imported(u, i)'
    PROVE  Imported(u, i)
<1>1. PICK r \in RowId : rows'[r] # NoRow /\ rows'[r].user = u /\ rows'[r].item = i
  BY DEF Imported
<1>2. rows \in [RowId -> Row \cup {NoRow}]
  BY DEF Inv, TypeOK
<1>3. CASE rows' = rows
  BY <1>1, <1>3 DEF Imported
<1>4. ASSUME NEW t \in Thread, ImportItem(t) PROVE Imported(u, i)
  <2>1. thr[t].user # u
    BY <1>4 DEF ImportItem, Severed
  <2>2. rows'[r] = rows[r]
    BY <1>1, <1>4, <2>1, ImportFills
  <2>3. QED
    BY <1>1, <2>2 DEF Imported
<1>5. ASSUME NEW q \in RowId, Update(q) \/ Delete(q) PROVE Imported(u, i)
  <2>1. CASE q = r
    <3>1. rows[r] \in Row /\ rows[r] # NoRow
      BY <1>2, <1>5, <2>1 DEF Update, Delete
    <3>2. rows'[r] = [rows[r] EXCEPT !.currency = Edited]
      BY <1>1, <1>2, <1>5, <2>1 DEF Update, Delete
    <3>3. rows[r].user = u /\ rows[r].item = i
      BY <1>1, <3>1, <3>2 DEF Row
    <3>4. QED
      BY <3>1, <3>3 DEF Imported
  <2>2. CASE q # r
    BY <1>1, <1>2, <1>5, <2>2 DEF Update, Delete, Imported
  <2>3. QED
    BY <2>1, <2>2
<1>6. QED
  BY <1>3, <1>4, <1>5, RowSteps

\* Once a secret is retired no connection, Connect or webhook call has it
\* again, and a user who disconnected gets no more rows (Disconnect, process).
THEOREM DisconnectFinal == Spec => DisconnectHolds
<1>1. Inv /\ [Next]_vars =>
          [/\ \A s \in Secret : Retired(s) => Retired(s)'
           /\ \A u \in User, i \in Item :
                 Severed(u) /\ Imported(u, i)' => Imported(u, i)]_vars
  <2> SUFFICES ASSUME Inv, Next
               PROVE  /\ \A s \in Secret : Retired(s) => Retired(s)'
                      /\ \A u \in User, i \in Item :
                            Severed(u) /\ Imported(u, i)' => Imported(u, i)
    OBVIOUS
  <2>1. ASSUME NEW s \in Secret, Retired(s) PROVE Retired(s)'
    <3>1. ASSUME UNCHANGED <<conn, maker>>,
                 thr' = thr \/ \E t \in Thread, p \in posts :
                     thr' = [thr EXCEPT ![t] = [pc |-> "lookup", post |-> p]]
          PROVE  Retired(s)'
      <4>1. \A p : Without([pc |-> "lookup", post |-> p], s)
        BY DEF Without
      <4>2. \A u \in User : conn'[u].secret # s
        BY <2>1, <3>1 DEF Retired
      <4>3. QED
        BY <2>1, <3>1, <4>1, <4>2, MoveRetired
    <3>2. ASSUME NEW t \in Thread, NEW p \in posts, Webhook(t, p) PROVE Retired(s)'
      BY <3>1, <3>2 DEF Webhook, Start
    <3>3. ASSUME NEW r \in RowId, Update(r) \/ Delete(r) PROVE Retired(s)'
      BY <3>1, <3>3 DEF Update, Delete
    <3>4. ASSUME NEW i \in Item, Book(i) PROVE Retired(s)'
      BY <3>1, <3>4 DEF Book
    <3>5. ASSUME NEW p \in posts, GiveUp(p) PROVE Retired(s)'
      BY <3>1, <3>5 DEF GiveUp
    <3>6. QED
      BY <2>1, <3>2, <3>3, <3>4, <3>5, StepRetired, RequestRetired DEF Next
  <2>2. QED
    BY <2>1, StepSevered
<1>2. QED
  BY <1>1, Invariance, PTL DEF Spec, DisconnectHolds

=============================================================================
