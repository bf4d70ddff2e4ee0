---------------------------- MODULE MonobankSync ----------------------------
(***************************************************************************)
(* Bank sync: internal/service/monobank (Connect, UpdateAccounts, SyncNow, *)
(* Disconnect), internal/webhook/monobank.go, the importer they share, the *)
(* monobank_connections rows, the imported transactions, and Monobank as   *)
(* far as that code relies on it.                                          *)
(*                                                                         *)
(* Items reach the transactions table along two paths that do not know of  *)
(* each other, a post of the bank and a statement the user asks for, while *)
(* the connection they read may be replaced or deleted behind them.        *)
(***************************************************************************)
EXTENDS Naturals, Sequences

CONSTANTS
    User,
    Thread,      \* goroutines that can be serving a request at one time
    Token,       \* personal tokens of the bank's clients
    Secret,      \* webhook secrets there can be: bounds the Connects
    Account,     \* cards and jars
    Item,        \* statement items with an amount other than 0
    RowId,       \* ids of rows of the transactions table
    Currency,
    Covers,      \* Covers[k]: the accounts under token k
    AccountOf,   \* AccountOf[i]: the account item i is booked on
    CurrencyOf,  \* CurrencyOf[a]: what the account picker says of a
    Reported,    \* Reported[i]: the currencyCode the bank puts on item i
    None,        \* no connection, secret, row, post or list
    Unknown,     \* the empty accountCurrency
    Edited,      \* in place of the currency of a row the user has saved
    Pick,        \* bound: the lists of accounts users pick
    MaxFaults    \* bound: statements, bank calls and answers that fail

ASSUME MapsAssumption ==
    /\ Covers \in [Token -> SUBSET Account]
    /\ AccountOf \in [Item -> Account]
    /\ CurrencyOf \in [Account -> Currency]
    /\ Reported \in [Item -> Currency]
ASSUME PickAssumption ==
    Pick \subseteq Seq(Account) \ {<<>>}
ASSUME NoneAssumption ==
    /\ None \notin User \cup Secret \cup Seq(Currency)
    /\ Unknown \notin Currency /\ Edited \notin Currency
    /\ MaxFaults \in Nat

VARIABLES
    conn,      \* the monobank_connections table: conn[u]
    rows,      \* imported rows of the transactions table: rows[r]
    thr,       \* thr[t]: where goroutine t is, with its locals
    hook,      \* bank: hook[k], the secret in the URL that gets token k's items
    booked,    \* bank: items that happened
    posts,     \* bank: webhook posts sent and not yet answered with 200
    faults,    \* failures so far
    maker,     \* maker[s]: who asked for the Connect that made secret s
    \* For the properties only:
    given,     \* given[u]: tokens u ever gave to Connect
    picked     \* picked[u]: accounts u ever picked for tracking

bank == <<hook, booked, posts>>
vars == <<conn, rows, thr, bank, faults, maker, given, picked>>

Idle    == [pc |-> "idle"]
NoConn  == [secret |-> None]
NoRow   == [user |-> None]
NoPost  == [secret |-> None]

\* currencies is parallel to accounts, or empty in a row older than the
\* column (migration 00019); synced stands for last_synced_at, of which only
\* NULL or not is ever told apart.
Tracking   == [accounts : Pick, currencies : Seq(Currency)]
Connection == [token : Token, secret : Secret, track : Tracking, synced : BOOLEAN]
Post       == [secret : Secret, item : Item]

\* What a request sends: a nil slice, which the driver writes as NULL, is None.
Sent == [accounts : Pick, currencies : Seq(Currency) \cup {None}]

\* The currency an import gave the row; Edited once the user has saved the
\* row, with whatever currency, category and amount.
Row == [user : User, item : Item, currency : Currency \cup {Edited}]

Local ==
    {Idle}
    \cup [pc : {"hook", "save"}, user : User, token : Token, secret : Secret,
          track : Sent]
    \cup [pc : {"fetch"}, user : User, token : Token, account : Account,
          currency : Currency \cup {Unknown}]
    \cup [pc : {"lookup"}, post : Post]
    \cup [pc : {"import"}, user : User, items : SUBSET Item,
          currency : Currency \cup {Unknown}, post : Post \cup {NoPost}]

TypeOK ==
    /\ conn \in [User -> Connection \cup {NoConn}]
    /\ rows \in [RowId -> Row \cup {NoRow}]
    /\ thr \in [Thread -> Local]
    /\ hook \in [Token -> Secret \cup {None}]
    /\ booked \subseteq Item
    /\ posts \subseteq Post
    /\ faults \in Nat
    /\ maker \in [Secret -> User \cup {None}]
    /\ given \in [User -> SUBSET Token]
    /\ picked \in [User -> SUBSET Account]

-----------------------------------------------------------------------------
(* Connections, rows and goroutine steps.                                  *)

Connected(u) == conn[u] # NoConn

Tracked(track) == {track.accounts[n] : n \in DOMAIN track.accounts}

\* Users may have connected before the column account_currencies was there.
Init ==
    /\ conn \in [User -> {NoConn} \cup
           [token : Token, secret : Secret,
            track : [accounts : Pick, currencies : {<<>>}], synced : {FALSE}]]
    /\ \A u, v \in User : Connected(u) /\ conn[u].secret = conn[v].secret => u = v
    /\ rows = [r \in RowId |-> NoRow]
    /\ thr = [t \in Thread |-> Idle]
    /\ hook = [k \in Token |->
           LET Old == {u \in User : Connected(u) /\ conn[u].token = k}
           IN  IF Old = {} THEN None ELSE conn[CHOOSE u \in Old : TRUE].secret]
    /\ booked = {} /\ posts = {} /\ faults = 0
    /\ maker = [s \in Secret |->
           LET Old == {u \in User : conn[u].secret = s}
           IN  IF Old = {} THEN None ELSE CHOOSE u \in Old : TRUE]
    /\ given = [u \in User |-> IF Connected(u) THEN {conn[u].token} ELSE {}]
    /\ picked = [u \in User |-> IF Connected(u) THEN Tracked(conn[u].track) ELSE {}]

\* Slip: the parallel lists passed in the wrong order.
TrackOfSwapped(accounts) ==
    [accounts   |-> [n \in DOMAIN accounts |-> CurrencyOf[accounts[n]]],
     currencies |-> accounts]

\* What the web client sends along with the accounts picked.
TrackOf(accounts) ==
    [accounts   |-> accounts,
     currencies |-> [n \in DOMAIN accounts |-> CurrencyOf[accounts[n]]]]

\* ConnectMonobank of the gRPC API: nil in place of the currencies.
TrackOfIos(accounts) == [accounts |-> accounts, currencies |-> None]

\* Slip: the currency of the first account, whichever the item is on.
CurrencyAtFirst(track, a) ==
    IF track.currencies = <<>> THEN Unknown ELSE track.currencies[1]

\* accountCurrency of tracked account a; a picker lists an account once.
CurrencyAt(track, a) ==
    LET n == CHOOSE n \in DOMAIN track.accounts : track.accounts[n] = a
    IN  IF n \in DOMAIN track.currencies THEN track.currencies[n] ELSE Unknown

\* randomSecret: one never used before.
FreshSecret == CHOOSE s \in Secret : maker[s] = None

Imported(u, i) == \E r \in RowId : rows[r] # NoRow /\ rows[r].user = u /\ rows[r].item = i

Start(t, local) == thr[t] = Idle /\ thr' = [thr EXCEPT ![t] = local]
Goto(t, local)  == thr' = [thr EXCEPT ![t] = local]
Return(t)       == thr' = [thr EXCEPT ![t] = Idle]
Fault           == faults < MaxFaults /\ faults' = faults + 1

-----------------------------------------------------------------------------
(* Connect, UpdateAccounts, Disconnect.                                    *)

\* A token and a nonempty list of accounts.
Connect(t, u, k, track) ==
    /\ \E s \in Secret : maker[s] = None
    /\ maker' = [maker EXCEPT ![FreshSecret] = u]
    /\ Start(t, [pc |-> "hook", user |-> u, token |-> k, secret |-> FreshSecret,
                 track |-> track])
    /\ given' = [given EXCEPT ![u] = @ \cup {k}]
    /\ UNCHANGED <<conn, rows, bank, faults, picked>>

\* SetWebHook: the bank takes the URL, in place of any it had for the token.
SetWebHook(t) ==
    /\ thr[t].pc = "hook"
    /\ hook' = [hook EXCEPT ![thr[t].token] = thr[t].secret]
    /\ Goto(t, [thr[t] EXCEPT !.pc = "save"])
    /\ UNCHANGED <<conn, rows, booked, posts, faults, maker, given, picked>>

\* The bank took the URL, its answer was lost, and Connect returns an error.
SetWebHookUnanswered(t) ==
    /\ thr[t].pc = "hook"
    /\ Fault
    /\ hook' = [hook EXCEPT ![thr[t].token] = thr[t].secret]
    /\ Return(t)
    /\ UNCHANGED <<conn, rows, booked, posts, maker, given, picked>>

\* Upsert: every column of the row is replaced.
Upsert(t) ==
    /\ thr[t].pc = "save" /\ thr[t].track.currencies # None
    /\ conn' = [conn EXCEPT ![thr[t].user] =
           [token |-> thr[t].token, secret |-> thr[t].secret,
            track |-> thr[t].track, synced |-> FALSE]]
    /\ picked' = [picked EXCEPT ![thr[t].user] = @ \cup Tracked(thr[t].track)]
    /\ Return(t)
    /\ UNCHANGED <<rows, bank, faults, maker, given>>

\* account_currencies is NOT NULL, so the INSERT fails, and Connect with it.
UpsertOfNull(t) ==
    /\ thr[t].pc = "save" /\ thr[t].track.currencies = None
    /\ Return(t)
    /\ UNCHANGED <<conn, rows, bank, faults, maker, given, picked>>

\* In the web client only.
UpdateAccounts(u, track) ==
    /\ Connected(u)
    /\ conn' = [conn EXCEPT ![u].track = track]
    /\ picked' = [picked EXCEPT ![u] = @ \cup Tracked(track)]
    /\ UNCHANGED <<rows, thr, bank, faults, maker, given>>

\* The row goes; the bank is not told, and goes on posting.
Disconnect(u) ==
    /\ Connected(u)
    /\ conn' = [conn EXCEPT ![u] = NoConn]
    /\ UNCHANGED <<rows, thr, bank, faults, maker, given, picked>>

-----------------------------------------------------------------------------
(* The two paths, up to the items to import.                               *)

\* Slip: the last account.
SyncNowLast(t, u) ==
    /\ Connected(u)
    /\ LET track == conn[u].track
           a     == track.accounts[Len(track.accounts)]
       IN  Start(t, [pc |-> "fetch", user |-> u, token |-> conn[u].token,
                     account |-> a, currency |-> CurrencyAt(track, a)])
    /\ UNCHANGED <<conn, rows, bank, faults, maker, given, picked>>

\* SyncNow: of several tracked accounts only the first.
SyncNow(t, u) ==
    /\ Connected(u)
    /\ LET track == conn[u].track
       IN  Start(t, [pc |-> "fetch", user |-> u, token |-> conn[u].token,
                     account |-> track.accounts[1],
                     currency |-> CurrencyAt(track, track.accounts[1])])
    /\ UNCHANGED <<conn, rows, bank, faults, maker, given, picked>>

\* Statement: the bank refuses an account the token does not cover.
Statement(t) ==
    /\ thr[t].pc = "fetch"
    /\ IF thr[t].account \in Covers[thr[t].token]
       THEN Goto(t, [pc |-> "import", user |-> thr[t].user,
                     items |-> {i \in booked : AccountOf[i] = thr[t].account},
                     currency |-> thr[t].currency, post |-> NoPost])
       ELSE Return(t)
    /\ UNCHANGED <<conn, rows, bank, faults, maker, given, picked>>

\* ServeHTTP: the bank posts again what was not answered, so a post may be
\* in two goroutines at a time.
Webhook(t, p) ==
    /\ p \in posts
    /\ Start(t, [pc |-> "lookup", post |-> p])
    /\ UNCHANGED <<conn, rows, bank, faults, maker, given, picked>>

\* The handler ends, and the bank sees a 200 if it was a post.
Answer(t, post) ==
    /\ Return(t)
    /\ posts' = posts \ {post}

\* Slip: every account of the token counts.
ProcessUntracked(t) ==
    /\ thr[t].pc = "lookup"
    /\ LET p == thr[t].post
       IN  \/ \E u \in User :
                /\ Connected(u) /\ conn[u].secret = p.secret
                /\ Goto(t, [pc |-> "import", user |-> u, items |-> {p.item},
                            currency |-> Unknown, post |-> p])
                /\ UNCHANGED posts
           \/ /\ \A u \in User : conn[u].secret # p.secret
              /\ Answer(t, p)
    /\ UNCHANGED <<conn, rows, hook, booked, faults, maker, given, picked>>

\* Slip: a remembered secret is not forgotten with its connection.
ProcessRemembered(t) ==
    /\ thr[t].pc = "lookup"
    /\ LET p == thr[t].post
           u == maker[p.secret]
       IN  IF AccountOf[p.item] \in picked[u]
           THEN /\ Goto(t, [pc |-> "import", user |-> u, items |-> {p.item},
                            currency |-> Unknown, post |-> p])
                /\ UNCHANGED posts
           ELSE Answer(t, p)
    /\ UNCHANGED <<conn, rows, hook, booked, faults, maker, given, picked>>

\* process: whose secret it is, and whether the account is tracked.
Process(t) ==
    /\ thr[t].pc = "lookup"
    /\ LET p == thr[t].post
           a == AccountOf[p.item]
       IN  \/ \E u \in User :
                /\ Connected(u) /\ conn[u].secret = p.secret
                /\ a \in Tracked(conn[u].track)
                /\ Goto(t, [pc |-> "import", user |-> u, items |-> {p.item},
                            currency |-> CurrencyAt(conn[u].track, a), post |-> p])
                /\ UNCHANGED posts
           \/ /\ \A u \in User : Connected(u) /\ conn[u].secret = p.secret
                                    => a \notin Tracked(conn[u].track)
              /\ Answer(t, p)
    /\ UNCHANGED <<conn, rows, hook, booked, faults, maker, given, picked>>

-----------------------------------------------------------------------------
(* The importer.                                                           *)

\* A currency the user confirmed for the account beats the bank's.
ImportedRow(u, i, currency) ==
    [user |-> u, item |-> i,
     currency |-> IF currency = Unknown THEN Reported[i] ELSE currency]

\* gen_random_uuid: an id no row has; which one makes no difference.
FreeRow == CHOOSE r \in RowId : rows[r] = NoRow

\* Slip: a plain INSERT.
CreateAnyway(u, i, currency) ==
    /\ \E r \in RowId : rows[r] = NoRow
    /\ rows' = [rows EXCEPT ![FreeRow] = ImportedRow(u, i, currency)]

\* Slip: ON CONFLICT ... DO UPDATE.
CreateOrUpdate(u, i, currency) ==
    IF Imported(u, i)
    THEN rows' = [r \in RowId |->
                     IF rows[r] # NoRow /\ rows[r].user = u /\ rows[r].item = i
                     THEN ImportedRow(u, i, currency) ELSE rows[r]]
    ELSE /\ \E r \in RowId : rows[r] = NoRow
         /\ rows' = [rows EXCEPT ![FreeRow] = ImportedRow(u, i, currency)]

\* INSERT ... ON CONFLICT (user_id, external_id) DO NOTHING.
CreateWithExternalID(u, i, currency) ==
    IF Imported(u, i) THEN UNCHANGED rows
    ELSE /\ \E r \in RowId : rows[r] = NoRow
         /\ rows' = [rows EXCEPT ![FreeRow] = ImportedRow(u, i, currency)]

ImportItem(t) ==
    /\ thr[t].pc = "import"
    /\ \E i \in thr[t].items :
        /\ CreateWithExternalID(thr[t].user, i, thr[t].currency)
        /\ Goto(t, [thr[t] EXCEPT !.items = @ \ {i}])
    /\ UNCHANGED <<conn, bank, faults, maker, given, picked>>

\* By user id: the connection of the moment, if there is one.
TouchSync(t) ==
    /\ thr[t].pc = "import" /\ thr[t].items = {}
    /\ conn' = IF Connected(thr[t].user)
               THEN [conn EXCEPT ![thr[t].user].synced = TRUE] ELSE conn
    /\ Answer(t, thr[t].post)
    /\ UNCHANGED <<rows, hook, booked, faults, maker, given, picked>>

-----------------------------------------------------------------------------
(* Failures.                                                               *)

\* A statement fails. The webhook answers 200 all the same; the others
\* return an error, and keep what they have written so far.
DbFails(t) ==
    /\ thr[t].pc \in {"save", "lookup", "import"}
    /\ Fault
    /\ Answer(t, IF thr[t].pc = "save" THEN NoPost ELSE thr[t].post)
    /\ UNCHANGED <<conn, rows, hook, booked, maker, given, picked>>

\* The bank refuses or cannot be reached, a rate limit included; or the
\* server restarts, or an answer to a post is lost: the post stays.
Lost(t) ==
    /\ thr[t].pc # "idle"
    /\ Fault
    /\ Return(t)
    /\ UNCHANGED <<conn, rows, bank, maker, given, picked>>

-----------------------------------------------------------------------------
(* The user's own changes to imported rows (service/transaction).          *)

Update(r) ==
    /\ rows[r] # NoRow
    /\ rows' = [rows EXCEPT ![r].currency = Edited]
    /\ UNCHANGED <<conn, thr, bank, faults, maker, given, picked>>

Delete(r) ==
    /\ rows[r] # NoRow
    /\ rows' = [rows EXCEPT ![r] = NoRow]
    /\ UNCHANGED <<conn, thr, bank, faults, maker, given, picked>>

-----------------------------------------------------------------------------
(* The bank.                                                               *)

\* An item is booked, and posted to the URL of every token that covers it.
Book(i) ==
    /\ i \notin booked
    /\ booked' = booked \cup {i}
    /\ posts' = posts \cup {[secret |-> s, item |-> i] : s \in
           {hook[k] : k \in {l \in Token : AccountOf[i] \in Covers[l]}} \ {None}}
    /\ UNCHANGED <<conn, rows, thr, hook, faults, maker, given, picked>>

\* The server could not be reached, and the bank gives up on a post.
GiveUp(p) ==
    /\ p \in posts
    /\ posts' = posts \ {p}
    /\ UNCHANGED <<conn, rows, thr, hook, booked, faults, maker, given, picked>>

-----------------------------------------------------------------------------

\* The next step of a goroutine that is serving a request.
Step(t) ==
    \/ SetWebHook(t) \/ SetWebHookUnanswered(t)
    \/ Upsert(t) \/ UpsertOfNull(t)
    \/ Statement(t) \/ Process(t)
    \/ ImportItem(t) \/ TouchSync(t)
    \/ DbFails(t) \/ Lost(t)

Request(u) ==
    \/ \E t \in Thread, k \in Token, accounts \in Pick :
          Connect(t, u, k, TrackOf(accounts)) \/ Connect(t, u, k, TrackOfIos(accounts))
    \/ \E accounts \in Pick : UpdateAccounts(u, TrackOf(accounts))
    \/ Disconnect(u)
    \/ \E t \in Thread : SyncNow(t, u)

Next ==
    \/ \E t \in Thread : Step(t) \/ \E p \in posts : Webhook(t, p)
    \/ \E u \in User : Request(u)
    \/ \E r \in RowId : Update(r) \/ Delete(r)
    \/ \E i \in Item : Book(i)
    \/ \E p \in posts : GiveUp(p)

Spec == Init /\ [][Next]_vars

\* The server runs every goroutine on, and each user clicks "sync now" again
\* and again; the bank and the user's other requests owe nothing.
FairSpec ==
    /\ Spec
    /\ \A t \in Thread : WF_vars(Step(t))
    /\ \A u \in User : SF_vars(\E t \in Thread : SyncNow(t, u))

-----------------------------------------------------------------------------
(* Safety.                                                                 *)

\* One item is one row of a user, however often and by whichever path it
\* arrives ("clicking it repeatedly never creates duplicates", SyncNow).
OneRowPerItem ==
    \A r, q \in RowId :
        /\ rows[r] # NoRow /\ rows[q] # NoRow
        /\ rows[r].user = rows[q].user /\ rows[r].item = rows[q].item
        => r = q

\* Item i is on an account u picked, under a token u gave.
Consented(u, i) ==
    /\ AccountOf[i] \in picked[u]
    /\ \E k \in given[u] : AccountOf[i] \in Covers[k]

\* Nobody ever gets another one's statement, nor that of a card he did not
\* pick: through reconnects, shared tokens, posts to secrets long replaced
\* and handlers that read a connection before it changed.
OnlyConsented == \A r \in RowId : rows[r] # NoRow => Consented(rows[r].user, rows[r].item)

\* A row's currency is the one confirmed for its own account, or the bank's,
\* until the user edits it (the parallel arrays of the connection).
CurrencyOfItsAccount ==
    \A r \in RowId : rows[r] # NoRow => rows[r].currency \in
        {CurrencyOf[AccountOf[rows[r].item]], Reported[rows[r].item], Edited}

\* What the user saved is not taken back by importing the item again.
EditsSurvive ==
    [][\A r \in RowId : rows[r] # NoRow /\ rows[r].currency = Edited
           => rows'[r] \in {rows[r], NoRow}]_rows

\* A secret no connection has, no Connect is about to store, and no webhook
\* call has found the connection of.
Retired(s) ==
    /\ maker[s] # None
    /\ \A u \in User : conn[u].secret # s
    /\ \A t \in Thread :
          /\ thr[t].pc \in {"hook", "save"} => thr[t].secret # s
          /\ thr[t].pc = "import" => thr[t].post.secret # s

\* User u is not connected, and no handler is at work that read a connection.
Severed(u) ==
    /\ ~Connected(u)
    /\ \A t \in Thread : thr[t].pc \in {"fetch", "import"} => thr[t].user # u

\* A disconnect or a reconnect is final: an old secret never counts again,
\* and an unconnected user gets no rows whatever the bank still posts.
DisconnectHolds ==
    [][/\ \A s \in Secret : Retired(s) => Retired(s)'
       /\ \A u \in User, i \in Item : Severed(u) /\ Imported(u, i)' => Imported(u, i)]_vars

\* A Connect whose webhook the bank took is stored, if nothing fails
\* ("nil here means those heuristics simply never fire for iOS-connected
\* accounts, the safe default", ConnectMonobank).
ConnectStores ==
    [][\A t \in Thread : thr[t].pc = "save" /\ thr'[t] = Idle /\ faults' = faults
           => conn'[thr[t].user].secret = thr[t].secret]_thr

-----------------------------------------------------------------------------
(* Liveness.                                                               *)

\* Item i has happened at the bank of connected user u, and u has no row of it.
Missing(u, i) ==
    /\ Connected(u)
    /\ i \in booked /\ AccountOf[i] \in Covers[conn[u].token]
    /\ ~Imported(u, i)

\* What the webhook missed on the first account, a lost post, a restart or a
\* hook that another Connect has taken over, "sync now" brings in.
FirstAccountRecovers ==
    \A u \in User, i \in Item :
        LET Due == Missing(u, i) /\ AccountOf[i] = conn[u].track.accounts[1]
        IN  Due ~> ~Due

=============================================================================
