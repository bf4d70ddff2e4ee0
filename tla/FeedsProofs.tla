---------------------------- MODULE FeedsProofs ----------------------------
(***************************************************************************)
(* Proofs about four of the parts in Feeds, for any categories, goroutines,*)
(* keys, users, days and failures: the verifiers' keys, the insights, the  *)
(* rates and the translations. Where another part moves, theirs stand      *)
(* still; those about the figures, the fifth part, are in FiguresProofs.   *)
(***************************************************************************)
EXTENDS Feeds, FiguresProofs

-----------------------------------------------------------------------------
(* KeyCache: a key in the map was live when the map was fetched, so it has *)
(* been retired for no longer than the map is old.                         *)

KeyLocal == {K!Idle} \cup [pc : {"lock", "look", "fetch", "accepted", "refused"},
                           kid : Key, good : BOOLEAN]

KeyType ==
    /\ live \subseteq Key
    /\ since \in [Key -> 0..Hour]
    /\ keys \subseteq Key
    /\ age \in 0..Hour
    /\ signIns \in [Entrants -> KeyLocal]

KeyInv ==
    /\ KeyType
    /\ \A k \in live : since[k] = 0
    /\ \A k \in keys : since[k] <= age

LEMMA KeyInvInit == K!Init => KeyInv
BY TicksAssumption DEF K!Init, K!Idle, KeyInv, KeyType, KeyLocal

\* A goroutine that is on its way has a key.
LEMMA KeyLocalFields ==
    ASSUME KeyType, NEW g \in Entrants, signIns[g] # K!Idle
    PROVE  signIns[g] \in [pc : {"lock", "look", "fetch", "accepted", "refused"},
                      kid : Key, good : BOOLEAN]
BY DEF KeyType, KeyLocal

LEMMA KeyInvStep == ASSUME KeyInv, K!Next PROVE KeyInv'
<1> USE TicksAssumption DEF KeyInv, KeyType
\* The steps that leave the map and the provider alone.
<1>1. ASSUME signIns' \in [Entrants -> KeyLocal], UNCHANGED <<live, since, keys, age>>
      PROVE  KeyInv'
  BY <1>1
<1>2. ASSUME NEW g \in Entrants, signIns[g].pc # "idle",
             NEW pc \in {"lock", "look", "fetch", "accepted", "refused"},
             K!Goto(g, [signIns[g] EXCEPT !.pc = pc])
      PROVE  signIns' \in [Entrants -> KeyLocal]
  <2>1. signIns[g] # K!Idle
    BY <1>2 DEF K!Idle
  <2>2. [signIns[g] EXCEPT !.pc = pc] \in KeyLocal
    BY <1>2, <2>1, KeyLocalFields DEF KeyLocal
  <2>3. QED
    BY <1>2, <2>2 DEF K!Goto
<1>3. ASSUME NEW g \in Entrants PROVE K!Claims(g) \in {"accepted", "refused"}
  BY DEF K!Claims
<1>4. ASSUME NEW g \in Entrants, NEW token \in K!Token, K!Verify(g, token) PROVE KeyInv'
  <2>1. [pc |-> "lock", kid |-> token.kid,
         good |-> token.sound /\ K!isValidIssuer(token.iss)] \in KeyLocal
    BY DEF K!Token, KeyLocal
  <2>2. signIns' \in [Entrants -> KeyLocal]
    BY <1>4, <2>1 DEF K!Verify, K!Goto
  <2>3. QED
    BY <1>1, <1>4, <2>2 DEF K!Verify, K!Provider
<1>5. ASSUME NEW g \in Entrants, K!Lock(g) PROVE KeyInv'
  <2>1. signIns' \in [Entrants -> KeyLocal]
    BY <1>2, <1>5 DEF K!Lock
  <2>2. QED
    BY <1>1, <1>5, <2>1 DEF K!Lock, K!Provider
<1>6. ASSUME NEW g \in Entrants, K!publicKey(g) PROVE KeyInv'
  <2>1. signIns' \in [Entrants -> KeyLocal]
    BY <1>2, <1>3, <1>6 DEF K!publicKey
  <2>2. QED
    BY <1>1, <1>6, <2>1 DEF K!publicKey, K!Provider
<1>7. ASSUME NEW g \in Entrants, K!refreshKeysLocked(g) PROVE KeyInv'
  <2>1. signIns' \in [Entrants -> KeyLocal]
    <3>1. PICK pc \in {"accepted", "refused"} : K!Goto(g, [signIns[g] EXCEPT !.pc = pc])
      BY <1>3, <1>7 DEF K!refreshKeysLocked
    <3>2. QED
      BY <1>2, <1>7, <3>1 DEF K!refreshKeysLocked
  <2>2. keys' = live /\ age' = 0 /\ live' = live /\ since' = since
    BY <1>7 DEF K!refreshKeysLocked, K!Provider
  <2>3. QED
    BY <2>1, <2>2
<1>8. ASSUME NEW g \in Entrants, K!EmptyAnswer(g) PROVE KeyInv'
  <2>1. signIns' \in [Entrants -> KeyLocal]
    BY <1>2, <1>8 DEF K!EmptyAnswer
  <2>2. keys' = {} /\ age' = 0 /\ live' = live /\ since' = since
    BY <1>8 DEF K!EmptyAnswer, K!Provider
  <2>3. QED
    BY <2>1, <2>2
<1>9. ASSUME NEW g \in Entrants, K!FetchFails(g) PROVE KeyInv'
  <2>1. signIns' \in [Entrants -> KeyLocal]
    BY <1>2, <1>9 DEF K!FetchFails
  <2>2. QED
    BY <1>1, <1>9, <2>1 DEF K!FetchFails, K!Provider
<1>10. ASSUME NEW g \in Entrants, K!Answer(g) PROVE KeyInv'
  <2>1. signIns' \in [Entrants -> KeyLocal]
    BY <1>10 DEF K!Answer, K!Goto, KeyLocal
  <2>2. QED
    BY <1>1, <1>10, <2>1 DEF K!Answer, K!Provider
<1>11. ASSUME NEW k \in Key, K!Rotate(k) PROVE KeyInv'
  BY <1>11 DEF K!Rotate
<1>12. CASE K!Tick
  BY <1>12 DEF K!Tick
<1>13. QED
  BY <1>4, <1>5, <1>6, <1>7, <1>8, <1>9, <1>10, <1>11, <1>12
     DEF K!Next, K!SignIn, K!Fetch

\* A key the provider retired verifies tokens for less than an hour longer,
\* however sign-ins share and refetch the map (publicKey, refreshKeysLocked).
THEOREM RetiredKeysRefused == FeedsSpec => RetiredKeysExpire
<1>0. Hour \in Nat \ {0}
  BY TicksAssumption
<1>1. KeyInv /\ [K!Next]_K!vars =>
        [\A g \in Entrants :
            (signIns[g].pc # "accepted" /\ signIns'[g].pc = "accepted") =>
                since[signIns[g].kid] < Hour]_K!vars
  <2> SUFFICES ASSUME KeyInv, K!Next, NEW g \in Entrants,
                      signIns[g].pc # "accepted", signIns'[g].pc = "accepted"
               PROVE  since[signIns[g].kid] < Hour
    OBVIOUS
  <2>1. signIns \in [Entrants -> KeyLocal]
    BY DEF KeyInv, KeyType
  <2>2. ASSUME NEW h \in Entrants, NEW l, K!Goto(h, l), l.pc # "accepted" PROVE FALSE
    BY <2>1, <2>2 DEF K!Goto
  <2>3. ASSUME NEW h \in Entrants, NEW pc, signIns[h] # K!Idle
        PROVE  [signIns[h] EXCEPT !.pc = pc].pc = pc
    BY <2>3, KeyLocalFields DEF KeyInv
  <2>4. ASSUME NEW h \in Entrants, K!publicKey(h) PROVE since[signIns[g].kid] < Hour
    <3>1. K!Fresh(signIns[h].kid)
      BY <2>2, <2>3, <2>4 DEF K!publicKey, K!Idle
    <3>2. g = h
      BY <2>1, <2>4 DEF K!publicKey, K!Goto
    <3>3. QED
      BY <1>0, <3>1, <3>2 DEF K!Fresh, KeyInv, KeyType
  <2>5. ASSUME NEW h \in Entrants, K!refreshKeysLocked(h) PROVE since[signIns[g].kid] < Hour
    <3>1. signIns[h].kid \in live
      BY <2>2, <2>3, <2>5 DEF K!refreshKeysLocked, K!Idle
    <3>2. g = h
      BY <2>1, <2>5 DEF K!refreshKeysLocked, K!Goto
    <3>3. QED
      BY <1>0, <3>1, <3>2 DEF KeyInv
  <2>6. ASSUME NEW h \in Entrants PROVE ~K!Lock(h) /\ ~K!EmptyAnswer(h) /\ ~K!FetchFails(h)
    BY <2>2, <2>3 DEF K!Lock, K!EmptyAnswer, K!FetchFails, K!Idle
  <2>7. ASSUME NEW h \in Entrants
        PROVE  ~K!Answer(h) /\ \A token \in K!Token : ~K!Verify(h, token)
    BY <2>2 DEF K!Answer, K!Verify, K!Idle
  <2>8. ~K!Tick /\ \A k \in Key : ~K!Rotate(k)
    BY DEF K!Tick, K!Rotate
  <2>9. QED
    BY <2>4, <2>5, <2>6, <2>7, <2>8 DEF K!Next, K!SignIn, K!Fetch
<1>2. KeyInv /\ [K!Next]_K!vars => KeyInv'
  <2>1. ASSUME KeyInv, UNCHANGED K!vars PROVE KeyInv'
    BY <2>1 DEF K!vars, KeyInv, KeyType
  <2>2. QED
    BY <2>1, KeyInvStep
<1>3. FeedsInit => KeyInv
  BY KeyInvInit DEF FeedsInit
\* The keys move in their own part.
<1>4. [FeedsNext]_all => [K!Next]_K!vars
  BY DEF FeedsNext, all, kVars, K!vars
<1>5. QED
  BY <1>1, <1>2, <1>3, <1>4, PTL DEF FeedsSpec, RetiredKeysExpire, K!RetiredKeysExpire

-----------------------------------------------------------------------------
(* Insights: an entry is about the user and the currency of its key, and   *)
(* expires an hour after the model was done; the model has one tick.       *)

Text       == [user : User, currency : Currency, read : Nat]
CacheEntry == [text : Text, expires : Nat]

InsightLocal ==
    {I!Idle} \cup [pc : {"get"}, user : User, currency : Currency]
             \cup [pc : {"llm", "reply"}, user : User, currency : Currency, text : Text]

InsightType ==
    /\ now \in Nat
    /\ base \in [User -> Currency]
    /\ cached \in [User \X Currency -> CacheEntry \cup {None}]
    /\ insights \in [Askers -> InsightLocal]

\* Of the user and in the currency that a request is about.
About(l) == l.text.user = l.user /\ l.text.currency = l.currency

InsightInv ==
    /\ InsightType
    /\ \A u \in User, c \in Currency : cached[<<u, c>>] # None =>
        LET e == cached[<<u, c>>] IN
        e.text.user = u /\ e.text.currency = c /\ e.expires <= e.text.read + 1 + Ttl
    /\ \A g \in Askers : insights[g].pc = "llm" =>
        About(insights[g]) /\ insights[g].text.read <= now /\ now <= insights[g].text.read + 1
    /\ \A g \in Askers : insights[g].pc = "reply" =>
        About(insights[g]) /\ now - insights[g].text.read <= Ttl + 1

LEMMA InsightFields ==
    ASSUME InsightType, NEW g \in Askers
    PROVE  /\ insights[g].pc = "get" => insights[g] \in [pc : {"get"}, user : User, currency : Currency]
           /\ insights[g].pc \in {"llm", "reply"} =>
                insights[g] \in [pc : {"llm", "reply"}, user : User, currency : Currency, text : Text]
BY DEF InsightType, InsightLocal, I!Idle

\* What a request may be left with, for the invariant to hold of it.
FineLocal(l) ==
    /\ l \in InsightLocal
    /\ l.pc = "llm" => About(l) /\ l.text.read <= now /\ now <= l.text.read + 1
    /\ l.pc = "reply" => About(l) /\ now - l.text.read <= Ttl + 1

LEMMA InsightMoves ==
    ASSUME InsightInv, NEW g \in Askers, insights' = [insights EXCEPT ![g] = insights'[g]], FineLocal(insights'[g]),
           UNCHANGED <<now, base, cached>>
    PROVE  InsightInv'
<1>1. insights' \in [Askers -> InsightLocal]
  BY DEF InsightInv, InsightType, FineLocal
<1>2. \A h \in Askers : h # g => insights'[h] = insights[h]
  BY DEF InsightInv, InsightType
<1>3. QED
  BY <1>1, <1>2 DEF InsightInv, InsightType, FineLocal, About

LEMMA InsightInvStep == ASSUME InsightInv, I!Next PROVE InsightInv'
<1> USE TicksAssumption
<1>0. InsightType
  BY DEF InsightInv
<1>1. ASSUME NEW g \in Askers, NEW u \in User, I!insights(g, u) PROVE InsightInv'
  <2>1. insights'[g] = [pc |-> "get", user |-> u, currency |-> base[u]] /\ insights' = [insights EXCEPT ![g] = insights'[g]]
    BY <1>0, <1>1 DEF I!insights, I!Goto, InsightType
  <2>2. FineLocal(insights'[g])
    BY <1>0, <2>1 DEF FineLocal, InsightLocal, InsightType
  <2>3. QED
    BY <1>1, <2>1, <2>2, InsightMoves DEF I!insights, I!Users
<1>2. ASSUME NEW g \in Askers, I!Hit(g) PROVE InsightInv'
  <2> DEFINE e == cached[<<insights[g].user, insights[g].currency>>]
  <2>1. insights[g].user \in User /\ insights[g].currency \in Currency
    BY <1>0, <1>2, InsightFields DEF I!Hit
  <2>2. e # None /\ now < e.expires /\ e \in CacheEntry
    BY <1>0, <1>2, <2>1 DEF I!Hit, I!Entry, I!cacheKey, InsightType
  <2>3. e.text.user = insights[g].user /\ e.text.currency = insights[g].currency
        /\ e.expires <= e.text.read + 1 + Ttl
    BY <2>1, <2>2 DEF InsightInv
  <2>4. insights'[g] = [pc |-> "reply", user |-> insights[g].user, currency |-> insights[g].currency, text |-> e.text]
        /\ insights' = [insights EXCEPT ![g] = insights'[g]]
    BY <1>0, <1>2 DEF I!Hit, I!Goto, I!Entry, I!cacheKey, InsightType
  <2>5. FineLocal(insights'[g])
    BY <1>0, <2>1, <2>2, <2>3, <2>4
       DEF FineLocal, About, InsightLocal, InsightType, CacheEntry, Text
  <2>6. QED
    BY <1>2, <2>4, <2>5, InsightMoves DEF I!Hit, I!Users
<1>3. ASSUME NEW g \in Askers, I!buildSummary(g) PROVE InsightInv'
  <2>1. insights[g].user \in User /\ insights[g].currency \in Currency
    BY <1>0, <1>3, InsightFields DEF I!buildSummary
  <2>2. insights'[g] = [pc |-> "llm", user |-> insights[g].user, currency |-> insights[g].currency,
                  text |-> [user |-> insights[g].user, currency |-> insights[g].currency, read |-> now]]
        /\ insights' = [insights EXCEPT ![g] = insights'[g]]
    BY <1>0, <1>3 DEF I!buildSummary, I!Goto, InsightType
  <2>3. FineLocal(insights'[g])
    BY <1>0, <2>1, <2>2 DEF FineLocal, About, InsightLocal, InsightType, Text
  <2>4. QED
    BY <1>3, <2>2, <2>3, InsightMoves DEF I!buildSummary, I!Users
\* What the model says of a request goes out with it, kept or not.
<1>4. ASSUME NEW g \in Askers, insights[g].pc = "llm", I!Goto(g, [insights[g] EXCEPT !.pc = "reply"])
      PROVE  insights' = [insights EXCEPT ![g] = insights'[g]] /\ FineLocal(insights'[g])
  <2>1. insights[g] \in [pc : {"llm", "reply"}, user : User, currency : Currency, text : Text]
    BY <1>0, <1>4, InsightFields
  <2>2. insights'[g] = [insights[g] EXCEPT !.pc = "reply"] /\ insights' = [insights EXCEPT ![g] = insights'[g]]
    BY <1>0, <1>4 DEF I!Goto, InsightType
  <2>3. About(insights[g]) /\ now <= insights[g].text.read + 1 /\ now \in Nat /\ insights[g].text.read \in Nat
    BY <1>0, <1>4, <2>1 DEF InsightInv, InsightType, Text
  <2>4. QED
    BY <2>1, <2>2, <2>3 DEF FineLocal, About, InsightLocal
<1>5. ASSUME NEW g \in Askers, I!Chat(g) PROVE InsightInv'
  <2> DEFINE e == [text |-> insights[g].text, expires |-> now + Ttl]
  <2>1. insights[g] \in [pc : {"llm", "reply"}, user : User, currency : Currency, text : Text]
        /\ insights[g].pc = "llm"
    BY <1>0, <1>5, InsightFields DEF I!Chat
  <2>2. insights' = [insights EXCEPT ![g] = insights'[g]] /\ FineLocal(insights'[g])
    BY <1>4, <1>5 DEF I!Chat
  <2>3. cached' = [cached EXCEPT ![<<insights[g].user, insights[g].currency>>] = e] /\ now' = now /\ base' = base
    BY <1>5 DEF I!Chat, I!cacheKey, I!Users
  <2>4. e \in CacheEntry /\ e.text.user = insights[g].user /\ e.text.currency = insights[g].currency
        /\ e.expires <= e.text.read + 1 + Ttl
    BY <1>0, <2>1 DEF InsightInv, InsightType, About, CacheEntry, Text
  <2>5. cached' \in [User \X Currency -> CacheEntry \cup {None}]
    BY <1>0, <2>1, <2>3, <2>4 DEF InsightType
  <2>6. \A u \in User, c \in Currency : cached'[<<u, c>>] # None =>
           /\ cached'[<<u, c>>].text.user = u /\ cached'[<<u, c>>].text.currency = c
           /\ cached'[<<u, c>>].expires <= cached'[<<u, c>>].text.read + 1 + Ttl
    BY <1>0, <2>1, <2>3, <2>4 DEF InsightInv, InsightType
  <2>7. insights' \in [Askers -> InsightLocal] /\ \A h \in Askers : h # g => insights'[h] = insights[h]
    BY <1>0, <2>2 DEF FineLocal, InsightType
  <2>8. QED
    BY <1>0, <2>2, <2>3, <2>5, <2>6, <2>7 DEF InsightInv, InsightType, FineLocal, About
<1>6. ASSUME NEW g \in Askers, I!SetFails(g) PROVE InsightInv'
  BY <1>4, <1>6, InsightMoves DEF I!SetFails, I!Users
<1>7. ASSUME NEW g \in Askers, I!ChatFails(g) \/ I!Reply(g) PROVE InsightInv'
  <2>1. insights'[g] = I!Idle /\ insights' = [insights EXCEPT ![g] = insights'[g]]
    BY <1>0, <1>7 DEF I!ChatFails, I!Reply, I!Goto, InsightType
  <2>2. FineLocal(insights'[g])
    BY <2>1 DEF FineLocal, InsightLocal, I!Idle
  <2>3. QED
    BY <1>7, <2>1, <2>2, InsightMoves DEF I!ChatFails, I!Reply, I!Users
<1>8. ASSUME NEW u \in User, NEW c \in Currency, I!UpdateBaseCurrency(u, c) PROVE InsightInv'
  BY <1>8 DEF I!UpdateBaseCurrency, InsightInv, InsightType, About
<1>9. ASSUME NEW u \in User, NEW p \in I!Plan, I!ChangePlan(u, p) PROVE InsightInv'
  BY <1>9 DEF I!ChangePlan, InsightInv, InsightType, About
<1>10. CASE I!Tick
  <2>1. \A g \in Askers : insights[g].pc = "llm" => insights[g].text.read \in Nat
    BY <1>0, InsightFields DEF Text
  <2>2. QED
    BY <1>10, <2>1 DEF I!Tick, I!Users, InsightInv, InsightType, About
<1>11. QED
  BY <1>1, <1>2, <1>3, <1>5, <1>6, <1>7, <1>8, <1>9, <1>10 DEF I!Next, I!Step

\* Insights shown are about the user who asked, in the currency asked for, and
\* no older than the cache and the model's time allow (advisor, Insights).
THEOREM InsightsAlwaysSound == FeedsSpec => []InsightsSound
<1>1. FeedsInit => InsightInv
  BY DEF FeedsInit, I!Init, I!Idle, InsightInv, InsightType, InsightLocal
<1>2. InsightInv /\ [I!Next]_I!vars => InsightInv'
  <2>1. ASSUME InsightInv, UNCHANGED I!vars PROVE InsightInv'
    BY <2>1 DEF I!vars, InsightInv, InsightType, About
  <2>2. QED
    BY <2>1, InsightInvStep
<1>3. InsightInv => InsightsSound
  BY DEF InsightInv, About, InsightsSound, I!InsightsSound
<1>4. [FeedsNext]_all => [I!Next]_I!vars
  BY DEF FeedsNext, all, iVars, I!vars
<1>5. QED
  BY <1>1, <1>2, <1>3, <1>4, PTL DEF FeedsSpec

-----------------------------------------------------------------------------
(* RateFeed: a day that no one asked for too early is cached, and is under *)
(* way in a request, with nothing but its own rates.                       *)

OwnRates(d) == [c \in Supported |-> d]

\* Where a history request may be.
HistoryLocal(l) ==
    \/ l = R!Idle
    \/ \E d \in R!Day : \/ \E p \in {"get", "asked"} : l = [pc |-> p, date |-> d]
                        \/ \E p \in {"set", "reply"} : \E r : l = [pc |-> p, date |-> d, rates |-> r]

HistoryInv ==
    /\ DOMAIN history = R!Day /\ history = [d \in R!Day |-> history[d]]
    /\ DOMAIN histories = Readers /\ histories = [g \in Readers |-> histories[g]]
    /\ \A g \in Readers : HistoryLocal(histories[g])
    /\ \A d \in R!Day \ early : history[d] # None => history[d] = OwnRates(d)
    /\ \A g \in Readers : (histories[g].pc \in {"set", "reply"} /\ histories[g].date \notin early) =>
        histories[g].rates = OwnRates(histories[g].date)

LEMMA HistoryFields ==
    ASSUME NEW l, HistoryLocal(l), l.pc # "idle"
    PROVE  /\ l.date \in R!Day
           /\ l.pc \in {"get", "asked"} => l = [pc |-> l.pc, date |-> l.date]
           /\ l.pc \in {"set", "reply"} => l = [pc |-> l.pc, date |-> l.date, rates |-> l.rates]
BY DEF HistoryLocal, R!Idle

\* A local with which a request may histories on.
HonestLocal(l) ==
    /\ HistoryLocal(l)
    /\ (l.pc \in {"set", "reply"} /\ l.date \notin early') => l.rates = OwnRates(l.date)

LEMMA HistoryMoves ==
    ASSUME HistoryInv, NEW g \in Readers, histories' = [histories EXCEPT ![g] = histories'[g]], HonestLocal(histories'[g]),
           history' = history, early \subseteq early'
    PROVE  HistoryInv'
<1>1. DOMAIN histories' = Readers /\ histories' = [h \in Readers |-> histories'[h]]
  BY DEF HistoryInv
<1>2. \A h \in Readers : h # g => histories'[h] = histories[h]
  BY DEF HistoryInv
<1>3. QED
  BY <1>1, <1>2 DEF HistoryInv, HonestLocal

LEMMA HistoryInvStep == ASSUME HistoryInv, R!Next PROVE HistoryInv'
<1>1. ASSUME UNCHANGED <<history, early, histories>> PROVE HistoryInv'
  BY <1>1 DEF HistoryInv
<1>2. CASE R!SyncStep \/ R!FetchFails \/ R!StoreFails \/ R!Publish \/ R!NextDay
  BY <1>1, <1>2 DEF R!SyncStep, R!Tick, R!fetchAndStore, R!StoreRate, R!FetchFails, R!StoreFails,
                    R!Publish, R!NextDay, R!Calendar
<1>3. CASE R!Restart
  <2>1. histories' = [g \in Readers |-> R!Idle] /\ history' = history /\ early' = early
    BY <1>3 DEF R!Restart
  <2>2. \A g \in Readers : HistoryLocal(histories'[g]) /\ histories'[g].pc = "idle"
    BY <2>1 DEF HistoryLocal, R!Idle
  <2>3. QED
    BY <2>1, <2>2 DEF HistoryInv
<1>4. ASSUME NEW g \in Readers, NEW l, R!Goto(g, l), HonestLocal(l),
             history' = history, early \subseteq early'
      PROVE  HistoryInv'
  <2>1. histories'[g] = l /\ histories' = [histories EXCEPT ![g] = histories'[g]]
    BY <1>4 DEF R!Goto, HistoryInv
  <2>2. QED
    BY <1>4, <2>1, HistoryMoves
<1>5. ASSUME NEW g \in Readers, NEW d \in R!Day, R!HistoryAt(g, d) PROVE HistoryInv'
  <2>1. HonestLocal([pc |-> "get", date |-> d])
    BY DEF HonestLocal, HistoryLocal
  <2>2. QED
    BY <1>4, <1>5, <2>1 DEF R!HistoryAt
<1>6. ASSUME NEW g \in Readers, R!Cached(g) PROVE HistoryInv'
  <2>1. histories[g].date \in R!Day /\ history[histories[g].date] # None
    BY <1>6, HistoryFields DEF R!Cached, HistoryInv
  <2>2. early' = early /\ history' = history
        /\ R!Goto(g, [pc |-> "reply", date |-> histories[g].date, rates |-> history[histories[g].date]])
    BY <1>6 DEF R!Cached
  <2>3. HonestLocal([pc |-> "reply", date |-> histories[g].date, rates |-> history[histories[g].date]])
    BY <2>1, <2>2 DEF HonestLocal, HistoryLocal, HistoryInv
  <2>4. QED
    BY <1>4, <2>2, <2>3
<1>7. ASSUME NEW g \in Readers, R!Miss(g) PROVE HistoryInv'
  <2>1. histories[g].date \in R!Day /\ histories[g] = [pc |-> "get", date |-> histories[g].date]
    BY <1>7, HistoryFields DEF R!Miss, HistoryInv
  <2>2. [histories[g] EXCEPT !.pc = "asked"] = [pc |-> "asked", date |-> histories[g].date]
    BY <2>1
  <2>3. HonestLocal([pc |-> "asked", date |-> histories[g].date])
    BY <2>1 DEF HonestLocal, HistoryLocal
  <2>4. QED
    BY <1>4, <1>7, <2>2, <2>3 DEF R!Miss
<1>8. ASSUME NEW g \in Readers, R!Answer(g) PROVE HistoryInv'
  <2> DEFINE d == histories[g].date
  <2>1. d \in R!Day
    BY <1>8, HistoryFields DEF R!Answer, HistoryInv
  <2>2. early' = early \cup ({d} \ published) /\ history' = history
        /\ R!Goto(g, [pc |-> "set", date |-> d, rates |-> R!HistoricalRates(d)])
    BY <1>8 DEF R!Answer, R!Feed
  <2>3. d \notin early' => R!HistoricalRates(d) = OwnRates(d)
    BY <2>2 DEF R!HistoricalRates, OwnRates
  <2>4. HonestLocal([pc |-> "set", date |-> d, rates |-> R!HistoricalRates(d)])
    BY <2>1, <2>3 DEF HonestLocal, HistoryLocal
  <2>5. QED
    BY <1>4, <2>2, <2>4
<1>9. ASSUME NEW g \in Readers, R!AnswerEmpty(g) PROVE HistoryInv'
  <2> DEFINE l == [pc |-> "set", date |-> histories[g].date, rates |-> [c \in Supported |-> None]]
  <2>1. histories[g].date \in R!Day
    BY <1>9, HistoryFields DEF R!AnswerEmpty, HistoryInv
  <2>2. early' = early \cup {histories[g].date} /\ history' = history /\ R!Goto(g, l)
    BY <1>9 DEF R!AnswerEmpty
  <2>3. HonestLocal(l)
    BY <2>1, <2>2 DEF HonestLocal, HistoryLocal
  <2>4. QED
    BY <1>4, <2>2, <2>3
<1>10. ASSUME NEW g \in Readers, R!AnswerFails(g) \/ R!Reply(g) PROVE HistoryInv'
  <2>1. HonestLocal(R!Idle)
    BY DEF HonestLocal, HistoryLocal, R!Idle
  <2>2. QED
    BY <1>4, <1>10, <2>1 DEF R!AnswerFails, R!Reply
\* From "set" to "reply" with the rates found, kept in Redis or not.
<1>11. ASSUME NEW g \in Readers, histories[g].pc = "set", early' = early
       PROVE  /\ HonestLocal([histories[g] EXCEPT !.pc = "reply"])
              /\ histories[g].date \in R!Day
              /\ histories[g].date \notin early => histories[g].rates = OwnRates(histories[g].date)
  <2>1. histories[g].date \in R!Day /\ histories[g] = [pc |-> "set", date |-> histories[g].date, rates |-> histories[g].rates]
    BY <1>11, HistoryFields DEF HistoryInv
  <2>2. [histories[g] EXCEPT !.pc = "reply"] = [pc |-> "reply", date |-> histories[g].date, rates |-> histories[g].rates]
    BY <2>1
  <2>3. histories[g].date \notin early => histories[g].rates = OwnRates(histories[g].date)
    BY <1>11 DEF HistoryInv
  <2>4. HonestLocal([pc |-> "reply", date |-> histories[g].date, rates |-> histories[g].rates])
    BY <1>11, <2>1, <2>3 DEF HonestLocal, HistoryLocal
  <2>5. QED
    BY <2>1, <2>2, <2>3, <2>4
<1>12. ASSUME NEW g \in Readers, R!Set(g) PROVE HistoryInv'
  <2>1. histories[g].pc = "set" /\ early' = early
        /\ history' = [history EXCEPT ![histories[g].date] = histories[g].rates]
        /\ R!Goto(g, [histories[g] EXCEPT !.pc = "reply"])
    BY <1>12 DEF R!Set
  <2>2. /\ HonestLocal([histories[g] EXCEPT !.pc = "reply"])
        /\ histories[g].date \in R!Day
        /\ histories[g].date \notin early => histories[g].rates = OwnRates(histories[g].date)
    BY <1>11, <2>1
  <2>3. histories'[g] = [histories[g] EXCEPT !.pc = "reply"] /\ DOMAIN histories' = Readers
        /\ histories' = [h \in Readers |-> histories'[h]] /\ \A h \in Readers : h # g => histories'[h] = histories[h]
    BY <2>1 DEF R!Goto, HistoryInv
  <2>4. DOMAIN history' = R!Day /\ history' = [d \in R!Day |-> history'[d]]
        /\ \A d \in R!Day \ early : history'[d] # None => history'[d] = OwnRates(d)
    BY <2>1, <2>2 DEF HistoryInv
  <2>5. QED
    BY <2>1, <2>2, <2>3, <2>4 DEF HistoryInv, HonestLocal
<1>13. ASSUME NEW g \in Readers, R!SetFails(g) PROVE HistoryInv'
  BY <1>4, <1>11, <1>13 DEF R!SetFails
<1>14. QED
  BY <1>2, <1>3, <1>5, <1>6, <1>7, <1>8, <1>9, <1>10, <1>12, <1>13 DEF R!Next, R!HistoryStep

\* A day that nobody asked for before it was published is answered with its own
\* rates for ever (repository/rate.histories, HistoricalRates).
THEOREM HistoryStaysTrue == FeedsSpec => []HistoryTrue
<1>1. FeedsInit => HistoryInv
  BY DEF FeedsInit, R!Init, R!Idle, HistoryInv, HistoryLocal
<1>2. HistoryInv /\ [R!Next]_R!vars => HistoryInv'
  <2>1. ASSUME HistoryInv, UNCHANGED R!vars PROVE HistoryInv'
    BY <2>1 DEF R!vars, HistoryInv
  <2>2. QED
    BY <2>1, HistoryInvStep
<1>3. HistoryInv => HistoryTrue
  BY DEF HistoryInv, OwnRates, HistoryTrue, R!HistoryTrue
<1>4. [FeedsNext]_all => [R!Next]_R!vars
  BY DEF FeedsNext, all, rVars, R!vars
<1>5. QED
  BY <1>1, <1>2, <1>3, <1>4, PTL DEF FeedsSpec

-----------------------------------------------------------------------------
(* Translations: a goroutine's text is the one of the row it is at, and of *)
(* a row that is not made yet only the goroutine that makes it knows.      *)

NoRow == {Unmade, Gone}

\* What a goroutine may have translated of a row.
OwnText(c) == {t \in [T!Lang -> {None} \cup {T!Translated(c, l) : l \in T!Lang}] :
                 \A l \in T!Lang : t[l] \in {None, T!Translated(c, l)}}

HealPc == {"uk", "en", "ask uk", "ask en", "write"}

Between(h) == h \in [pc : {"next"}, todo : SUBSET DOMAIN Listed]

Locals(c) ==
    [pc : HealPc, todo : SUBSET DOMAIN Listed, got : OwnText(c), new : BOOLEAN]

AtRow(h) == h \in Locals(Listed[T!Min(h.todo)]) /\ h.todo # {}

HealLocal(h) == h = T!Idle \/ Between(h) \/ AtRow(h)

ToDo(h)  == IF h = T!Idle THEN {} ELSE h.todo
Makes(h) == h.pc \in HealPc /\ h.new

RowsType ==
    /\ rows = [c \in T!Category |-> rows[c]]
    /\ \A c \in T!Category : rows[c] \in NoRow \cup OwnText(c)

NameInv ==
    /\ RowsType
    /\ heals = [g \in Healers |-> heals[g]]
    /\ \A g \in Healers : HealLocal(heals[g])
    /\ \A g \in Healers : \A i \in ToDo(heals[g]) :
         rows[Listed[i]] = Unmade <=> Makes(heals[g])
    /\ \A g, h \in Healers : g # h /\ Makes(heals[g]) =>
         ToDo(heals[g]) \cap ToDo(heals[h]) = {}

\* The first row of those to do is one of them, and the list's.
LEMMA FirstToDo ==
    ASSUME NEW todo \in SUBSET DOMAIN Listed, todo # {}
    PROVE  T!Min(todo) \in todo /\ Listed[T!Min(todo)] \in T!Category
<1>1. DOMAIN Listed = 1..Len(Listed) /\ Len(Listed) \in Nat
  BY ListedAssumption
<1>2. IsFiniteSet(1..Len(Listed)) /\ todo \in SUBSET (1..Len(Listed))
  BY <1>1, FS_Interval
<1>3. IsFiniteSet(todo) /\ todo \subseteq Int
  BY <1>1, <1>2, FS_Subset
<1>4. T!Min(todo) = Min(todo)
  BY DEF T!Min, Min
<1>5. QED
  BY <1>3, <1>4, MinIs, ListedAssumption DEF T!Category, T!Range

\* A row, once made, is told from no row.
LEMMA RowsAreRows ==
    ASSUME NEW c \in T!Category
    PROVE  OwnText(c) \cap NoRow = {} /\ Unmade # Gone /\ T!Empty \in OwnText(c)
BY ListedAssumption DEF OwnText, NoRow, T!Empty

LEMMA NameInvInit == T!Init => NameInv
<1> SUFFICES ASSUME T!Init PROVE NameInv
  OBVIOUS
<1>1. RowsType
  BY RowsAreRows DEF T!Init, RowsType, NoRow
<1>2. /\ heals = [g \in Healers |-> heals[g]]
      /\ \A g \in Healers : heals[g] = T!Idle
  BY DEF T!Init
<1>3. T!Idle.pc \notin HealPc
  BY DEF T!Idle, HealPc
<1>4. QED
  BY <1>1, <1>2, <1>3 DEF NameInv, HealLocal, ToDo, Makes

\* What a step of one goroutine must keep.
LEMMA HealMoves ==
    ASSUME NameInv, NEW g \in Healers, NEW local, T!Goto(g, local),
           UNCHANGED rows, HealLocal(local),
           ToDo(local) \subseteq ToDo(heals[g]),
           ToDo(local) = {} \/ (Makes(local) <=> Makes(heals[g]))
    PROVE  NameInv'
<1>1. heals' = [h \in Healers |-> IF h = g THEN local ELSE heals[h]]
  BY DEF T!Goto, NameInv
<1>2. RowsType'
  BY DEF NameInv, RowsType
<1>3. \A h \in Healers : HealLocal(heals'[h])
  BY <1>1 DEF NameInv
<1>4. \A h \in Healers : ToDo(heals'[h]) \subseteq ToDo(heals[h])
  BY <1>1
<1>5. \A h \in Healers : ToDo(heals'[h]) = {} \/ (Makes(heals'[h]) <=> Makes(heals[h]))
  BY <1>1
<1>6. \A h \in Healers : \A i \in ToDo(heals'[h]) : rows'[Listed[i]] = Unmade <=> Makes(heals'[h])
  BY <1>4, <1>5 DEF NameInv
<1>7. \A h, k \in Healers : h # k /\ Makes(heals'[h]) => ToDo(heals'[h]) \cap ToDo(heals'[k]) = {}
  BY <1>4, <1>5 DEF NameInv
<1>8. heals' = [h \in Healers |-> heals'[h]]
  BY <1>1
<1>9. QED
  BY <1>2, <1>3, <1>6, <1>7, <1>8 DEF NameInv, HealLocal, Between, AtRow

\* A goroutine at a row has all the locals that go with it.
LEMMA AtItsRow ==
    ASSUME NameInv, NEW g \in Healers, heals[g].pc \in HealPc
    PROVE  /\ AtRow(heals[g]) /\ heals[g] # T!Idle /\ ToDo(heals[g]) = heals[g].todo
           /\ Makes(heals[g]) <=> heals[g].new
           /\ T!Min(heals[g].todo) \in heals[g].todo
           /\ T!Current(g) = Listed[T!Min(heals[g].todo)] /\ T!Current(g) \in T!Category
<1>1. AtRow(heals[g]) /\ heals[g] # T!Idle
  <2>1. heals[g] # T!Idle
    <3>1. T!Idle.pc = "idle" /\ "idle" \notin HealPc
      BY DEF HealPc, T!Idle
    <3>2. QED
      BY <3>1
  <2>2. ~Between(heals[g])
    BY DEF HealPc, Between
  <2>3. QED
    BY <2>1, <2>2 DEF NameInv, HealLocal
<1>2. heals[g].todo \in SUBSET DOMAIN Listed /\ heals[g].todo # {}
  BY <1>1 DEF AtRow, Locals
<1>3. QED
  BY <1>1, <1>2, FirstToDo DEF ToDo, Makes, T!Current

\* Translating changes only what the goroutine has of its row.
LEMMA AskingKeepsNames ==
    ASSUME NameInv, NEW g \in Healers, heals[g].pc \in HealPc, UNCHANGED rows,
           NEW pc \in HealPc, NEW got \in OwnText(T!Current(g)),
           T!Goto(g, [pc |-> pc, todo |-> heals[g].todo, got |-> got, new |-> heals[g].new])
    PROVE  NameInv'
<1> DEFINE local == [pc |-> pc, todo |-> heals[g].todo, got |-> got, new |-> heals[g].new]
<1>1. AtRow(local) /\ local # T!Idle
  BY AtItsRow DEF AtRow, Locals, T!Idle
<1>2. ToDo(local) = ToDo(heals[g]) /\ (Makes(local) <=> Makes(heals[g]))
  BY <1>1, AtItsRow DEF ToDo, Makes
<1>3. QED
  BY <1>1, <1>2, HealMoves DEF HealLocal

LEMMA AfterKeepsNames ==
    ASSUME NameInv, NEW g \in Healers, heals[g].pc \in HealPc, UNCHANGED rows,
           NEW l \in T!Lang, NEW text \in {None, T!Translated(T!Current(g), l)},
           T!After(g, l, text)
    PROVE  NameInv'
<1> DEFINE h == heals[g]
           got == [h.got EXCEPT ![l] = text]
           pc == IF l = "uk" THEN "en" ELSE "write"
<1>1. h \in Locals(T!Current(g))
  BY AtItsRow DEF AtRow, Locals
<1>2. got \in OwnText(T!Current(g)) /\ pc \in HealPc
  BY <1>1 DEF Locals, OwnText, HealPc
<1>3. [h EXCEPT !.got[l] = text, !.pc = pc] = [pc |-> pc, todo |-> h.todo, got |-> got, new |-> h.new]
  <2> DEFINE k == [h EXCEPT !.got = got]
  <2> HIDE DEF h, pc
  <2>1. [h EXCEPT !.got[l] = text, !.pc = pc] = [k EXCEPT !.pc = pc]
    BY <1>1 DEF Locals
  <2> HIDE DEF got
  <2>2. k = [pc |-> h.pc, todo |-> h.todo, got |-> got, new |-> h.new]
    BY <1>1 DEF Locals
  <2> HIDE DEF k
  <2>3. [k EXCEPT !.pc = pc] = [pc |-> pc, todo |-> h.todo, got |-> got, new |-> h.new]
    BY <2>2
  <2>4. QED
    BY <2>1, <2>3
<1>4. T!Goto(g, [pc |-> pc, todo |-> h.todo, got |-> got, new |-> h.new])
  BY <1>3 DEF T!After
<1> HIDE DEF got, pc
<1>5. QED
  BY <1>2, <1>4, AskingKeepsNames

LEMMA TranslateKeepsNames ==
    ASSUME NameInv, NEW g \in Healers,
           T!NoRequest(g) \/ T!Translate(g) \/ T!resetCircuit(g) \/ T!tripCircuit(g)
    PROVE  NameInv'
<1>1. CASE T!NoRequest(g)
  BY <1>1, AfterKeepsNames DEF T!NoRequest, T!Lang, HealPc
<1>2. CASE T!Translate(g)
  <2> DEFINE h == heals[g]
             pc == IF h.pc = "uk" THEN "ask uk" ELSE "ask en"
  <2>1. h.pc \in HealPc /\ pc \in HealPc /\ UNCHANGED rows
    BY <1>2 DEF T!Translate, T!Lang, HealPc
  <2>2. h \in Locals(T!Current(g))
    BY <2>1, AtItsRow DEF AtRow, Locals
  <2>3. T!Goto(g, [h EXCEPT !.pc = pc])
    BY <1>2 DEF T!Translate
  <2>4. [h EXCEPT !.pc = pc] = [pc |-> pc, todo |-> h.todo, got |-> h.got, new |-> h.new]
    <3> HIDE DEF h, pc
    <3>1. QED
      BY <2>2 DEF Locals
  <2>5. T!Goto(g, [pc |-> pc, todo |-> h.todo, got |-> h.got, new |-> h.new])
    BY <2>3, <2>4
  <2>6. h.got \in OwnText(T!Current(g))
    BY <2>2 DEF Locals
  <2> HIDE DEF pc
  <2>7. QED
    BY <2>1, <2>5, <2>6, AskingKeepsNames
<1>3. ASSUME T!resetCircuit(g) \/ T!tripCircuit(g) PROVE NameInv'
  <2>1. heals[g].pc \in HealPc /\ UNCHANGED rows
    BY <1>3 DEF T!resetCircuit, T!tripCircuit, HealPc
  <2>2. T!Asked(g) \in T!Lang
    BY DEF T!Asked, T!Lang
  <2>3. \E text \in {None, T!Translated(T!Current(g), T!Asked(g))} : T!After(g, T!Asked(g), text)
    BY <1>3 DEF T!resetCircuit, T!tripCircuit
  <2>4. QED
    BY <2>1, <2>2, <2>3, AfterKeepsNames
<1>4. QED
  BY <1>1, <1>2, <1>3

\* Going to the next row, or to the end.
LEMMA NextKeepsNames ==
    ASSUME NameInv, NEW g \in Healers,
           T!healTranslations(g) \/ T!DbFails(g) \/ (T!WriteHealed(g) /\ heals[g].got = T!Empty)
    PROVE  NameInv'
<1>0. /\ HealLocal(T!Idle) /\ ToDo(T!Idle) = {}
      /\ \A todo \in SUBSET DOMAIN Listed : [pc |-> "next", todo |-> todo] # T!Idle
            /\ Between([pc |-> "next", todo |-> todo])
            /\ ToDo([pc |-> "next", todo |-> todo]) = todo
            /\ ~Makes([pc |-> "next", todo |-> todo])
  BY DEF HealLocal, ToDo, T!Idle, Between, Makes, HealPc
<1>1. ASSUME UNCHANGED rows, T!Goto(g, T!Idle) PROVE NameInv'
  BY <1>0, <1>1, HealMoves
<1>2. CASE T!healTranslations(g)
  <2> DEFINE h == heals[g]
             local == [pc |-> "uk", todo |-> h.todo, got |-> T!Empty, new |-> FALSE]
  <2>1. Between(h) /\ h # T!Idle /\ ~Makes(h) /\ ToDo(h) = h.todo
    <3>1. h.pc = "next" /\ HealLocal(h)
      BY <1>2 DEF T!healTranslations, NameInv
    <3>2. h # T!Idle /\ h.pc \notin HealPc
      BY <3>1 DEF T!Idle, HealPc
    <3>3. ~AtRow(h)
      BY <3>2 DEF AtRow, Locals
    <3>4. QED
      BY <3>1, <3>2, <3>3 DEF HealLocal, Makes, ToDo
  <2>2. CASE h.todo = {}
    BY <1>1, <1>2, <2>2 DEF T!healTranslations
  <2>3. CASE h.todo # {}
    <3>1. h.todo \in SUBSET DOMAIN Listed
      BY <2>1 DEF Between
    <3>2. T!Empty \in OwnText(Listed[T!Min(h.todo)])
      BY <2>3, <3>1, FirstToDo, RowsAreRows
    <3>3. AtRow(local) /\ local # T!Idle /\ ToDo(local) = h.todo /\ ~Makes(local)
      BY <2>3, <3>1, <3>2 DEF AtRow, Locals, HealPc, T!Idle, ToDo, Makes
    <3>4. T!Goto(g, local) /\ UNCHANGED rows
      BY <1>2, <2>3 DEF T!healTranslations
    <3> HIDE DEF local
    <3>5. QED
      BY <2>1, <3>3, <3>4, HealMoves DEF HealLocal
  <2>4. QED
    BY <2>2, <2>3
<1>3. CASE T!DbFails(g)
  <2>1. heals[g].pc \in HealPc /\ UNCHANGED rows
    BY <1>3 DEF T!DbFails, HealPc
  <2>2. CASE T!Goto(g, T!Idle)
    BY <1>1, <2>1, <2>2
  <2>3. CASE ~heals[g].new /\ T!Goto(g, [pc |-> "next", todo |-> T!Rest(g)])
    <3>1. T!Rest(g) \in SUBSET DOMAIN Listed /\ T!Rest(g) \subseteq ToDo(heals[g])
      BY <2>1, AtItsRow DEF AtRow, Locals, T!Rest
    <3>2. ~Makes(heals[g])
      BY <2>1, <2>3, AtItsRow
    <3>3. QED
      BY <1>0, <2>1, <2>3, <3>1, <3>2, HealMoves DEF HealLocal
  <2>4. QED
    BY <1>3, <2>2, <2>3 DEF T!DbFails
<1>4. CASE T!WriteHealed(g) /\ heals[g].got = T!Empty
  BY <1>1, <1>4 DEF T!WriteHealed
<1>5. QED
  BY <1>2, <1>3, <1>4

\* A list names rows that are there; a new row is named by its maker alone.
LEMMA StartKeepsNames ==
    ASSUME NameInv, NEW g \in Healers,
           T!List(g) \/ \E i \in DOMAIN Listed : T!Create(g, i)
    PROVE  NameInv'
<1>1. heals[g] = T!Idle /\ ToDo(heals[g]) = {} /\ UNCHANGED rows
  BY DEF T!List, T!Create, ToDo
<1>2. ASSUME NEW local, T!Goto(g, local), HealLocal(local),
             \A i \in ToDo(local) : rows[Listed[i]] = Unmade <=> Makes(local),
             \A h \in Healers \ {g} : Makes(local) \/ Makes(heals[h]) =>
                ToDo(local) \cap ToDo(heals[h]) = {}
      PROVE  NameInv'
  <2>1. heals' = [h \in Healers |-> IF h = g THEN local ELSE heals[h]]
    BY <1>2 DEF T!Goto, NameInv
  <2>2. RowsType' /\ heals' = [h \in Healers |-> heals'[h]]
    BY <1>1, <2>1 DEF NameInv, RowsType
  <2>3. \A h \in Healers : HealLocal(heals'[h])
    BY <1>2, <2>1 DEF NameInv
  <2>4. \A h \in Healers : \A i \in ToDo(heals'[h]) : rows'[Listed[i]] = Unmade <=> Makes(heals'[h])
    BY <1>1, <1>2, <2>1 DEF NameInv
  <2>5. \A h, k \in Healers : h # k /\ Makes(heals'[h]) => ToDo(heals'[h]) \cap ToDo(heals'[k]) = {}
    <3>1. ASSUME NEW h \in Healers, NEW k \in Healers, h # k, Makes(heals'[h])
          PROVE  ToDo(heals'[h]) \cap ToDo(heals'[k]) = {}
      <4>1. CASE h = g
        BY <1>2, <2>1, <3>1, <4>1
      <4>2. CASE k = g
        BY <1>2, <2>1, <3>1, <4>2
      <4>3. CASE h # g /\ k # g
        BY <2>1, <3>1, <4>3 DEF NameInv
      <4>4. QED
        BY <4>1, <4>2, <4>3
    <3>2. QED
      BY <3>1
  <2>6. QED
    BY <2>2, <2>3, <2>4, <2>5 DEF NameInv, HealLocal, Between, AtRow
<1>3. CASE T!List(g)
  <2> DEFINE todo == {i \in DOMAIN Listed : T!NeedsHeal(Listed[i])}
             local == [pc |-> "next", todo |-> todo]
  <2>1. Between(local) /\ local # T!Idle /\ ToDo(local) = todo /\ ~Makes(local)
    BY DEF Between, T!Idle, ToDo, Makes, HealPc
  <2>2. \A i \in todo : rows[Listed[i]] # Unmade
    BY DEF T!NeedsHeal, T!There
  <2>3. \A h \in Healers : Makes(heals[h]) => todo \cap ToDo(heals[h]) = {}
    BY <2>2 DEF NameInv
  <2>4. T!Goto(g, local)
    BY <1>3 DEF T!List
  <2> HIDE DEF todo, local
  <2>5. QED
    BY <1>2, <2>1, <2>2, <2>3, <2>4 DEF HealLocal
<1>4. ASSUME NEW i \in DOMAIN Listed, T!Create(g, i) PROVE NameInv'
  <2> DEFINE local == [pc |-> "uk", todo |-> {i}, got |-> T!Empty, new |-> TRUE]
  <2>1. local # T!Idle /\ ToDo(local) = {i} /\ Makes(local)
    BY DEF T!Idle, ToDo, Makes, HealPc
  <2>2. AtRow(local)
    <3>1. {i} \in SUBSET DOMAIN Listed /\ {i} # {}
      OBVIOUS
    <3>2. T!Empty \in OwnText(Listed[T!Min({i})])
      BY <3>1, FirstToDo, RowsAreRows
    <3>3. QED
      BY <3>1, <3>2 DEF AtRow, Locals, HealPc
  <2>3. T!Goto(g, local) /\ rows[Listed[i]] = Unmade
        /\ \A h \in Healers : heals[h] # T!Idle => i \notin heals[h].todo
    BY <1>4 DEF T!Create
  <2>4. \A h \in Healers : {i} \cap ToDo(heals[h]) = {}
    BY <2>3 DEF ToDo
  <2> HIDE DEF local
  <2>5. QED
    BY <1>2, <2>1, <2>2, <2>3, <2>4 DEF HealLocal
<1>5. QED
  BY <1>3, <1>4

\* What a step does to the rows: one of them becomes what is known of it.
LEMMA RowMoves ==
    ASSUME NameInv, NEW c \in T!Category, NEW row \in {Gone} \cup OwnText(c),
           rows' = [rows EXCEPT ![c] = row]
    PROVE  /\ RowsType' /\ rows'[c] = row /\ row # Unmade
           /\ \A e \in T!Category : e # c => rows'[e] = rows[e]
<1>1. rows = [e \in T!Category |-> rows[e]]
  BY DEF NameInv, RowsType
<1>2. rows' = [e \in T!Category |-> IF e = c THEN row ELSE rows[e]]
  BY <1>1
<1>3. row # Unmade
  BY RowsAreRows DEF NoRow
<1>4. QED
  BY <1>2, <1>3 DEF NameInv, RowsType, NoRow

LEMMA WriteKeepsNames ==
    ASSUME NameInv, NEW g \in Healers, T!WriteHealed(g), heals[g].got # T!Empty
    PROVE  NameInv'
<1> DEFINE c == T!Current(g)
           got == heals[g].got
           local == [pc |-> "next", todo |-> T!Rest(g)]
<1>1. heals[g].pc \in HealPc /\ ~heals[g].new /\ T!Goto(g, local)
      /\ rows' = IF T!There(c) THEN [rows EXCEPT ![c] = got] ELSE rows
  BY DEF T!WriteHealed, T!UpdateTranslations, HealPc
<1>2. /\ c \in T!Category /\ got \in OwnText(c) /\ ~Makes(heals[g])
      /\ T!Rest(g) \in SUBSET DOMAIN Listed /\ T!Rest(g) \subseteq ToDo(heals[g])
  BY <1>1, AtItsRow DEF AtRow, Locals, T!Rest
<1>3. local # T!Idle /\ Between(local) /\ ToDo(local) = T!Rest(g) /\ ~Makes(local)
  BY <1>2 DEF T!Idle, Between, ToDo, Makes, HealPc
<1> HIDE DEF local, got, c
<1>4. RowsType' /\ \A e \in T!Category : rows'[e] = Unmade <=> rows[e] = Unmade
  <2>1. CASE ~T!There(c)
    BY <1>1, <2>1 DEF NameInv, RowsType
  <2>2. CASE T!There(c)
    <3>1. rows' = [rows EXCEPT ![c] = got] /\ rows[c] # Unmade
      BY <1>1, <2>2 DEF T!There
    <3>2. QED
      BY <1>2, <3>1, RowMoves
  <2>3. QED
    BY <2>1, <2>2
<1>5. heals' = [h \in Healers |-> IF h = g THEN local ELSE heals[h]]
  BY <1>1 DEF T!Goto, NameInv
<1>6. \A h \in Healers : /\ HealLocal(heals'[h]) /\ ToDo(heals'[h]) \subseteq ToDo(heals[h])
                         /\ Makes(heals'[h]) <=> Makes(heals[h])
  BY <1>2, <1>3, <1>5 DEF NameInv, HealLocal
<1>7. \A h \in Healers : \A i \in ToDo(heals[h]) : Listed[i] \in T!Category
  BY ListedAssumption DEF NameInv, HealLocal, ToDo, Between, AtRow, Locals, T!Category, T!Range
<1>8. \A h \in Healers : \A i \in ToDo(heals'[h]) : rows'[Listed[i]] = Unmade <=> Makes(heals'[h])
  BY <1>4, <1>6, <1>7 DEF NameInv
<1>9. \A h, k \in Healers : h # k /\ Makes(heals'[h]) => ToDo(heals'[h]) \cap ToDo(heals'[k]) = {}
  BY <1>6 DEF NameInv
<1>10. heals' = [h \in Healers |-> heals'[h]]
  BY <1>5
<1>11. QED
  BY <1>4, <1>6, <1>8, <1>9, <1>10 DEF NameInv, HealLocal, Between, AtRow

\* An INSERT makes a row that nobody else has on a list.
LEMMA InsertKeepsNames ==
    ASSUME NameInv, NEW g \in Healers, T!Insert(g)
    PROVE  /\ NameInv'
           /\ T!Current(g) \in T!Category /\ rows[T!Current(g)] = Unmade
           /\ \A e \in T!Category : e # T!Current(g) => rows'[e] = rows[e]
           /\ rows'[T!Current(g)] \notin NoRow
<1> DEFINE c == T!Current(g)
           first == T!Min(heals[g].todo)
           got == heals[g].got
<1>1. heals[g].pc \in HealPc /\ heals[g].new /\ T!Goto(g, T!Idle)
      /\ rows' = [rows EXCEPT ![c] = got]
  BY DEF T!Insert, HealPc
<1>2. /\ c \in T!Category /\ c = Listed[first] /\ first \in ToDo(heals[g])
      /\ got \in OwnText(c) /\ Makes(heals[g])
  BY <1>1, AtItsRow DEF AtRow, Locals
<1> HIDE DEF c, first, got
<1>3. /\ RowsType' /\ rows'[c] = got
      /\ \A e \in T!Category : e # c => rows'[e] = rows[e]
  BY <1>1, <1>2, RowMoves
<1>4. got \notin NoRow /\ rows[c] = Unmade
  BY <1>2, RowsAreRows DEF NameInv
<1>5. heals' = [h \in Healers |-> IF h = g THEN T!Idle ELSE heals[h]]
  BY <1>1 DEF T!Goto, NameInv
<1>6. ToDo(T!Idle) = {} /\ ~Makes(T!Idle)
  BY DEF ToDo, Makes, T!Idle, HealPc
<1>7. \A h \in Healers : HealLocal(heals'[h])
  BY <1>5 DEF NameInv, HealLocal
<1>8. \A h \in Healers : \A i \in ToDo(heals'[h]) : rows'[Listed[i]] = Unmade <=> Makes(heals'[h])
  <2> SUFFICES ASSUME NEW h \in Healers, NEW i \in ToDo(heals'[h])
               PROVE  rows'[Listed[i]] = Unmade <=> Makes(heals'[h])
    OBVIOUS
  <2>1. h # g /\ heals'[h] = heals[h]
    BY <1>5, <1>6
  <2>2. i # first
    BY <1>2, <2>1 DEF NameInv
  <2>3. ToDo(heals[h]) \subseteq DOMAIN Listed /\ ToDo(heals[g]) \subseteq DOMAIN Listed
    BY DEF NameInv, HealLocal, ToDo, Between, AtRow, Locals
  <2>4. Listed[i] # c /\ Listed[i] \in T!Category
    BY <1>2, <2>1, <2>2, <2>3, ListedAssumption DEF T!Category, T!Range
  <2>5. QED
    BY <1>3, <2>1, <2>4 DEF NameInv
<1>9. \A h, k \in Healers : h # k /\ Makes(heals'[h]) => ToDo(heals'[h]) \cap ToDo(heals'[k]) = {}
  BY <1>5, <1>6 DEF NameInv
<1>10. heals' = [h \in Healers |-> heals'[h]]
  BY <1>5
<1>11. NameInv'
  BY <1>3, <1>7, <1>8, <1>9, <1>10 DEF NameInv, HealLocal, Between, AtRow
<1>12. QED
  BY <1>2, <1>3, <1>4, <1>11 DEF c

\* A row that is deleted stays on the lists it is on, and is no unmade one.
LEMMA DeleteKeepsNames ==
    ASSUME NameInv, NEW c \in T!Category, T!Delete(c)
    PROVE  NameInv' /\ rows'[c] = Gone /\ \A e \in T!Category : e # c => rows'[e] = rows[e]
<1>1. rows' = [rows EXCEPT ![c] = Gone] /\ rows[c] # Unmade /\ heals' = heals
  BY DEF T!Delete, T!There
<1>2. RowsType' /\ rows'[c] = Gone /\ Gone # Unmade /\ \A e \in T!Category : e # c => rows'[e] = rows[e]
  BY <1>1, RowMoves
<1>3. \A h \in Healers : \A i \in ToDo(heals[h]) : Listed[i] \in T!Category
  BY ListedAssumption DEF NameInv, HealLocal, ToDo, Between, AtRow, Locals, T!Category, T!Range
<1>4. \A e \in T!Category : rows'[e] = Unmade <=> rows[e] = Unmade
  BY <1>1, <1>2
<1>5. \A h \in Healers : \A i \in ToDo(heals'[h]) : rows'[Listed[i]] = Unmade <=> Makes(heals'[h])
  BY <1>1, <1>3, <1>4 DEF NameInv
<1>6. QED
  BY <1>1, <1>2, <1>5 DEF NameInv, HealLocal, Between, AtRow

\* A restart ends every heal and every request under way.
LEMMA RestartKeepsNames == ASSUME NameInv, T!Restart PROVE NameInv'
<1>1. heals' = [g \in Healers |-> T!Idle] /\ UNCHANGED rows
  BY DEF T!Restart
<1>2. ToDo(T!Idle) = {} /\ ~Makes(T!Idle)
  BY DEF ToDo, Makes, T!Idle, HealPc
<1>3. QED
  BY <1>1, <1>2 DEF NameInv, RowsType, HealLocal, Between, AtRow

LEMMA NameInvStep == NameInv /\ [T!Next]_T!vars => NameInv'
<1> SUFFICES ASSUME NameInv, [T!Next]_T!vars PROVE NameInv'
  OBVIOUS
<1>1. ASSUME UNCHANGED <<rows, heals>> PROVE NameInv'
  BY <1>1 DEF NameInv, RowsType, HealLocal, Between, AtRow
<1>2. ASSUME NEW g \in Healers, T!Step(g) PROVE NameInv'
  BY <1>2, TranslateKeepsNames, NextKeepsNames, WriteKeepsNames, InsertKeepsNames DEF T!Step
<1>3. ASSUME NEW g \in Healers,
             T!List(g) \/ T!DbFails(g) \/ \E i \in DOMAIN Listed : T!Create(g, i)
      PROVE  NameInv'
  BY <1>3, StartKeepsNames, NextKeepsNames
<1>4. CASE T!CooldownEnds \/ T!EndpointDown \/ T!EndpointUp \/ UNCHANGED T!vars
  BY <1>1, <1>4 DEF T!CooldownEnds, T!EndpointDown, T!EndpointUp, T!vars
<1>5. QED
  BY <1>2, <1>3, <1>4, DeleteKeepsNames, RestartKeepsNames DEF T!Next

\* What each step may do to a row.
LEMMA RowsStep ==
    ASSUME NameInv, T!Next, NEW c \in T!Category
    PROVE  /\ rows[c] = Gone => rows'[c] = Gone
           /\ T!There(c) => rows'[c] # Unmade
           /\ T!There(c) /\ rows[c] # T!Empty => rows'[c] # T!Empty
<1>0. Unmade # Gone /\ T!Empty \notin NoRow
  BY RowsAreRows DEF NoRow
<1>1. ASSUME NEW g \in Healers, T!WriteHealed(g), heals[g].got # T!Empty
      PROVE  UNCHANGED rows \/ /\ T!There(T!Current(g)) /\ T!Current(g) \in T!Category
                               /\ rows'[T!Current(g)] \notin NoRow \cup {T!Empty}
                               /\ \A e \in T!Category : e # T!Current(g) => rows'[e] = rows[e]
  <2> DEFINE e == T!Current(g)
             got == heals[g].got
  <2>1. heals[g].pc \in HealPc /\ rows' = IF T!There(e) THEN [rows EXCEPT ![e] = got] ELSE rows
    BY <1>1 DEF T!WriteHealed, T!UpdateTranslations, HealPc
  <2>2. e \in T!Category /\ got \in OwnText(e)
    BY <2>1, AtItsRow DEF AtRow, Locals
  <2>3. got \notin NoRow
    BY <2>2, RowsAreRows
  <2>4. CASE T!There(e)
    <3>1. rows' = [rows EXCEPT ![e] = got]
      BY <2>1, <2>4
    <3> HIDE DEF e, got
    <3>2. rows'[e] = got /\ \A d \in T!Category : d # e => rows'[d] = rows[d]
      BY <2>2, <3>1, RowMoves
    <3>3. QED
      BY <1>1, <2>2, <2>3, <2>4, <3>2 DEF e, got
  <2>5. QED
    BY <2>1, <2>4
<1>2. ASSUME NEW g \in Healers, T!Step(g) \/ T!List(g) \/ T!DbFails(g)
                \/ \E i \in DOMAIN Listed : T!Create(g, i)
      PROVE  \/ UNCHANGED rows \/ T!Insert(g)
             \/ T!WriteHealed(g) /\ heals[g].got # T!Empty
  BY <1>2 DEF T!Step, T!List, T!DbFails, T!Create, T!healTranslations, T!NoRequest,
              T!Translate, T!resetCircuit, T!tripCircuit, T!WriteHealed
<1>3. ASSUME NEW g \in Healers, T!Insert(g)
      PROVE  /\ rows[c] = Gone => rows'[c] = Gone
             /\ T!There(c) => rows'[c] = rows[c]
  BY <1>0, <1>3, InsertKeepsNames DEF T!There
<1>4. ASSUME NEW e \in T!Category, T!Delete(e)
      PROVE  rows'[c] \in {rows[c], Gone}
  BY <1>4, DeleteKeepsNames
<1>5. ASSUME T!CooldownEnds \/ T!Restart \/ T!EndpointDown \/ T!EndpointUp
      PROVE  UNCHANGED rows
  BY <1>5 DEF T!CooldownEnds, T!Restart, T!EndpointDown, T!EndpointUp
<1>6. \/ rows'[c] \in {rows[c], Gone}
      \/ /\ rows[c] = Gone => rows'[c] = Gone
         /\ T!There(c) => rows'[c] = rows[c]
      \/ T!There(c) /\ rows'[c] \notin NoRow \cup {T!Empty}
  BY <1>1, <1>2, <1>3, <1>4, <1>5 DEF T!Next
<1>7. QED
  BY <1>0, <1>6 DEF NoRow, T!There

\* A step of this part, or one of the others', is a step of Translations or none.
LEMMA NamesMove == [FeedsNext]_all => [T!Next]_T!vars
BY DEF FeedsNext, all, tVars, T!vars

\* Whatever heals with old lists write, a translation is its row's and its
\* language's (UpdateTranslations in healTranslations).
THEOREM NamesAlwaysOwn == FeedsSpec => []T!NamesOwn
<1>1. FeedsInit => NameInv
  BY NameInvInit DEF FeedsInit
<1>2. NameInv => T!NamesOwn
  BY DEF NameInv, RowsType, NoRow, OwnText, T!NamesOwn, T!There
<1>3. QED
  BY <1>1, <1>2, NamesMove, NameInvStep, PTL DEF FeedsSpec

\* No row is made twice or comes back, and a translated row is never left without
\* a translation, whoever fails (healTranslations stops, category.go:51-55).
THEOREM NamesStayKept == FeedsSpec => T!NamesKept
<1>1. FeedsInit => NameInv
  BY NameInvInit DEF FeedsInit
<1>2. NameInv /\ [T!Next]_T!vars =>
        [\A c \in T!Category :
            /\ rows[c] = Gone => rows'[c] = Gone
            /\ T!There(c) => rows'[c] # Unmade
            /\ T!There(c) /\ rows[c] # T!Empty => rows'[c] # T!Empty]_T!vars
  BY RowsStep
<1>3. QED
  BY <1>1, <1>2, NamesMove, NameInvStep, PTL DEF FeedsSpec, T!NamesKept

=============================================================================
