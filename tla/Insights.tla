------------------------------ MODULE Insights ------------------------------
(***************************************************************************)
(* The advisor's insights (internal/service/advisor, Insights): read from  *)
(* Redis, or computed from the user's transactions by a language model and *)
(* kept for an hour. The gate, the currency, the cache, the transactions   *)
(* and the model are read one after the other, while the user records      *)
(* transactions, changes currency and plan, and asks again elsewhere.      *)
(***************************************************************************)
EXTENDS Naturals

CONSTANTS
    User, Currency,
    Goroutine,   \* requests served at one time
    None,        \* no entry
    Ttl,         \* insightsCacheTTL, in ticks
    LastTick,    \* bound: end of the clock
    MaxChanges,  \* bound: changes of currency and of plan
    MaxFaults    \* bound: reads, writes and answers that fail

Plan == {"free", "pro"}

VARIABLES
    now,
    plan, base, \* of each user: plan and base_currency
    cached,     \* cached[u, c]: the entry advisor:insights:u:c
    go,         \* go[g]: where a request is, with its locals
    changes, faults

vars == <<now, plan, base, cached, go, changes, faults>>

Idle == [pc |-> "idle"]

Init ==
    /\ now = 0
    /\ plan = [u \in User |-> "pro"]
    /\ base \in [User -> Currency]
    /\ cached = [k \in User \X Currency |-> None]
    /\ go = [g \in Goroutine |-> Idle]
    /\ changes = 0 /\ faults = 0

Goto(g, local) == go' = [go EXCEPT ![g] = local]
Fault == faults < MaxFaults /\ faults' = faults + 1
Users == <<plan, base, changes>>

-----------------------------------------------------------------------------
AllowsFelix(p) == p # "free"

\* The handler: who asks, for which currency, and whether the plan has Felix.
insights(g, u) ==
    /\ go[g] = Idle
    /\ AllowsFelix(plan[u])
    /\ Goto(g, [pc |-> "get", user |-> u, currency |-> base[u]])
    /\ UNCHANGED <<now, Users, cached, faults>>

\* Slip: one entry for each user.
cacheKeyOfUser(u, c) == <<u, CHOOSE d \in Currency : TRUE>>

cacheKey(u, c) == <<u, c>>

Entry(l) == cached[cacheKey(l.user, l.currency)]

Hit(g) ==
    /\ go[g].pc = "get"
    /\ Entry(go[g]) # None /\ now < Entry(go[g]).expires
    /\ Goto(g, [pc |-> "reply", user |-> go[g].user, currency |-> go[g].currency,
                text |-> Entry(go[g]).text])
    /\ UNCHANGED <<now, Users, cached, faults>>

\* No entry, or Redis fails, or it does not decode: the data is read.
buildSummary(g) ==
    /\ go[g].pc = "get"
    /\ IF Entry(go[g]) = None \/ now >= Entry(go[g]).expires THEN UNCHANGED faults ELSE Fault
    /\ Goto(g, [pc |-> "llm", user |-> go[g].user, currency |-> go[g].currency,
                text |-> [user |-> go[g].user, currency |-> go[g].currency, read |-> now]])
    /\ UNCHANGED <<now, Users, cached>>

\* The model answers, and its answer is kept.
Chat(g) ==
    /\ go[g].pc = "llm"
    /\ cached' = [cached EXCEPT ![cacheKey(go[g].user, go[g].currency)] =
                    [text |-> go[g].text, expires |-> now + Ttl]]
    /\ Goto(g, [go[g] EXCEPT !.pc = "reply"])
    /\ UNCHANGED <<now, Users, faults>>

\* A failed write to Redis is ignored.
SetFails(g) ==
    /\ Fault
    /\ go[g].pc = "llm"
    /\ Goto(g, [go[g] EXCEPT !.pc = "reply"])
    /\ UNCHANGED <<now, Users, cached>>

\* The database or the model fails: 503, and nothing is kept.
ChatFails(g) ==
    /\ Fault
    /\ go[g].pc = "llm"
    /\ Goto(g, Idle)
    /\ UNCHANGED <<now, Users, cached>>

Reply(g) ==
    /\ go[g].pc = "reply"
    /\ Goto(g, Idle)
    /\ UNCHANGED <<now, Users, cached, faults>>

-----------------------------------------------------------------------------
Change == changes < MaxChanges /\ changes' = changes + 1

UpdateBaseCurrency(u, c) == Change /\ base' = [base EXCEPT ![u] = c]
                            /\ UNCHANGED <<now, plan, cached, go, faults>>

ChangePlan(u, p) == Change /\ plan' = [plan EXCEPT ![u] = p]
                    /\ UNCHANGED <<now, base, cached, go, faults>>

\* The model has 90 seconds, so a request is with it across one tick at most; an
\* answer goes out at once.
Tick ==
    /\ now < LastTick /\ now' = now + 1
    /\ \A g \in Goroutine : go[g].pc # "reply" /\ (go[g].pc = "llm" => go[g].text.read = now)
    /\ UNCHANGED <<Users, cached, go, faults>>

Step(g) == Hit(g) \/ buildSummary(g) \/ Chat(g) \/ SetFails(g) \/ ChatFails(g) \/ Reply(g)

Next ==
    \/ \E g \in Goroutine : Step(g) \/ \E u \in User : insights(g, u)
    \/ \E u \in User, c \in Currency : UpdateBaseCurrency(u, c)
    \/ \E u \in User, p \in Plan : ChangePlan(u, p)
    \/ Tick

\* What a user is shown was said about that user's own data, in the currency the
\* request was for, and was read at most the entry's hour and the model's time
\* ago, whatever is cached by other requests meanwhile (advisor.go:106-113).
InsightsSound ==
    \A g \in Goroutine : go[g].pc = "reply" =>
        /\ go[g].text.user = go[g].user
        /\ go[g].text.currency = go[g].currency
        /\ now - go[g].text.read <= Ttl + 1
=============================================================================
