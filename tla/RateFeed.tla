------------------------------ MODULE RateFeed ------------------------------
(***************************************************************************)
(* Exchange rates: internal/ratesync fetches the National Bank's rates of  *)
(* the moment and stores them one by one in Redis; repository/rate.go      *)
(* fetches the rates of a past day on demand and keeps them for ever; where *)
(* the bank has none for a day, the rates of the moment are kept instead.  *)
(* A rate is modelled by the day whose rate it is.                         *)
(***************************************************************************)
EXTENDS Naturals

CONSTANTS
    Code,        \* codes of currencies in the bank's answers
    Supported,   \* those the app keeps (UAH, which is always 1, is left out)
    Goroutine,   \* goroutines that serve /api/rates/history at one time
    None,        \* no rate, no entry
    LastDay,     \* bound: last day of the clock
    MaxFaults    \* bound: requests and statements that fail, restarts

Day == 0..LastDay

VARIABLES
    today,
    published, \* days whose rates the bank has published
    rates,     \* the hash exchange_rates: the day of each currency's rate
    history,   \* history[d]: the entry rate_history:d
    sync,      \* where the syncer is, with its locals
    go,        \* go[g]: where a history request is, with its locals
    early,     \* days that were asked for before they were published
    faults

vars == <<today, published, rates, history, sync, go, early, faults>>

Idle    == [pc |-> "idle"]
Waiting == [pc |-> "wait"]

Init ==
    /\ today = 0 /\ published = {0}
    /\ rates = [c \in Supported |-> None]
    /\ history = [d \in Day |-> None]
    /\ sync = Waiting
    /\ go = [g \in Goroutine |-> Idle]
    /\ early = {}
    /\ faults = 0

Fault == faults < MaxFaults /\ faults' = faults + 1
Goto(g, local) == go' = [go EXCEPT ![g] = local]

\* Rates of the moment are those of the last day published.
Latest == CHOOSE d \in published : \A e \in published : e <= d

-----------------------------------------------------------------------------
(* The syncer: one goroutine, from tick to tick.                           *)

Calendar == <<today, published, history, go, early>>

Tick ==
    /\ sync = Waiting
    /\ sync' = [pc |-> "asked"]
    /\ UNCHANGED <<Calendar, rates, faults>>

fetchAndStore ==
    /\ sync.pc = "asked"
    /\ sync' = [pc |-> "store", day |-> Latest, todo |-> Code]
    /\ UNCHANGED <<Calendar, rates, faults>>

\* No answer, another status, or nothing that decodes.
FetchFails ==
    /\ Fault
    /\ sync.pc = "asked" /\ sync' = Waiting
    /\ UNCHANGED <<Calendar, rates>>

Upsert(c) == rates' = [rates EXCEPT ![c] = sync.day]

\* Slip: the first code that is not kept ends the loop.
StoreRateBreaks(c) ==
    /\ sync.pc = "store" /\ c \in sync.todo
    /\ IF c \in Supported
       THEN Upsert(c) /\ sync' = IF sync.todo = {c} THEN Waiting
                                 ELSE [sync EXCEPT !.todo = @ \ {c}]
       ELSE UNCHANGED rates /\ sync' = Waiting
    /\ UNCHANGED <<Calendar, faults>>

\* The bank's order of codes is its own.
StoreRate(c) ==
    /\ sync.pc = "store" /\ c \in sync.todo
    /\ IF c \in Supported THEN Upsert(c) ELSE UNCHANGED rates
    /\ sync' = IF sync.todo = {c} THEN Waiting ELSE [sync EXCEPT !.todo = @ \ {c}]
    /\ UNCHANGED <<Calendar, faults>>

\* An error leaves the rates stored so far.
StoreFails ==
    /\ Fault
    /\ sync.pc = "store" /\ sync' = Waiting
    /\ UNCHANGED <<Calendar, rates>>

-----------------------------------------------------------------------------
(* History.                                                                *)

Feed == <<today, published, rates, sync>>

HistoryAt(g, d) ==
    /\ go[g] = Idle
    /\ Goto(g, [pc |-> "get", date |-> d])
    /\ UNCHANGED <<Feed, history, early, faults>>

Cached(g) ==
    /\ go[g].pc = "get" /\ history[go[g].date] # None
    /\ Goto(g, [pc |-> "reply", date |-> go[g].date, rates |-> history[go[g].date]])
    /\ UNCHANGED <<Feed, history, early, faults>>

\* A miss; an error of Redis is taken for one.
Miss(g) ==
    /\ go[g].pc = "get"
    /\ IF history[go[g].date] = None THEN UNCHANGED faults ELSE Fault
    /\ Goto(g, [go[g] EXCEPT !.pc = "asked"])
    /\ UNCHANGED <<Feed, history, early>>

\* What is stored; an entry that does not decode would be left out.
List == {c \in Supported : rates[c] # None}

\* Slip: rates of the moment are preferred where there are any.
HistoricalRatesOfNow(d) ==
    [c \in Supported |-> IF rates[c] = None /\ d \in published THEN d ELSE rates[c]]

\* What is found for a day: its rates, or else those of the moment.
HistoricalRates(d) ==
    [c \in Supported |-> IF d \in published THEN d ELSE IF c \in List THEN rates[c] ELSE None]

Answer(g) ==
    /\ go[g].pc = "asked"
    /\ Goto(g, [pc |-> "set", date |-> go[g].date, rates |-> HistoricalRates(go[g].date)])
    /\ early' = early \cup ({go[g].date} \ published)
    /\ UNCHANGED <<Feed, history, faults>>

\* Neither those of the day nor, because Redis failed, those of the moment: the
\* result is kept all the same.
AnswerEmpty(g) ==
    /\ Fault
    /\ go[g].pc = "asked" /\ go[g].date \notin published
    /\ Goto(g, [pc |-> "set", date |-> go[g].date, rates |-> [c \in Supported |-> None]])
    /\ early' = early \cup {go[g].date}
    /\ UNCHANGED <<Feed, history>>

AnswerFails(g) ==
    /\ Fault
    /\ go[g].pc = "asked"
    /\ Goto(g, Idle)
    /\ UNCHANGED <<Feed, history, early>>

\* Without an expiry.
Set(g) ==
    /\ go[g].pc = "set"
    /\ history' = [history EXCEPT ![go[g].date] = go[g].rates]
    /\ Goto(g, [go[g] EXCEPT !.pc = "reply"])
    /\ UNCHANGED <<Feed, early, faults>>

SetFails(g) ==
    /\ Fault
    /\ go[g].pc = "set"
    /\ Goto(g, [go[g] EXCEPT !.pc = "reply"])
    /\ UNCHANGED <<Feed, history, early>>

Reply(g) ==
    /\ go[g].pc = "reply"
    /\ Goto(g, Idle)
    /\ UNCHANGED <<Feed, history, early, faults>>

-----------------------------------------------------------------------------
Publish ==
    /\ today \notin published
    /\ published' = published \cup {today}
    /\ UNCHANGED <<today, rates, history, sync, go, early, faults>>

\* Also past a day that the bank published nothing for.
NextDay ==
    /\ today < LastDay /\ today' = today + 1
    /\ UNCHANGED <<published, rates, history, sync, go, early, faults>>

Restart ==
    /\ Fault
    /\ sync' = Waiting
    /\ go' = [g \in Goroutine |-> Idle]
    /\ UNCHANGED <<today, published, rates, history, early>>

SyncStep == Tick \/ fetchAndStore \/ \E c \in Code : StoreRate(c)

\* The handler refuses a date that does not parse, and no other: a day to come
\* is asked for like any.
HistoryStep(g) ==
    \/ \E d \in Day : HistoryAt(g, d)
    \/ Cached(g) \/ Miss(g) \/ Answer(g) \/ AnswerEmpty(g) \/ AnswerFails(g)
    \/ Set(g) \/ SetFails(g) \/ Reply(g)

Next ==
    \/ SyncStep \/ FetchFails \/ StoreFails
    \/ \E g \in Goroutine : HistoryStep(g)
    \/ Publish \/ NextDay \/ Restart

\* Published rates reach the app, whatever failed on the way (ratesync.go:46-65:
\* "Run fetches rates immediately, then again every interval").
RatesFresh ==
    \A d \in Day : d \in published ~> \A c \in Supported : rates[c] # None /\ rates[c] >= d

\* A day that nobody asked for before it was published is answered with its own
\* rates, from the bank and from Redis (rate.go:106-109). A day that was asked
\* for earlier is answered with rates of another day, for ever.
HistoryTrue ==
    \A d \in Day \ early :
        /\ history[d] # None => history[d] = [c \in Supported |-> d]
        /\ \A g \in Goroutine : (go[g].pc = "reply" /\ go[g].date = d) =>
            go[g].rates = [c \in Supported |-> d]
=============================================================================
