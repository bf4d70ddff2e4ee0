-------------------------------- MODULE Feeds --------------------------------
(***************************************************************************)
(* Five parts of the server that share nothing: the translations of        *)
(* categories, the exchange rates, the verifiers' keys, the advisor's      *)
(* insights and its figures. In each behaviour one of them moves, so that  *)
(* their states add up and do not multiply. The figures' names are taken   *)
(* over as they are; each of the others is an instance.                    *)
(***************************************************************************)
EXTENDS Figures, Sequences

CONSTANTS
    Listed, Old, Blank, Healers, Unmade, Gone, HealFaults,
    Code, Supported, Readers, LastDay, RateFaults,
    Key, Issuers, Entrants, Hour, MaxRotations, KeyFaults,
    User, Currency, Askers, Ttl, LastTick, MaxChanges, InsightFaults

\* An hour and the life of insights are at least a tick and none.
ASSUME TicksAssumption == Hour \in Nat \ {0} /\ Ttl \in Nat

VARIABLES
    part, \* the one that moves
    rows, heals, cooldown, down, healFaults,
    clock, published, rates, history, sync, histories, early, rateFaults,
    live, since, keys, age, mu, signIns, rotations, keyFaults,
    now, plan, base, cached, insights, changes, insightFaults

T == INSTANCE Translations WITH
    Goroutine <- Healers, MaxFaults <- HealFaults, go <- heals, faults <- healFaults

R == INSTANCE RateFeed WITH
    Goroutine <- Readers, MaxFaults <- RateFaults, today <- clock,
    go <- histories, faults <- rateFaults

K == INSTANCE KeyCache WITH
    Goroutine <- Entrants, Nobody <- None, MaxFaults <- KeyFaults,
    go <- signIns, faults <- keyFaults

I == INSTANCE Insights WITH
    Goroutine <- Askers, MaxFaults <- InsightFaults, go <- insights, faults <- insightFaults

\* A category has one place in the list, and no row is a null value.
ASSUME ListedAssumption ==
    /\ Listed \in Seq(T!Category)
    /\ \A i, j \in DOMAIN Listed : Listed[i] = Listed[j] => i = j
    /\ Unmade # Gone
    /\ \A c \in T!Category :
        {Unmade, Gone} \cap [T!Lang -> {None} \cup {T!Translated(c, l) : l \in T!Lang}] = {}

tVars == <<rows, heals, cooldown, down, healFaults>>
rVars == <<clock, published, rates, history, sync, histories, early, rateFaults>>
kVars == <<live, since, keys, age, mu, signIns, rotations, keyFaults>>
iVars == <<now, plan, base, cached, insights, changes, insightFaults>>
all   == <<part, tVars, rVars, kVars, iVars, vars>>

\* A part that does not move has one initial state.
FeedsInit ==
    /\ T!Init /\ R!Init /\ K!Init /\ I!Init /\ Init
    /\ part \in {"translations", "rates", "keys", "insights", "figures"}
    /\ part # "keys" => live = {CHOOSE k \in Key : TRUE}
    /\ part # "insights" => base = [u \in User |-> CHOOSE d \in Currency : TRUE]
    /\ part # "figures" => moment = CHOOSE t \in Moments : TRUE

FeedsNext ==
    /\ UNCHANGED part
    /\ \/ part = "translations" /\ T!Next /\ UNCHANGED <<rVars, kVars, iVars, vars>>
       \/ part = "rates"        /\ R!Next /\ UNCHANGED <<tVars, kVars, iVars, vars>>
       \/ part = "keys"         /\ K!Next /\ UNCHANGED <<tVars, rVars, iVars, vars>>
       \/ part = "insights"     /\ I!Next /\ UNCHANGED <<tVars, rVars, kVars, vars>>
       \/ part = "figures"      /\ Next   /\ UNCHANGED <<tVars, rVars, kVars, iVars>>

\* A goroutine runs on, and requests for the list keep coming; the cooldown ends
\* and so does an outage; the syncer's ticker ticks; the mutex, which is fair in
\* the long run (sync.Mutex hands itself to a waiter after a millisecond), is had.
Fairness ==
    /\ \A g \in Healers : WF_tVars(part = "translations" /\ T!Step(g))
    /\ \A g \in Entrants :
        /\ WF_kVars(part = "keys" /\ K!SignIn(g))
        /\ SF_kVars(part = "keys" /\ K!Lock(g))
    /\ WF_tVars(part = "translations" /\ \E g \in Healers : T!List(g))
    /\ WF_tVars(part = "translations" /\ T!CooldownEnds)
    /\ WF_tVars(part = "translations" /\ T!EndpointUp)
    /\ WF_rVars(part = "rates" /\ R!SyncStep)

FeedsSpec == FeedsInit /\ [][FeedsNext]_all /\ Fairness

-----------------------------------------------------------------------------
\* Every row a heal can reach is translated in the end, and stays so, although
\* heals with old lists overwrite each other (internal/service/category, heals
\* started by List).
HealCompletes == part = "translations" => T!HealCompletes

\* Published rates reach the app, whatever fails on the way (ratesync, Run).
RatesFresh == part = "rates" => R!RatesFresh

\* A past day is answered with its own rates, unless it was asked for before they
\* were published (repository/rate.go, HistoricalRates).
HistoryTrue == R!HistoryTrue

\* A key the provider retired is trusted for less than an hour longer, whoever
\* fetched the keys meanwhile (appleauth and googleauth, publicKey).
RetiredKeysExpire == K!RetiredKeysExpire

\* Every sign-in ends, and none keeps the verifier's mutex (publicKey again).
SignInEnds == part = "keys" => K!SignInEnds

\* Insights shown are about the user who asked, in the currency asked for, and
\* not older than the cache allows (advisor, Insights).
InsightsSound == I!InsightsSound
=============================================================================
