------------------------------ MODULE KeyCache ------------------------------
(***************************************************************************)
(* The public keys that tokens of Apple and Google are verified with, as   *)
(* pkg/appleauth and pkg/googleauth keep them: one map for each verifier,  *)
(* fetched whole when a key is missing or the map is an hour old, by the   *)
(* request that holds the verifier's mutex. The provider rotates its keys  *)
(* meanwhile. The two packages differ in the issuers they accept.          *)
(***************************************************************************)
EXTENDS Naturals

CONSTANTS
    Key,          \* ids of the provider's keys (kid)
    Goroutine,    \* sign-ins served at one time
    Issuers,      \* the issuers the verifier accepts: one of Apple's, two of Google's
    Nobody,       \* no holder, no such issuer
    Hour,         \* the age at which the map is fetched again, in ticks
    MaxRotations, \* bound: rotations of the provider's keys
    MaxFaults     \* bound: fetches that fail

\* Sound: signed with the key it names, for this audience, not expired, with a subject.
Token == [kid : Key, iss : Issuers \cup {Nobody}, sound : BOOLEAN]

VARIABLES
    live,     \* the keys the provider publishes
    since,    \* since[k]: ticks since k was retired, up to Hour; 0 while it is live
    keys,     \* Verifier.keys
    age,      \* ticks since Verifier.fetchedAt, up to Hour
    mu,       \* who holds Verifier.mu
    go,       \* go[g]: where a sign-in is
    rotations, faults

vars == <<live, since, keys, age, mu, go, rotations, faults>>

Idle == [pc |-> "idle"]

Init ==
    /\ \E k \in Key : live = {k}
    /\ since = [k \in Key |-> 0]
    /\ keys = {} /\ age = Hour     \* an empty map, and the zero time
    /\ mu = Nobody
    /\ go = [g \in Goroutine |-> Idle]
    /\ rotations = 0 /\ faults = 0

Goto(g, local) == go' = [go EXCEPT ![g] = local]
Provider == <<live, since, rotations>>

-----------------------------------------------------------------------------
(* The parser asks for the key before it looks at the claims, so that a     *)
(* token that will be refused can have the keys fetched as well.            *)

isValidIssuer(iss) == iss \in Issuers

Verify(g, token) ==
    /\ go[g] = Idle
    /\ Goto(g, [pc |-> "lock", kid |-> token.kid,
                good |-> token.sound /\ isValidIssuer(token.iss)])
    /\ UNCHANGED <<Provider, keys, age, mu, faults>>

\* What the claims make of a token whose key was found.
Claims(g) == IF go[g].good THEN "accepted" ELSE "refused"

-----------------------------------------------------------------------------
(* publicKey, under the mutex.                                             *)

Lock(g) ==
    /\ go[g].pc = "lock" /\ mu = Nobody
    /\ mu' = g
    /\ Goto(g, [go[g] EXCEPT !.pc = "look"])
    /\ UNCHANGED <<Provider, keys, age, faults>>

\* Slip: a key that is there is good.
FreshAlways(kid) == kid \in keys

Fresh(kid) == kid \in keys /\ age < Hour

publicKey(g) ==
    /\ go[g].pc = "look"
    /\ IF Fresh(go[g].kid)
       THEN Goto(g, [go[g] EXCEPT !.pc = Claims(g)]) /\ mu' = Nobody
       ELSE Goto(g, [go[g] EXCEPT !.pc = "fetch"]) /\ UNCHANGED mu
    /\ UNCHANGED <<Provider, keys, age, faults>>

\* The whole map is replaced; a key that does not parse is left out.
refreshKeysLocked(g) ==
    /\ go[g].pc = "fetch"
    /\ keys' = live /\ age' = 0
    /\ Goto(g, [go[g] EXCEPT !.pc = IF go[g].kid \in live THEN Claims(g) ELSE "refused"])
    /\ mu' = Nobody
    /\ UNCHANGED <<Provider, faults>>

\* The status is not looked at: an answer in JSON that is no key set empties the map.
EmptyAnswer(g) ==
    /\ go[g].pc = "fetch"
    /\ faults < MaxFaults /\ faults' = faults + 1
    /\ keys' = {} /\ age' = 0
    /\ Goto(g, [go[g] EXCEPT !.pc = "refused"]) /\ mu' = Nobody
    /\ UNCHANGED Provider

\* Slip: the mutex stays locked on the way out of the error.
FetchFailsLocked(g) ==
    /\ go[g].pc = "fetch"
    /\ faults < MaxFaults /\ faults' = faults + 1
    /\ Goto(g, [go[g] EXCEPT !.pc = "refused"])
    /\ UNCHANGED <<Provider, keys, age, mu>>

FetchFails(g) ==
    /\ go[g].pc = "fetch"
    /\ faults < MaxFaults /\ faults' = faults + 1
    /\ Goto(g, [go[g] EXCEPT !.pc = "refused"]) /\ mu' = Nobody
    /\ UNCHANGED <<Provider, keys, age>>

Answer(g) ==
    /\ go[g].pc \in {"accepted", "refused"}
    /\ Goto(g, Idle)
    /\ UNCHANGED <<Provider, keys, age, mu, faults>>

-----------------------------------------------------------------------------
(* The provider publishes another key, and retires one or keeps it a while. *)

Rotate(k) ==
    /\ rotations < MaxRotations /\ rotations' = rotations + 1
    /\ k \notin live
    /\ \E old \in SUBSET live : live' = {k} \cup old
    /\ since' = [since EXCEPT ![k] = 0]
    /\ UNCHANGED <<keys, age, mu, go, faults>>

Tick ==
    /\ age' = IF age < Hour THEN age + 1 ELSE age
    /\ since' = [k \in Key |-> IF k \in live THEN 0
                               ELSE IF since[k] < Hour THEN since[k] + 1 ELSE Hour]
    /\ age' # age \/ since' # since
    /\ UNCHANGED <<live, keys, mu, go, rotations, faults>>

Fetch(g)  == refreshKeysLocked(g) \/ EmptyAnswer(g) \/ FetchFails(g)
SignIn(g) == publicKey(g) \/ Fetch(g) \/ Answer(g)

Next ==
    \/ \E g \in Goroutine : SignIn(g) \/ Lock(g) \/ \E token \in Token : Verify(g, token)
    \/ \E k \in Key : Rotate(k)
    \/ Tick

\* A retired key verifies tokens for less than an hour longer, although other
\* sign-ins keep fetching and the map is shared (appleauth.go:78).
RetiredKeysExpire ==
    [][\A g \in Goroutine :
        (go[g].pc # "accepted" /\ go'[g].pc = "accepted") => since[go[g].kid] < Hour]_vars

\* As long as fetches end, every sign-in does, and none keeps the mutex
\* (googleauth.go:89: the fetch itself has no timeout).
SignInEnds == \A g \in Goroutine : (go[g].pc # "idle") ~> (go[g].pc = "idle")
=============================================================================
