------------------------------ MODULE Accounts ------------------------------
(***************************************************************************)
(* What sign-up, sign-in and the profile page promise, without statements, *)
(* goroutines or indexes: whoever proves an identity is one user, the same *)
(* for ever, and only what that user saves changes the user's settings.    *)
(***************************************************************************)
CONSTANTS
    User,
    Identity,  \* what can be proved at a sign-in: records with fields by and key
    Nobody,    \* the identity of a user who does not exist
    Setting,
    Valid,     \* Valid[c]: the values of setting c
    Default

VARIABLES
    identity,  \* identity[u]: who u is, or Nobody
    settings,  \* settings[u][c]
    tokens     \* <<i, u>>: whoever proved i holds an access token of u

vars == <<identity, settings, tokens>>

Init ==
    /\ identity = [u \in User |-> Nobody]
    /\ settings = [u \in User |-> [c \in Setting |-> Default]]
    /\ tokens = {}

\* A subject of Apple or Google is taken once, and so is an address with a
\* password, whatever the password.
Free(i) ==
    \A u \in User : identity[u] # Nobody => identity[u].by # i.by \/ identity[u].key # i.key

Admit(i, u) == tokens' = tokens \cup {<<i, u>>}

Register(i) ==
    /\ Free(i)
    /\ \E u \in User :
        /\ identity[u] = Nobody
        /\ identity' = [identity EXCEPT ![u] = i]
        /\ Admit(i, u)
    /\ UNCHANGED settings

Enter(i) ==
    /\ \E u \in User : identity[u] = i /\ Admit(i, u)
    /\ UNCHANGED <<identity, settings>>

Configure(u, c) ==
    /\ identity[u] # Nobody
    /\ \E v \in Valid[c] : settings' = [settings EXCEPT ![u][c] = v]
    /\ UNCHANGED <<identity, tokens>>

Next ==
    \/ \E i \in Identity : Register(i) \/ Enter(i)
    \/ \E u \in User, c \in Setting : Configure(u, c)

Spec == Init /\ [][Next]_vars

=============================================================================
