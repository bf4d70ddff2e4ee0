---------------------------- MODULE Translations ----------------------------
(***************************************************************************)
(* The translated names of categories. Every list request starts a         *)
(* goroutine that heals what is not translated yet, from the list it was   *)
(* given (internal/service/category), through an endpoint behind a circuit *)
(* breaker that all of them share (pkg/translate). Two heals run at once,  *)
(* each with its own old list; a request may fail between the two          *)
(* languages of a name; a write sets both languages.                       *)
(***************************************************************************)
EXTENDS Integers, Sequences, FiniteSetsExt, Functions

CONSTANTS
    Listed,      \* ids of categories, a sequence: the order of the list
    Old,         \* those that predate translation
    Blank,       \* those whose name is nothing but blanks
    Goroutine,   \* goroutines that serve a request, or heal, at one time
    None,        \* NULL, and "": not translated
    Unmade, Gone, \* not created yet; deleted
    MaxFaults    \* bound: requests and statements that fail, restarts

Category == Range(Listed)
Lang     == {"uk", "en"}

VARIABLES
    rows,      \* rows[c]: name_uk and name_en, each a name and a language
    go,        \* go[g]: where a goroutine is, with its locals
    cooldown,  \* now is before cooldownUntil
    down,      \* the endpoint refuses everything
    faults

vars == <<rows, go, cooldown, down, faults>>

Idle == [pc |-> "idle"]
Empty == [l \in Lang |-> None]

Init ==
    /\ rows = [c \in Category |-> IF c \in Old THEN Empty ELSE Unmade]
    /\ go = [g \in Goroutine |-> Idle]
    /\ cooldown = FALSE /\ down = FALSE /\ faults = 0

Goto(g, local) == go' = [go EXCEPT ![g] = local]
Fault == faults < MaxFaults /\ faults' = faults + 1

There(c) == rows[c] \notin {Unmade, Gone}

\* What the endpoint answers when it answers.
Translated(c, l) == [of |-> c, in |-> l]

\* The row a goroutine is at: of those it has to do, the first in the list.
Current(g) == Listed[Min(go[g].todo)]
Rest(g)    == go[g].todo \ {Min(go[g].todo)}

-----------------------------------------------------------------------------
(* The category service.                                                   *)

\* Slip: a row that has one of its languages is taken for done.
NeedsHealNone(c) == There(c) /\ rows[c] = Empty

NeedsHeal(c) == There(c) /\ \E l \in Lang : rows[c][l] = None

\* List answers at once and leaves the list to healTranslations.
List(g) ==
    /\ go[g] = Idle
    /\ Goto(g, [pc |-> "next", todo |-> {i \in DOMAIN Listed : NeedsHeal(Listed[i])}])
    /\ UNCHANGED <<rows, cooldown, down, faults>>

healTranslations(g) ==
    /\ go[g].pc = "next"
    /\ Goto(g, IF go[g].todo = {} THEN Idle
               ELSE [pc |-> "uk", todo |-> go[g].todo, got |-> Empty, new |-> FALSE])
    /\ UNCHANGED <<rows, cooldown, down, faults>>

\* Create translates the name before it inserts the row.
Create(g, i) ==
    /\ go[g] = Idle
    /\ rows[Listed[i]] = Unmade
    /\ \A h \in Goroutine : go[h] # Idle => i \notin go[h].todo
    /\ Goto(g, [pc |-> "uk", todo |-> {i}, got |-> Empty, new |-> TRUE])
    /\ UNCHANGED <<rows, cooldown, down, faults>>

Delete(c) ==
    /\ There(c) /\ c \notin Old
    /\ rows' = [rows EXCEPT ![c] = Gone]
    /\ UNCHANGED <<go, cooldown, down, faults>>

-----------------------------------------------------------------------------
(* Translate, twice for each name.                                         *)

\* translateBoth: uk, then en, then what the caller does with them.
After(g, l, text) ==
    Goto(g, [go[g] EXCEPT !.got[l] = text, !.pc = IF l = "uk" THEN "en" ELSE "write"])

circuitOpen == cooldown

\* Nothing to translate, or no request while the circuit is open.
NoRequest(g) ==
    /\ go[g].pc \in Lang
    /\ Current(g) \in Blank \/ circuitOpen
    /\ After(g, go[g].pc, None)
    /\ UNCHANGED <<rows, cooldown, down, faults>>

Translate(g) ==
    /\ go[g].pc \in Lang
    /\ Current(g) \notin Blank /\ ~circuitOpen
    /\ Goto(g, [go[g] EXCEPT !.pc = IF @ = "uk" THEN "ask uk" ELSE "ask en"])
    /\ UNCHANGED <<rows, cooldown, down, faults>>

Asked(g) == IF go[g].pc = "ask uk" THEN "uk" ELSE "en"

\* Status 200 closes the circuit, whoever opened it since the request left.
resetCircuit(g) ==
    /\ go[g].pc \in {"ask uk", "ask en"}
    /\ ~down
    /\ cooldown' = FALSE
    /\ \/ /\ After(g, Asked(g), Translated(Current(g), Asked(g)))
          /\ UNCHANGED faults
       \/ After(g, Asked(g), None) /\ Fault    \* 200, and no text to be found in it
    /\ UNCHANGED <<rows, down>>

\* A timeout, the heal's ten seconds, or any other status.
tripCircuit(g) ==
    /\ go[g].pc \in {"ask uk", "ask en"}
    /\ IF down THEN UNCHANGED faults ELSE Fault
    /\ cooldown' = TRUE
    /\ After(g, Asked(g), None)
    /\ UNCHANGED <<rows, down>>

-----------------------------------------------------------------------------

\* Both columns, whatever was there.
UpdateTranslations(c, got) ==
    rows' = IF There(c) THEN [rows EXCEPT ![c] = got] ELSE rows

\* Of a row that was to be healed: stop for good if nothing came back.
WriteHealed(g) ==
    /\ go[g].pc = "write"
    /\ ~go[g].new
    /\ IF go[g].got = Empty
       THEN Goto(g, Idle) /\ UNCHANGED rows
       ELSE /\ UpdateTranslations(Current(g), go[g].got)
            /\ Goto(g, [pc |-> "next", todo |-> Rest(g)])
    /\ UNCHANGED <<cooldown, down, faults>>

\* Of a row that was to be created.
Insert(g) ==
    /\ go[g].pc = "write"
    /\ go[g].new
    /\ rows' = [rows EXCEPT ![Current(g)] = go[g].got]
    /\ Goto(g, Idle)
    /\ UNCHANGED <<cooldown, down, faults>>

\* A failed UPDATE is ignored; a failed INSERT ends the request.
DbFails(g) ==
    /\ Fault
    /\ go[g].pc = "write"
    /\ Goto(g, IF go[g].new \/ go[g].got = Empty THEN Idle
               ELSE [pc |-> "next", todo |-> Rest(g)])
    /\ UNCHANGED <<rows, cooldown, down>>

CooldownEnds ==
    /\ cooldown /\ cooldown' = FALSE
    /\ UNCHANGED <<rows, go, down, faults>>

\* The breaker is in memory.
Restart ==
    /\ Fault
    /\ go' = [g \in Goroutine |-> Idle]
    /\ cooldown' = FALSE
    /\ UNCHANGED <<rows, down>>

EndpointDown ==
    /\ ~down /\ down' = TRUE /\ Fault
    /\ UNCHANGED <<rows, go, cooldown>>

EndpointUp ==
    /\ down /\ down' = FALSE
    /\ UNCHANGED <<rows, go, cooldown, faults>>

-----------------------------------------------------------------------------
Step(g) ==
    \/ healTranslations(g)
    \/ NoRequest(g) \/ Translate(g) \/ resetCircuit(g) \/ tripCircuit(g)
    \/ WriteHealed(g) \/ Insert(g)

Next ==
    \/ \E g \in Goroutine : Step(g) \/ List(g) \/ DbFails(g) \/ \E i \in DOMAIN Listed : Create(g, i)
    \/ \E c \in Category : Delete(c)
    \/ CooldownEnds \/ Restart \/ EndpointDown \/ EndpointUp

\* A row of the list is reached by heals if no blank name is before it: one
\* translates to nothing, as if the endpoint were down, and ends every heal.
Reached(i) == \A j \in 1..i : Listed[j] \notin Blank \/ ~There(Listed[j])

\* A translation is the one of its row and its language, whichever goroutine wrote
\* it from whichever list (UpdateTranslations in healTranslations).
NamesOwn ==
    \A c \in Category : There(c) =>
        \A l \in Lang : rows[c][l] \in {None, Translated(c, l)}

\* Nothing is made twice, a heal with an old list brings no deleted row back, and
\* a row that has a translation never loses both, whoever fails
\* (category.go:51-55, where the heal stops).
NamesKept ==
    [][\A c \in Category :
        /\ rows[c] = Gone => rows'[c] = Gone
        /\ There(c) => rows'[c] # Unmade
        /\ There(c) /\ rows[c] # Empty => rows'[c] # Empty]_vars

\* Every row a heal can reach ends up with both translations, and keeps them,
\* although heals with old lists run at once, stop at the first failure and
\* write half of what they should over a whole (category.go:43-57).
HealCompletes ==
    <>[](\A i \in DOMAIN Listed : (There(Listed[i]) /\ Reached(i)) =>
        \A l \in Lang : rows[Listed[i]][l] = Translated(Listed[i], l))
=============================================================================
