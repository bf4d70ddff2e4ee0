------------------------------- MODULE Ledger -------------------------------
(***************************************************************************)
(* Transactions and categories: internal/service/transaction,              *)
(* internal/service/category, the CSV import and export of                 *)
(* internal/service/reports, the retention job, and the two tables they    *)
(* share. A request checks a category in one statement and writes in       *)
(* another; an import is a long row of such requests with a cache of       *)
(* category ids; the retention job deletes under all of them.              *)
(* (Translations of the names are in module Translations, the bank's       *)
(* imports in MonobankSync.)                                               *)
(***************************************************************************)
EXTENDS Integers, Sequences, FiniteSets

CONSTANTS
    User,         \* ids of rows of the users table
    Thread,       \* goroutines that can be serving a request at one time
    CategoryId,   \* ids the categories table can give out
    TxId,         \* ids the transactions table can give out
    Name,         \* names of categories, as users and files spell them
    Fold,         \* Fold[n]: n without its outer blanks, in lower case
    Amount,       \* amounts, as decimals
    Seeded,       \* the default categories of the migration: id -> row
    None,         \* uuid.Nil, NULL, "" and no row
    Malformed,    \* a request whose body, ids or dates do not parse
    File,         \* CSV files that users import: sequences of rows
    Body,         \* what requests for a transaction say
    Category,     \* and those for a category: name and type, or Malformed
    Dates,        \* dates in them, and in files
    FreeDays,     \* days of history the free plan keeps,
    ProDays,      \* and the pro plan
    FirstOfMonth, \* the date an export starts from when it is asked for none
    Sold,         \* plans that users change to
    LastDay,      \* bound: last day of the clock
    MaxChanges,   \* bound: changes of a plan
    MaxFaults     \* bound: statements that fail, and restarts

Type == {"expense", "income"}
Plan == {"free", "pro", "max", "enterprise"}

CategoryRow == [owner : User \cup {None}, name : Name, type : Type]
TxRow == [owner : User, category : CategoryId \cup {None}, amount : Amount,
          type : Type, date : Dates, row : Name \cup {None}]

\* What a row of a file says; None where a field is empty or does not parse.
FileRow == [type : STRING, category : Name \cup {None}, amount : Amount \cup {None},
            date : Dates \cup {None}]

ASSUME FoldAssumption == Fold \in [Name -> Name] /\ \A n \in Name : Fold[Fold[n]] = Fold[n]
ASSUME NoneAssumption ==
    /\ None \notin User \cup CategoryId \cup TxId \cup Name \cup Amount
    /\ Amount # {}
ASSUME SeededAssumption ==
    /\ DOMAIN Seeded \subseteq CategoryId
    /\ \A c \in DOMAIN Seeded : Seeded[c] \in [owner : {None}, name : Name, type : Type]
ASSUME RequestAssumption ==
    /\ Body \subseteq [category : CategoryId \cup {None}, amount : Amount \cup {""},
                      type : Type \cup {"transfer"}, date : Dates]
    /\ Category \subseteq [name : Name, type : Type \cup {"transfer"}]
ASSUME DatesAssumption == Dates \subseteq Int
ASSUME FileAssumption  == File \subseteq Seq(FileRow)
ASSUME SoldAssumption == Sold \subseteq Plan
ASSUME DaysAssumption == FirstOfMonth \in Int /\ FreeDays \in Nat /\ ProDays \in Nat /\ FreeDays <= ProDays
ASSUME LedgerBounds == LastDay \in Nat /\ MaxChanges \in Nat /\ MaxFaults \in Nat

VARIABLES
    cats,      \* cats[c]: a row of categories, or None
    txs,       \* txs[x]: a row of transactions, or None
    used,      \* ids given out before: a uuid is never given out again
    plan,      \* plan[u]: the plan column of the user's row
    thr,       \* thr[t]: where goroutine t is, with its locals
    sweep,     \* where the retention job is: "idle", or the plan it deletes for
    today, changes, faults

vars == <<cats, txs, used, plan, thr, sweep, today, changes, faults>>
env  == <<plan, sweep, today, changes>>

Idle == [pc |-> "idle"]

Init ==
    /\ cats = [c \in CategoryId |-> IF c \in DOMAIN Seeded THEN Seeded[c] ELSE None]
    /\ txs = [x \in TxId |-> None]
    /\ used = DOMAIN Seeded
    /\ plan = [u \in User |-> "free"]
    /\ thr = [t \in Thread |-> Idle]
    /\ sweep = "idle"
    /\ today = 0 /\ changes = 0 /\ faults = 0

Goto(t, local) == thr' = [thr EXCEPT ![t] = local]
Unmoved == UNCHANGED <<env, faults>>

-----------------------------------------------------------------------------
(* The statements.                                                         *)

CategoryGetByID(c) == {d \in CategoryId : d = c /\ cats[d] # None}

CategoryListForUser(u) == {c \in CategoryId : cats[c] # None /\ cats[c].owner \in {u, None}}

CategoryCreate(c, u, name, type) ==
    /\ c \notin used /\ used' = used \cup {c}
    /\ cats' = [cats EXCEPT ![c] = [owner |-> u, name |-> name, type |-> type]]

\* transactions.category_id REFERENCES categories ON DELETE SET NULL.
SetNull(c) ==
    txs' = [x \in TxId |-> IF txs[x] # None /\ txs[x].category = c
                           THEN [txs[x] EXCEPT !.category = None] ELSE txs[x]]

\* A default category has no owner.
CategoryDeleteForUser(c, u) ==
    /\ cats[c] # None /\ cats[c].owner = u
    /\ cats' = [cats EXCEPT ![c] = None]
    /\ SetNull(c)

\* The foreign key: an INSERT or UPDATE naming a category that is gone fails.
References(r) == r.category = None \/ CategoryGetByID(r.category) # {}

TransactionCreate(x, r) ==
    /\ x \notin used /\ used' = used \cup {x}
    /\ txs' = [txs EXCEPT ![x] = r]

TransactionUpdateForUser(x, u, r) ==
    txs' = IF txs[x] # None /\ txs[x].owner = u THEN [txs EXCEPT ![x] = r] ELSE txs

TransactionDeleteForUser(x, u) ==
    /\ txs[x] # None /\ txs[x].owner = u
    /\ txs' = [txs EXCEPT ![x] = None]

TransactionListForUser(u, from, to) ==
    {x \in TxId : txs[x] # None /\ txs[x].owner = u /\ txs[x].date \in from..to}

TransactionDeleteExpiredForPlan(p, cutoff) ==
    txs' = [x \in TxId |-> IF txs[x] # None /\ txs[x].date < cutoff /\ plan[txs[x].owner] = p
                           THEN None ELSE txs[x]]

-----------------------------------------------------------------------------
(* The transaction service. A refused request changes nothing.             *)

\* Slip: the owner of the category is not looked at.
AnyCategory(u, c) == c = None \/ CategoryGetByID(c) # {}

\* The category check of Create and Update.
MayUse(u, c) == \/ c = None
                \/ \E d \in CategoryGetByID(c) : cats[d].owner \in {None, u}

\* Slip: any type will do.
AcceptedAnyType(u, req) == req.amount \in Amount /\ MayUse(u, req.category)

Accepted(u, req) == req.type \in Type /\ req.amount \in Amount /\ MayUse(u, req.category)

RowOf(u, req, row) == [owner |-> u, category |-> req.category, amount |-> req.amount,
                       type |-> req.type, date |-> req.date, row |-> row]

Create(t, u, req) ==
    /\ thr[t] = Idle
    /\ Accepted(u, req)
    /\ Goto(t, [pc |-> "insert", row |-> RowOf(u, req, None), import |-> None])
    /\ UNCHANGED <<cats, txs, used>> /\ Unmoved

Update(t, u, x, req) ==
    /\ thr[t] = Idle
    /\ Accepted(u, req)
    /\ Goto(t, [pc |-> "update", id |-> x, row |-> RowOf(u, req, None)])
    /\ UNCHANGED <<cats, txs, used>> /\ Unmoved

FinishUpdate(t) ==
    /\ thr[t].pc = "update"
    /\ References(thr[t].row)
    /\ TransactionUpdateForUser(thr[t].id, thr[t].row.owner, thr[t].row)
    /\ Goto(t, Idle)
    /\ UNCHANGED <<cats, used>> /\ Unmoved

UpdateRefused(t) ==
    /\ thr[t].pc = "update"
    /\ ~References(thr[t].row)
    /\ Goto(t, Idle)
    /\ UNCHANGED <<cats, txs, used>> /\ Unmoved

Delete(u, x) ==
    /\ TransactionDeleteForUser(x, u)
    /\ UNCHANGED <<cats, used, thr>> /\ Unmoved

(* The category service: the names are translated before the one statement. *)
CreateCategory(u, name, type) ==
    /\ name \in Name /\ type \in Type
    /\ \E c \in CategoryId : CategoryCreate(c, u, name, type)
    /\ UNCHANGED <<txs, thr>> /\ Unmoved

DeleteCategory(u, c) ==
    /\ CategoryDeleteForUser(c, u)
    /\ UNCHANGED <<used, thr>> /\ Unmoved

-----------------------------------------------------------------------------
(* Import: rows of a file, one after the other, each through Create.       *)

\* The Ukrainian words, transliterated.
normalizeType(s) ==
    CASE s \in {"expense", "vytrata", "vytraty", "vydatok", "vydatky"} -> "expense"
      [] s \in {"income", "dokhid", "dokhod", "prybutok"}             -> "income"
      [] OTHER                                                         -> None

\* Slip: categories are told apart by their names only.
cacheKeyNameOnly(type, name) == Fold[name]

cacheKey(type, name) == <<type, Fold[name]>>

\* categoryCache: keys to ids. Where two categories share a key, the last one
\* listed stays; the order between equal names is the database's.
Caches(u) ==
    LET keys == {cacheKey(cats[c].type, cats[c].name) : c \in CategoryListForUser(u)} IN
    {f \in [keys -> CategoryListForUser(u)] :
        \A k \in keys : cacheKey(cats[f[k]].type, cats[f[k]].name) = k}

Import(t, u, file) ==
    /\ thr[t] = Idle
    /\ file # << >>
    /\ \E f \in Caches(u) :
        Goto(t, [pc |-> "row", user |-> u, rows |-> file, cache |-> f])
    /\ UNCHANGED <<cats, txs, used>> /\ Unmoved

\* On to the next row, or to the answer.
Rest(l) == IF Len(l.rows) = 1 THEN Idle
           ELSE [pc |-> "row", user |-> l.user, rows |-> Tail(l.rows), cache |-> l.cache]

Readable(r) == normalizeType(r.type) # None /\ r.date # None /\ r.amount \in Amount

Key(r)    == cacheKey(normalizeType(r.type), r.category)
Cached(l) == Head(l.rows).category = None \/ Key(Head(l.rows)) \in DOMAIN l.cache

\* A row that cannot be read, whose category is gone or cannot be created, or
\* whose INSERT fails, is skipped.
SkipRow(t) ==
    LET l == thr[t] r == Head(l.rows) IN
    /\ l.pc = "row"
    /\ \/ ~Readable(r)
       \/ /\ Readable(r) /\ Cached(l) /\ r.category # None
          /\ ~MayUse(l.user, l.cache[Key(r)])
    /\ Goto(t, Rest(l))
    /\ UNCHANGED <<cats, txs, used>> /\ Unmoved

\* An unknown category is created, and remembered for the rows that follow.
NewCategory(t) ==
    LET l == thr[t] r == Head(l.rows) IN
    /\ l.pc = "row"
    /\ Readable(r) /\ ~Cached(l)
    /\ \E c \in CategoryId :
        /\ CategoryCreate(c, l.user, r.category, normalizeType(r.type))
        /\ Goto(t, [l EXCEPT !.cache = [k \in DOMAIN @ \cup {Key(r)} |->
                                            IF k = Key(r) THEN c ELSE @[k]]])
    /\ UNCHANGED <<txs>> /\ Unmoved

CreateRow(t) ==
    LET l == thr[t] r == Head(l.rows)
        c == IF r.category = None THEN None ELSE l.cache[Key(r)]
        req == [category |-> c, amount |-> r.amount, type |-> normalizeType(r.type),
                date |-> r.date] IN
    /\ l.pc = "row"
    /\ Readable(r) /\ Cached(l)
    /\ Accepted(l.user, req)
    /\ Goto(t, [pc |-> "insert", row |-> RowOf(l.user, req, r.category), import |-> l])
    /\ UNCHANGED <<cats, txs, used>> /\ Unmoved

After(l) == IF l.import = None THEN Idle ELSE Rest(l.import)

\* The INSERT of Create, for a request or for a row of an import.
Insert(t) ==
    /\ thr[t].pc = "insert"
    /\ References(thr[t].row)
    /\ \E x \in TxId : TransactionCreate(x, thr[t].row)
    /\ Goto(t, After(thr[t]))
    /\ UNCHANGED <<cats>> /\ Unmoved

InsertRefused(t) ==
    /\ thr[t].pc = "insert"
    /\ ~References(thr[t].row)
    /\ Goto(t, After(thr[t]))
    /\ UNCHANGED <<cats, txs, used>> /\ Unmoved

-----------------------------------------------------------------------------
(* Export: the transactions, then the names of the categories.             *)

Export(t, u, from, to) ==
    /\ thr[t] = Idle
    /\ Goto(t, [pc |-> "names", user |-> u,
                rows |-> {<<x, txs[x].category>> : x \in TransactionListForUser(u, from, to)}])
    /\ UNCHANGED <<cats, txs, used>> /\ Unmoved

\* Slip: only the user's own categories are looked through.
NamesOfOwn(u, rows) ==
    {[id |-> r[1], category |-> r[2],
      name |-> IF r[2] # None /\ cats[r[2]] # None /\ cats[r[2]].owner = u
               THEN cats[r[2]].name ELSE None] : r \in rows}

NamesOf(u, rows) ==
    {[id |-> r[1], category |-> r[2],
      name |-> IF r[2] \in CategoryListForUser(u) THEN cats[r[2]].name ELSE None] : r \in rows}

FinishExport(t) ==
    /\ thr[t].pc = "names"
    /\ Goto(t, [pc |-> "file", rows |-> NamesOf(thr[t].user, thr[t].rows)])
    /\ UNCHANGED <<cats, txs, used>> /\ Unmoved

\* The file goes out.
Download(t) ==
    /\ thr[t].pc = "file"
    /\ Goto(t, Idle)
    /\ UNCHANGED <<cats, txs, used>> /\ Unmoved

-----------------------------------------------------------------------------
(* The retention job: one statement for each limited plan, over and over.  *)

Limited == <<"free", "pro">>

RetentionDays(p) == CASE p = "free" -> FreeDays [] p = "pro" -> ProDays [] OTHER -> None

SweepStarts ==
    /\ sweep = "idle" /\ sweep' = Limited[1]
    /\ UNCHANGED <<cats, txs, used, plan, thr, today, changes, faults>>

\* Slip: the sweep returns where it should go on to the next plan.
ThenReturn(p) == "idle"

Then(p) == IF p = Limited[1] THEN Limited[2] ELSE "idle"

sweepOnce ==
    /\ sweep # "idle" /\ sweep' = Then(sweep)
    /\ IF RetentionDays(sweep) = None THEN UNCHANGED txs
       ELSE TransactionDeleteExpiredForPlan(sweep, today - RetentionDays(sweep))
    /\ UNCHANGED <<cats, used, plan, thr, today, changes, faults>>

\* An error is logged, and the job goes on to the next plan.
SweepFails ==
    /\ faults < MaxFaults /\ faults' = faults + 1
    /\ sweep # "idle" /\ sweep' = Then(sweep)
    /\ UNCHANGED <<cats, txs, used, plan, thr, today, changes>>

-----------------------------------------------------------------------------
(* What else happens: statements fail, the server restarts in the middle   *)
(* of a request, plans change (module Billing), days pass.                 *)

DbFails(t) ==
    /\ thr[t] # Idle
    /\ faults < MaxFaults /\ faults' = faults + 1
    /\ Goto(t, CASE thr[t].pc = "insert" -> After(thr[t])
                 [] thr[t].pc = "row"    -> Rest(thr[t])
                 [] OTHER                -> Idle)
    /\ UNCHANGED <<cats, txs, used, env>>

Restart ==
    /\ faults < MaxFaults /\ faults' = faults + 1
    /\ thr' = [t \in Thread |-> Idle]
    /\ sweep' = "idle"
    /\ UNCHANGED <<cats, txs, used, plan, today, changes>>

ChangePlan(u, p) ==
    /\ changes < MaxChanges /\ changes' = changes + 1
    /\ plan' = [plan EXCEPT ![u] = p]
    /\ UNCHANGED <<cats, txs, used, thr, sweep, today, faults>>

NextDay ==
    /\ today < LastDay /\ today' = today + 1
    /\ UNCHANGED <<cats, txs, used, plan, thr, sweep, changes, faults>>

-----------------------------------------------------------------------------
(* The two transports. REST passes the type on as text, gRPC as an         *)
(* enumeration with a value for "not set"; gRPC has no update, no import   *)
(* and no export.                                                          *)

transactionTypeFromProto(x) == IF x = "INCOME" THEN "income" ELSE "expense"

FromProto(req, x) == [req EXCEPT !.type = transactionTypeFromProto(x)]

create(t, u, req)    == req # Malformed /\ Create(t, u, req)
update(t, u, x, req) == x # Malformed /\ req # Malformed /\ Update(t, u, x, req)
delete(u, x)         == x # Malformed /\ Delete(u, x)

TransactionController(t, u) ==
    \/ \E req \in Body \cup {Malformed}, x \in {"EXPENSE", "INCOME", "UNSPECIFIED"} :
        req # Malformed /\ Create(t, u, FromProto(req, x))
    \/ \E x \in TxId \cup {Malformed} : x # Malformed /\ Delete(u, x)

createCategory(u, req) == req # Malformed /\ CreateCategory(u, req.name, req.type)
deleteCategory(u, c)   == c # Malformed /\ DeleteCategory(u, c)

CategoryController(u) ==
    \/ \E req \in Category \cup {Malformed}, x \in {"EXPENSE", "INCOME", "UNSPECIFIED"} :
        req # Malformed /\ CreateCategory(u, req.name, transactionTypeFromProto(x))
    \/ \E c \in CategoryId \cup {Malformed} : c # Malformed /\ DeleteCategory(u, c)

\* A bound that is missing or does not parse is the month's first day, or now.
export(t, u, from, to) ==
    Export(t, u, IF from \in Dates THEN from ELSE FirstOfMonth,
                 IF to \in Dates THEN to ELSE today)

importCSV(t, u, file) == file # Malformed /\ Import(t, u, file)

Web(t, u) ==
    \/ \E req \in Body \cup {Malformed} :
        create(t, u, req) \/ \E x \in TxId \cup {Malformed} : update(t, u, x, req)
    \/ \E x \in TxId \cup {Malformed} : delete(u, x)
    \/ \E req \in Category \cup {Malformed} : createCategory(u, req)
    \/ \E c \in CategoryId \cup {Malformed} : deleteCategory(u, c)
    \/ \E file \in File \cup {Malformed} : importCSV(t, u, file)
    \/ \E from, to \in Dates \cup {Malformed} : export(t, u, from, to)

Step(t) ==
    \/ Insert(t) \/ InsertRefused(t) \/ FinishUpdate(t) \/ UpdateRefused(t)
    \/ SkipRow(t) \/ NewCategory(t) \/ CreateRow(t)
    \/ FinishExport(t) \/ Download(t)
    \/ DbFails(t)

Sweep == SweepStarts \/ sweepOnce

Next ==
    \/ \E t \in Thread : Step(t) \/ \E u \in User : Web(t, u) \/ TransactionController(t, u)
    \/ \E u \in User : CategoryController(u)
    \/ Sweep \/ SweepFails
    \/ Restart
    \/ \E u \in User, p \in Sold : ChangePlan(u, p)
    \/ NextDay

Spec == Init /\ [][Next]_vars

\* The job's goroutine, started again with the server, waits for its ticker and runs
\* its statements; nobody else owes anything.
FairSpec == Spec /\ WF_vars(Sweep)

-----------------------------------------------------------------------------
TypeOK ==
    /\ cats \in [CategoryId -> CategoryRow \cup {None}]
    /\ txs \in [TxId -> TxRow \cup {None}]
    /\ used \subseteq CategoryId \cup TxId
    /\ plan \in [User -> Plan]
    /\ sweep \in {"idle", "free", "pro"}
    /\ today \in 0..LastDay /\ changes \in 0..MaxChanges /\ faults \in 0..MaxFaults

\* A transaction's category is there, and is its user's own or a default one,
\* although the check and the write are two statements (Create, Update, Import's
\* cache of ids), and categories are deleted in between.
CategoryVisible ==
    \A x \in TxId : (txs[x] # None /\ txs[x].category # None) =>
        /\ cats[txs[x].category] # None
        /\ cats[txs[x].category].owner \in {None, txs[x].owner}

\* An imported row lies under a category of its own name and type, or, once that
\* is deleted, under none (reports.go:153-165: categoryCache by type and name).
ImportFiled ==
    \A x \in TxId : (txs[x] # None /\ txs[x].row # None /\ txs[x].category # None) =>
        /\ cats[txs[x].category].type = txs[x].type
        /\ Fold[cats[txs[x].category].name] = Fold[txs[x].row]

\* An exported row names the category its transaction was read with, unless that
\* was deleted before the names were read: no category appears under another's
\* name, and none that is still there is missing.
ExportNamed ==
    \A t \in Thread : thr[t].pc = "file" =>
      \A r \in thr[t].rows : (r.category # None /\ cats[r.category] # None) =>
        r.name = cats[r.category].name

\* Days of history each plan is sold with (plan.go:23-25).
Kept(p) == CASE p = "free" -> FreeDays [] p = "pro" -> ProDays [] OTHER -> None

Overdue(x) ==
    /\ txs[x] # None
    /\ Kept(plan[txs[x].owner]) # None
    /\ txs[x].date < today - Kept(plan[txs[x].owner])

\* What is overdue goes in the end, or stops being overdue because its user or its
\* plan changed: no row outlives every sweep, although plans change and days pass
\* between the statements of a sweep, a statement fails, and the server restarts in
\* the middle (sweepOnce goes on after an error, Run sweeps at every start and tick).
OverdueGoes == \A x \in TxId : Overdue(x) ~> ~Overdue(x)
=============================================================================
