---------------------------- MODULE LedgerProofs ----------------------------
(***************************************************************************)
(* Proofs about Ledger, for any users, goroutines, categories, files,      *)
(* plans and failures. What makes a check that is one statement old good   *)
(* enough is that a category never changes, its id is never given out      *)
(* again, and what is written under one that is gone is refused.           *)
(***************************************************************************)
EXTENDS Ledger, SequenceTheorems, TLAPS

-----------------------------------------------------------------------------
(* What a row, a cache or a local knows of the categories C, with U the    *)
(* ids that were given out.                                                *)

\* u may file under c, or c is gone.
Own(c, u, C, U) ==
    /\ c \in CategoryId /\ c \in U
    /\ C[c] # None => C[c].owner \in {None, u}

RowFine(r, C, U) ==
    /\ r \in TxRow
    /\ r.category # None =>
        /\ Own(r.category, r.owner, C, U)
        /\ (C[r.category] # None /\ r.row # None) =>
            C[r.category].type = r.type /\ Fold[C[r.category].name] = Fold[r.row]

\* As good as a row of the table.
Filed(r, C, U) == RowFine(r, C, U) /\ (r.category # None => C[r.category] # None)

CacheFine(m, u, C, U) ==
    /\ m = [k \in DOMAIN m |-> m[k]]
    /\ \A k \in DOMAIN m :
        /\ Own(m[k], u, C, U)
        /\ C[m[k]] # None => cacheKey(C[m[k]].type, C[m[k]].name) = k

\* An import with rows to go.
ImportFine(l, C, U) ==
    \E u \in User, f \in Seq(FileRow) : \E m :
        /\ l = [pc |-> "row", user |-> u, rows |-> f, cache |-> m]
        /\ f # << >>
        /\ CacheFine(m, u, C, U)

InsertFine(l, C, U) ==
    \E r, i : /\ l = [pc |-> "insert", row |-> r, import |-> i]
              /\ RowFine(r, C, U)
              /\ i = None \/ ImportFine(i, C, U)

UpdateFine(l, C, U) ==
    \E x, r : /\ l = [pc |-> "update", id |-> x, row |-> r]
              /\ RowFine(r, C, U)

NamesFine(l, C, U) ==
    \E u \in User : \E S :
        /\ l = [pc |-> "names", user |-> u, rows |-> S]
        /\ \A p \in S : p[2] # None => Own(p[2], u, C, U)

\* A file that is written out.
FileFine(l, C, U) ==
    \E S : /\ l = [pc |-> "file", rows |-> S]
           /\ \A r \in S : r.category # None =>
                /\ r.category \in CategoryId /\ r.category \in U
                /\ C[r.category] # None => r.name = C[r.category].name

LocalFine(l, C, U) ==
    \/ l = Idle
    \/ InsertFine(l, C, U) \/ UpdateFine(l, C, U) \/ ImportFine(l, C, U)
    \/ NamesFine(l, C, U) \/ FileFine(l, C, U)

Known == \A c \in CategoryId : cats[c] # None => c \in used

RowsFine ==
    \A x \in TxId : txs[x] # None => Filed(txs[x], cats, used)

ThreadsFine ==
    /\ thr = [t \in Thread |-> thr[t]]
    /\ \A t \in Thread : LocalFine(thr[t], cats, used)

Inv == TypeOK /\ Known /\ RowsFine /\ ThreadsFine

-----------------------------------------------------------------------------
(* Nothing of this is taken back: from C and U to D and V, ids that were   *)
(* given out stay so, and their categories change by being deleted only.   *)

Later(C, U, D, V) ==
    /\ U \subseteq V
    /\ \A c \in CategoryId : c \in U => D[c] = C[c] \/ D[c] = None

LEMMA OwnLater ==
    ASSUME NEW C, NEW U, NEW D, NEW V, Later(C, U, D, V), NEW c, NEW u, Own(c, u, C, U)
    PROVE  Own(c, u, D, V)
BY DEF Later, Own

LEMMA RowFineLater ==
    ASSUME NEW C, NEW U, NEW D, NEW V, Later(C, U, D, V), NEW r, RowFine(r, C, U)
    PROVE  RowFine(r, D, V)
BY OwnLater DEF Later, Own, RowFine

LEMMA ImportFineLater ==
    ASSUME NEW C, NEW U, NEW D, NEW V, Later(C, U, D, V), NEW l, ImportFine(l, C, U)
    PROVE  ImportFine(l, D, V)
<1>1. PICK u, f, m :
          /\ u \in User /\ f \in Seq(FileRow)
          /\ l = [pc |-> "row", user |-> u, rows |-> f, cache |-> m]
          /\ f # << >>
          /\ CacheFine(m, u, C, U)
  BY DEF ImportFine
<1>2. CacheFine(m, u, D, V)
  BY <1>1, OwnLater DEF CacheFine, Own, Later
<1>3. QED
  BY <1>1, <1>2 DEF ImportFine

LEMMA LocalFineLater ==
    ASSUME NEW C, NEW U, NEW D, NEW V, Later(C, U, D, V), NEW l, LocalFine(l, C, U)
    PROVE  LocalFine(l, D, V)
<1>1. CASE InsertFine(l, C, U)
  BY <1>1, RowFineLater, ImportFineLater DEF InsertFine, LocalFine
<1>2. CASE UpdateFine(l, C, U)
  BY <1>2, RowFineLater DEF UpdateFine, LocalFine
<1>3. CASE ImportFine(l, C, U)
  BY <1>3, ImportFineLater DEF LocalFine
<1>4. CASE NamesFine(l, C, U)
  BY <1>4, OwnLater DEF NamesFine, LocalFine
<1>5. CASE FileFine(l, C, U)
  BY <1>5 DEF FileFine, LocalFine, Later
<1>6. QED
  BY <1>1, <1>2, <1>3, <1>4, <1>5 DEF LocalFine

\* The locals by where a goroutine is.
LEMMA LocalAt ==
    ASSUME NEW l, NEW C, NEW U, LocalFine(l, C, U)
    PROVE  /\ l.pc = "insert" => InsertFine(l, C, U)
           /\ l.pc = "update" => UpdateFine(l, C, U)
           /\ l.pc = "row" => ImportFine(l, C, U)
           /\ l.pc = "names" => NamesFine(l, C, U)
           /\ l.pc = "file" => FileFine(l, C, U)
<1>1. InsertFine(l, C, U) => l.pc = "insert"
  BY DEF InsertFine
<1>2. UpdateFine(l, C, U) => l.pc = "update"
  BY DEF UpdateFine
<1>3. ImportFine(l, C, U) => l.pc = "row"
  BY DEF ImportFine
<1>4. NamesFine(l, C, U) => l.pc = "names"
  BY DEF NamesFine
<1>5. FileFine(l, C, U) => l.pc = "file"
  BY DEF FileFine
<1>6. l = Idle => l.pc = "idle"
  BY DEF Idle
<1>7. QED
  BY <1>1, <1>2, <1>3, <1>4, <1>5, <1>6 DEF LocalFine

-----------------------------------------------------------------------------
(* How a step may move the goroutines.                                     *)

\* Goroutine t moves to l; the tables do not get worse.
LEMMA ThreadMoves ==
    ASSUME ThreadsFine, NEW t \in Thread, NEW l, Goto(t, l),
           Later(cats, used, cats', used'), LocalFine(l, cats', used')
    PROVE  ThreadsFine'
<1>1. thr' = [s \in Thread |-> thr'[s]] /\ thr'[t] = l
  BY DEF Goto, ThreadsFine
<1>2. ASSUME NEW s \in Thread, s # t PROVE LocalFine(thr'[s], cats', used')
  <2>1. thr'[s] = thr[s] /\ LocalFine(thr[s], cats, used)
    BY <1>2 DEF Goto, ThreadsFine
  <2>2. QED
    BY <2>1, LocalFineLater
<1>3. QED
  BY <1>1, <1>2 DEF ThreadsFine

LEMMA ThreadsStay ==
    ASSUME ThreadsFine, UNCHANGED thr, Later(cats, used, cats', used')
    PROVE  ThreadsFine'
BY LocalFineLater DEF ThreadsFine

LEMMA SameTables ==
    ASSUME UNCHANGED <<cats, used>>
    PROVE  Later(cats, used, cats', used')
BY DEF Later

\* A step of a goroutine that leaves the tables alone.
LEMMA LocalStep ==
    ASSUME Inv, UNCHANGED <<cats, txs, used, env>>, faults' \in 0..MaxFaults,
           NEW t \in Thread, NEW l, Goto(t, l), LocalFine(l, cats, used)
    PROVE  Inv'
<1>1. ThreadsFine'
  BY SameTables, ThreadMoves DEF Inv
<1>2. TypeOK' /\ Known' /\ RowsFine'
  BY DEF Inv, TypeOK, Known, RowsFine, env
<1>3. QED
  BY <1>1, <1>2 DEF Inv

-----------------------------------------------------------------------------
(* Requests for a transaction, and imports.                                *)

LEMMA MayUseOwn ==
    ASSUME Known, NEW u, NEW c, MayUse(u, c), c # None
    PROVE  Own(c, u, cats, used) /\ cats[c] # None
BY DEF Known, MayUse, CategoryGetByID, Own

\* A request that passes the checks makes a row that may be written.
LEMMA AcceptedFine ==
    ASSUME Known, NEW u \in User, NEW req, Accepted(u, req), req.date \in Dates,
           NEW row \in Name \cup {None},
           (req.category # None /\ row # None) =>
                /\ cats[req.category].type = req.type
                /\ Fold[cats[req.category].name] = Fold[row]
    PROVE  RowFine(RowOf(u, req, row), cats, used)
<1>1. req.category # None => Own(req.category, u, cats, used)
  BY MayUseOwn DEF Accepted
<1>2. req.category \in CategoryId \cup {None} /\ req.amount \in Amount /\ req.type \in Type
  BY <1>1 DEF Accepted, Own
<1>3. QED
  BY <1>1, <1>2 DEF RowOf, RowFine, TxRow

LEMMA CreateStep ==
    ASSUME Inv, NEW t \in Thread, NEW u \in User, NEW req, req.date \in Dates, Create(t, u, req)
    PROVE  Inv'
<1> DEFINE l == [pc |-> "insert", row |-> RowOf(u, req, None), import |-> None]
<1>1. RowFine(RowOf(u, req, None), cats, used)
  BY AcceptedFine DEF Create, Inv
<1>2. LocalFine(l, cats, used)
  BY <1>1 DEF LocalFine, InsertFine
<1>3. QED
  BY <1>2, LocalStep DEF Create, Unmoved, env, Inv, TypeOK

LEMMA UpdateStep ==
    ASSUME Inv, NEW t \in Thread, NEW u \in User, NEW x, NEW req, req.date \in Dates,
           Update(t, u, x, req)
    PROVE  Inv'
<1> DEFINE l == [pc |-> "update", id |-> x, row |-> RowOf(u, req, None)]
<1>1. RowFine(RowOf(u, req, None), cats, used)
  BY AcceptedFine DEF Update, Inv
<1>2. LocalFine(l, cats, used)
  BY <1>1 DEF LocalFine, UpdateFine
<1>3. QED
  BY <1>2, LocalStep DEF Update, Unmoved, env, Inv, TypeOK

LEMMA ImportStep ==
    ASSUME Inv, NEW t \in Thread, NEW u \in User, NEW file \in File, Import(t, u, file)
    PROVE  Inv'
<1>1. PICK f \in Caches(u) : Goto(t, [pc |-> "row", user |-> u, rows |-> file, cache |-> f])
  BY DEF Import
<1>2. CacheFine(f, u, cats, used)
  BY <1>1 DEF Caches, CacheFine, CategoryListForUser, Own, Inv, Known
<1>3. file \in Seq(FileRow) /\ file # << >>
  BY FileAssumption DEF Import
<1>4. LocalFine([pc |-> "row", user |-> u, rows |-> file, cache |-> f], cats, used)
  BY <1>2, <1>3 DEF LocalFine, ImportFine
<1>5. QED
  BY <1>1, <1>4, LocalStep DEF Import, Unmoved, env, Inv, TypeOK

\* An import goes on with the rest of its file, and ends after its last row.
LEMMA RestFine ==
    ASSUME NEW C, NEW U, NEW l, ImportFine(l, C, U)
    PROVE  LocalFine(Rest(l), C, U)
<1>1. PICK u, f, m :
          /\ u \in User /\ f \in Seq(FileRow)
          /\ l = [pc |-> "row", user |-> u, rows |-> f, cache |-> m]
          /\ f # << >>
          /\ CacheFine(m, u, C, U)
  BY DEF ImportFine
<1>2. CASE Len(f) = 1
  BY <1>1, <1>2 DEF Rest, LocalFine
<1>3. CASE Len(f) # 1
  <2>1. Tail(f) \in Seq(FileRow) /\ Tail(f) # << >>
    <3>1. Tail(f) \in Seq(FileRow) /\ Len(Tail(f)) = Len(f) - 1 /\ Len(f) \in Nat
      BY <1>1, HeadTailProperties
    <3>2. Len(Tail(f)) # 0
      BY <1>3, <3>1
    <3>3. QED
      BY <3>1, <3>2, EmptySeq
  <2>2. Rest(l) = [pc |-> "row", user |-> u, rows |-> Tail(f), cache |-> m]
    BY <1>1, <1>3 DEF Rest
  <2>3. QED
    BY <1>1, <2>1, <2>2 DEF LocalFine, ImportFine
<1>4. QED
  BY <1>2, <1>3

LEMMA AfterFine ==
    ASSUME NEW C, NEW U, NEW l, InsertFine(l, C, U)
    PROVE  LocalFine(After(l), C, U)
BY RestFine DEF InsertFine, After, LocalFine

\* The next row of an import: what it says, and what the cache knows.
LEMMA HeadFine ==
    ASSUME NEW l, ImportFine(l, cats, used)
    PROVE  /\ Head(l.rows) \in FileRow
           /\ l.user \in User
           /\ CacheFine(l.cache, l.user, cats, used)
           /\ l = [pc |-> "row", user |-> l.user, rows |-> l.rows, cache |-> l.cache]
           /\ l.rows \in Seq(FileRow) /\ l.rows # << >>
<1>1. PICK u, f, m :
          /\ u \in User /\ f \in Seq(FileRow)
          /\ l = [pc |-> "row", user |-> u, rows |-> f, cache |-> m]
          /\ f # << >>
          /\ CacheFine(m, u, cats, used)
  BY DEF ImportFine
<1>2. Head(f) \in FileRow
  BY <1>1
<1>3. QED
  BY <1>1, <1>2

LEMMA SkipRowStep ==
    ASSUME Inv, NEW t \in Thread, SkipRow(t)
    PROVE  Inv'
<1>1. ImportFine(thr[t], cats, used)
  BY LocalAt DEF SkipRow, Inv, ThreadsFine
<1>2. LocalFine(Rest(thr[t]), cats, used)
  BY <1>1, RestFine
<1>3. QED
  BY <1>2, LocalStep DEF SkipRow, Unmoved, env, Inv, TypeOK

LEMMA TypeOfRow ==
    ASSUME NEW r, Readable(r)
    PROVE  normalizeType(r.type) \in Type
BY DEF Readable, normalizeType, Type

LEMMA CreateRowStep ==
    ASSUME Inv, NEW t \in Thread, CreateRow(t)
    PROVE  Inv'
<1> DEFINE l == thr[t]
           r == Head(l.rows)
           c == IF r.category = None THEN None ELSE l.cache[Key(r)]
           req == [category |-> c, amount |-> r.amount, type |-> normalizeType(r.type),
                   date |-> r.date]
<1>1. ImportFine(l, cats, used)
  BY LocalAt DEF CreateRow, Inv, ThreadsFine
<1>2. r \in FileRow /\ l.user \in User /\ CacheFine(l.cache, l.user, cats, used)
  BY <1>1, HeadFine
<1>3. Readable(r) /\ Cached(l) /\ Accepted(l.user, req)
      /\ Goto(t, [pc |-> "insert", row |-> RowOf(l.user, req, r.category), import |-> l])
  BY DEF CreateRow
<1>4. r.date \in Dates /\ r.category \in Name \cup {None}
  BY <1>2, <1>3 DEF Readable, FileRow
<1>5. ASSUME c # None, r.category # None
      PROVE  cats[c].type = req.type /\ Fold[cats[c].name] = Fold[r.category]
  <2>1. Key(r) \in DOMAIN l.cache /\ c = l.cache[Key(r)]
    BY <1>3, <1>5 DEF Cached
  <2>2. cats[c] # None
    BY <1>3, <1>5, MayUseOwn DEF Accepted, Inv
  <2>3. cacheKey(cats[c].type, cats[c].name) = Key(r)
    BY <1>2, <2>1, <2>2 DEF CacheFine
  <2>4. QED
    BY <2>3 DEF cacheKey, Key
<1>6. c # None => r.category # None
  OBVIOUS
<1>7. RowFine(RowOf(l.user, req, r.category), cats, used)
  <2> HIDE DEF c
  <2>1. req.category = c /\ req.date = r.date
    OBVIOUS
  <2>2. (req.category # None /\ r.category # None) =>
            /\ cats[req.category].type = req.type
            /\ Fold[cats[req.category].name] = Fold[r.category]
    BY <1>5, <2>1
  <2> HIDE DEF req, r
  <2>3. QED
    BY <1>2, <1>3, <1>4, <2>1, <2>2, AcceptedFine DEF Inv
<1>8. LocalFine([pc |-> "insert", row |-> RowOf(l.user, req, r.category), import |-> l], cats, used)
  <2> HIDE DEF req, r, l
  <2>1. QED
    BY <1>1, <1>7 DEF LocalFine, InsertFine
<1>9. QED
  BY <1>3, <1>8, LocalStep DEF CreateRow, Unmoved, env, Inv, TypeOK

-----------------------------------------------------------------------------
(* The categories: new ids only, and what was filed under one that is      *)
(* deleted is filed under none.                                            *)

LEMMA NewCategoryFine ==
    ASSUME Inv, NEW c \in CategoryId, NEW u \in User, NEW name \in Name, NEW type \in Type,
           CategoryCreate(c, u, name, type), UNCHANGED <<txs, env, faults>>
    PROVE  /\ Later(cats, used, cats', used')
           /\ TypeOK' /\ Known' /\ RowsFine'
           /\ cats'[c] = [owner |-> u, name |-> name, type |-> type]
           /\ Own(c, u, cats', used')
<1>1. /\ c \notin used /\ used' = used \cup {c}
      /\ cats' = [cats EXCEPT ![c] = [owner |-> u, name |-> name, type |-> type]]
  BY DEF CategoryCreate
<1>2. cats \in [CategoryId -> CategoryRow \cup {None}] /\ used \subseteq CategoryId \cup TxId
  BY DEF Inv, TypeOK
<1>3. Later(cats, used, cats', used')
  BY <1>1, <1>2 DEF Later
<1>4. cats'[c] = [owner |-> u, name |-> name, type |-> type]
  BY <1>1, <1>2
<1>5. [owner |-> u, name |-> name, type |-> type] \in CategoryRow
  BY DEF CategoryRow
<1>6. TypeOK'
  BY <1>1, <1>2, <1>5 DEF Inv, TypeOK, env
<1>7. Known'
  BY <1>1, <1>2 DEF Inv, Known
<1>8. RowsFine'
  <2>1. ASSUME NEW x \in TxId, txs[x] # None
        PROVE  /\ RowFine(txs[x], cats', used')
               /\ txs[x].category # None => cats'[txs[x].category] # None
    <3>1. RowFine(txs[x], cats, used) /\ (txs[x].category # None => cats[txs[x].category] # None)
      BY <2>1 DEF Inv, RowsFine, Filed
    <3>2. txs[x].category # None => txs[x].category \in CategoryId /\ txs[x].category # c
      BY <1>1, <3>1 DEF RowFine, Own
    <3>3. QED
      BY <1>1, <1>2, <1>3, <3>1, <3>2, RowFineLater
  <2>2. QED
    BY <2>1 DEF RowsFine, Filed
<1>9. Own(c, u, cats', used')
  BY <1>1, <1>4 DEF Own
<1>10. QED
  BY <1>3, <1>4, <1>6, <1>7, <1>8, <1>9

LEMMA CreateCategoryStep ==
    ASSUME Inv, NEW u \in User, NEW name, NEW type, CreateCategory(u, name, type)
    PROVE  Inv'
<1>1. name \in Name /\ type \in Type /\ UNCHANGED <<txs, thr, env, faults>>
  BY DEF CreateCategory, Unmoved
<1>2. PICK c \in CategoryId : CategoryCreate(c, u, name, type)
  BY DEF CreateCategory
<1>3. Later(cats, used, cats', used') /\ TypeOK' /\ Known' /\ RowsFine'
  BY <1>1, <1>2, NewCategoryFine
<1>4. QED
  BY <1>1, <1>3, ThreadsStay DEF Inv

\* A category made for an import is in its cache under the key of its row.
LEMMA NewCategoryStep ==
    ASSUME Inv, NEW t \in Thread, NewCategory(t)
    PROVE  Inv'
<1> DEFINE l == thr[t]
           r == Head(l.rows)
<1>1. ImportFine(l, cats, used)
  BY LocalAt DEF NewCategory, Inv, ThreadsFine
<1>2. /\ r \in FileRow /\ l.user \in User /\ CacheFine(l.cache, l.user, cats, used)
      /\ l = [pc |-> "row", user |-> l.user, rows |-> l.rows, cache |-> l.cache]
      /\ l.rows \in Seq(FileRow) /\ l.rows # << >>
  BY <1>1, HeadFine
<1>3. Readable(r) /\ ~Cached(l) /\ UNCHANGED <<txs, env, faults>>
  BY DEF NewCategory, Unmoved
<1>4. r.category \in Name /\ normalizeType(r.type) \in Type
  BY <1>2, <1>3, TypeOfRow DEF Cached, FileRow
<1>5. PICK c \in CategoryId :
        /\ CategoryCreate(c, l.user, r.category, normalizeType(r.type))
        /\ Goto(t, [l EXCEPT !.cache = [k \in DOMAIN @ \cup {Key(r)} |->
                                            IF k = Key(r) THEN c ELSE @[k]]])
  BY DEF NewCategory
<1> DEFINE m == [k \in DOMAIN l.cache \cup {Key(r)} |-> IF k = Key(r) THEN c ELSE l.cache[k]]
           n == [pc |-> "row", user |-> l.user, rows |-> l.rows, cache |-> m]
<1>6. Goto(t, n)
  BY <1>2, <1>5
<1>7. /\ Later(cats, used, cats', used') /\ TypeOK' /\ Known' /\ RowsFine'
      /\ cats'[c] = [owner |-> l.user, name |-> r.category, type |-> normalizeType(r.type)]
      /\ Own(c, l.user, cats', used')
  <2> HIDE DEF r, l
  <2>1. QED
    BY <1>2, <1>3, <1>4, <1>5, NewCategoryFine
<1>8. CacheFine(m, l.user, cats', used')
  <2>1. cacheKey(cats'[c].type, cats'[c].name) = Key(r)
    BY <1>7 DEF Key
  <2>2. ASSUME NEW k \in DOMAIN l.cache
        PROVE  /\ Own(l.cache[k], l.user, cats', used')
               /\ cats'[l.cache[k]] # None =>
                    cacheKey(cats'[l.cache[k]].type, cats'[l.cache[k]].name) = k
    BY <1>2, <1>7, OwnLater DEF CacheFine, Own, Later
  <2>3. QED
    BY <1>7, <2>1, <2>2 DEF CacheFine
<1>9. LocalFine(n, cats', used')
  <2> HIDE DEF m
  <2>1. QED
    BY <1>2, <1>8 DEF LocalFine, ImportFine
<1>10. ThreadsFine'
  <2> HIDE DEF n
  <2>1. QED
    BY <1>6, <1>7, <1>9, ThreadMoves DEF Inv
<1>11. QED
  BY <1>7, <1>10 DEF Inv

LEMMA DeleteCategoryStep ==
    ASSUME Inv, NEW u \in User, NEW c, DeleteCategory(u, c), c \in CategoryId
    PROVE  Inv'
<1>1. cats' = [cats EXCEPT ![c] = None] /\ SetNull(c) /\ UNCHANGED <<used, thr, env, faults>>
  BY DEF DeleteCategory, CategoryDeleteForUser, Unmoved
<1>2. /\ cats \in [CategoryId -> CategoryRow \cup {None}] /\ txs \in [TxId -> TxRow \cup {None}]
  BY DEF Inv, TypeOK
<1>3. Later(cats, used, cats', used')
  BY <1>1, <1>2 DEF Later
<1>4. ASSUME NEW x \in TxId
      PROVE  /\ txs'[x] \in TxRow \cup {None}
             /\ txs'[x] # None => /\ RowFine(txs'[x], cats', used')
                                  /\ txs'[x].category # None => cats'[txs'[x].category] # None
  <2>1. CASE txs[x] # None /\ txs[x].category = c
    <3>1. txs[x] \in TxRow
      BY <1>2, <2>1
    <3>2. txs'[x] = [txs[x] EXCEPT !.category = None]
      BY <1>1, <2>1 DEF SetNull
    <3>3. txs'[x] \in TxRow /\ txs'[x].category = None
      BY <3>1, <3>2 DEF TxRow
    <3>4. QED
      BY <3>3 DEF RowFine
  <2>2. CASE txs[x] = None \/ txs[x].category # c
    <3>1. txs'[x] = txs[x]
      BY <1>1, <2>2 DEF SetNull
    <3>2. txs[x] # None => RowFine(txs[x], cats, used)
                           /\ (txs[x].category # None => cats[txs[x].category] # None)
      BY DEF Inv, RowsFine, Filed
    <3>3. (txs[x] # None /\ txs[x].category # None) => cats'[txs[x].category] # None
      BY <1>1, <1>2, <2>2, <3>2 DEF RowFine, Own
    <3>4. QED
      BY <1>2, <1>3, <3>1, <3>2, <3>3, RowFineLater
  <2>3. QED
    BY <2>1, <2>2
<1>5. RowsFine'
  BY <1>4 DEF RowsFine, Filed
<1>6. TypeOK'
  <2>1. txs' \in [TxId -> TxRow \cup {None}]
    BY <1>1, <1>4 DEF SetNull
  <2>2. cats' \in [CategoryId -> CategoryRow \cup {None}]
    BY <1>1, <1>2
  <2>3. QED
    BY <1>1, <2>1, <2>2 DEF Inv, TypeOK, env
<1>7. Known'
  BY <1>1, <1>2 DEF Inv, Known
<1>8. QED
  BY <1>1, <1>3, <1>5, <1>6, <1>7, ThreadsStay DEF Inv

-----------------------------------------------------------------------------
(* The transactions: what is written passed its checks, and names a        *)
(* category that is still there.                                           *)

\* One row is written, or rows go away.
LEMMA RowWritten ==
    ASSUME Inv, UNCHANGED <<cats, plan, sweep, today, changes>>, faults' \in 0..MaxFaults,
           used \subseteq used', used' \subseteq CategoryId \cup TxId,
           txs' \in [TxId -> TxRow \cup {None}],
           \A x \in TxId : \/ txs'[x] \in {txs[x], None}
                           \/ Filed(txs'[x], cats, used)
    PROVE  TypeOK' /\ Known' /\ RowsFine' /\ Later(cats, used, cats', used')
<1>1. Later(cats, used, cats', used')
  BY DEF Later
<1>2. ASSUME NEW x \in TxId, txs'[x] # None
      PROVE  /\ RowFine(txs'[x], cats, used)
             /\ txs'[x].category # None => cats[txs'[x].category] # None
  <2>1. CASE txs'[x] = txs[x]
    BY <1>2, <2>1 DEF Inv, RowsFine, Filed
  <2>2. CASE Filed(txs'[x], cats, used)
    BY <2>2 DEF Filed
  <2>3. QED
    BY <1>2, <2>1, <2>2
<1>3. RowsFine'
  <2>1. ASSUME NEW x \in TxId, txs'[x] # None
        PROVE  /\ RowFine(txs'[x], cats', used')
               /\ txs'[x].category # None => cats'[txs'[x].category] # None
    BY <1>1, <1>2, <2>1, RowFineLater
  <2>2. QED
    BY <2>1 DEF RowsFine, Filed
<1>4. TypeOK' /\ Known'
  BY DEF Inv, TypeOK, Known
<1>5. QED
  BY <1>1, <1>3, <1>4

LEMMA InsertStep ==
    ASSUME Inv, NEW t \in Thread, Insert(t)
    PROVE  Inv'
<1>1. InsertFine(thr[t], cats, used)
  BY LocalAt DEF Insert, Inv, ThreadsFine
<1>2. RowFine(thr[t].row, cats, used) /\ Filed(thr[t].row, cats, used)
  BY <1>1 DEF InsertFine, Insert, Filed, References, CategoryGetByID
<1>3. PICK x \in TxId : used' = used \cup {x} /\ txs' = [txs EXCEPT ![x] = thr[t].row]
  BY DEF Insert, TransactionCreate
<1>4. thr[t].row \in TxRow
  BY <1>2 DEF RowFine
<1>5. TypeOK' /\ Known' /\ RowsFine' /\ Later(cats, used, cats', used')
  <2>1. txs' \in [TxId -> TxRow \cup {None}]
    BY <1>3, <1>4 DEF Inv, TypeOK
  <2>2. \A y \in TxId : txs'[y] = txs[y] \/ Filed(txs'[y], cats, used)
    <3>1. \A y \in TxId : txs'[y] = txs[y] \/ txs'[y] = thr[t].row
      BY <1>3 DEF Inv, TypeOK
    <3>2. QED
      BY <1>2, <3>1
  <2>3. UNCHANGED <<cats, plan, sweep, today, changes>> /\ faults' \in 0..MaxFaults
        /\ used \subseteq used' /\ used' \subseteq CategoryId \cup TxId
    BY <1>3 DEF Insert, Unmoved, env, Inv, TypeOK
  <2>4. QED
    BY <2>1, <2>2, <2>3, RowWritten
<1>6. LocalFine(After(thr[t]), cats', used')
  BY <1>1, <1>5, AfterFine, LocalFineLater
<1>7. Goto(t, After(thr[t]))
  BY DEF Insert
<1>8. QED
  BY <1>5, <1>6, <1>7, ThreadMoves DEF Inv

LEMMA InsertRefusedStep ==
    ASSUME Inv, NEW t \in Thread, InsertRefused(t)
    PROVE  Inv'
<1>1. LocalFine(After(thr[t]), cats, used)
  BY LocalAt, AfterFine DEF InsertRefused, Inv, ThreadsFine
<1>2. QED
  BY <1>1, LocalStep DEF InsertRefused, Unmoved, env, Inv, TypeOK

LEMMA IdleFine == \A C, U : LocalFine(Idle, C, U)
BY DEF LocalFine

LEMMA FinishUpdateStep ==
    ASSUME Inv, NEW t \in Thread, FinishUpdate(t)
    PROVE  Inv'
<1>1. UpdateFine(thr[t], cats, used)
  BY LocalAt DEF FinishUpdate, Inv, ThreadsFine
<1>2. RowFine(thr[t].row, cats, used) /\ Filed(thr[t].row, cats, used)
  BY <1>1 DEF UpdateFine, FinishUpdate, Filed, References, CategoryGetByID
<1>3. TransactionUpdateForUser(thr[t].id, thr[t].row.owner, thr[t].row)
      /\ UNCHANGED <<cats, used, env, faults>> /\ Goto(t, Idle)
  BY DEF FinishUpdate, Unmoved
<1>4. txs' = txs \/ txs' = [txs EXCEPT ![thr[t].id] = thr[t].row]
  BY <1>3 DEF TransactionUpdateForUser
<1>5. thr[t].row \in TxRow /\ txs \in [TxId -> TxRow \cup {None}]
  BY <1>2 DEF RowFine, Inv, TypeOK
<1>6. /\ txs' \in [TxId -> TxRow \cup {None}]
      /\ \A y \in TxId : txs'[y] = txs[y] \/ Filed(txs'[y], cats, used)
  <2>1. /\ txs' \in [TxId -> TxRow \cup {None}]
        /\ \A y \in TxId : txs'[y] = txs[y] \/ txs'[y] = thr[t].row
    BY <1>4, <1>5
  <2>2. QED
    BY <1>2, <2>1
<1>7. TypeOK' /\ Known' /\ RowsFine' /\ Later(cats, used, cats', used')
  <2>1. UNCHANGED <<cats, plan, sweep, today, changes>> /\ faults' \in 0..MaxFaults
        /\ used \subseteq used' /\ used' \subseteq CategoryId \cup TxId
    BY <1>3 DEF env, Inv, TypeOK
  <2>2. QED
    BY <1>6, <2>1, RowWritten
<1>8. QED
  BY <1>3, <1>7, IdleFine, ThreadMoves DEF Inv

\* Steps after which a goroutine is idle and the tables are as they were.
LEMMA EndsStep ==
    ASSUME Inv, NEW t \in Thread, UpdateRefused(t) \/ Download(t)
    PROVE  Inv'
BY IdleFine, LocalStep DEF UpdateRefused, Download, Unmoved, env, Inv, TypeOK

LEMMA DeleteStep ==
    ASSUME Inv, NEW u \in User, NEW x, Delete(u, x)
    PROVE  Inv'
<1>1. txs' = [txs EXCEPT ![x] = None] /\ UNCHANGED <<cats, used, thr, env, faults>>
  BY DEF Delete, TransactionDeleteForUser, Unmoved
<1>2. /\ txs' \in [TxId -> TxRow \cup {None}]
      /\ \A y \in TxId : txs'[y] \in {txs[y], None}
  BY <1>1 DEF Inv, TypeOK
<1>3. TypeOK' /\ Known' /\ RowsFine' /\ Later(cats, used, cats', used')
  <2>1. UNCHANGED <<cats, plan, sweep, today, changes>> /\ faults' \in 0..MaxFaults
        /\ used \subseteq used' /\ used' \subseteq CategoryId \cup TxId
    BY <1>1 DEF env, Inv, TypeOK
  <2>2. QED
    BY <1>2, <2>1, RowWritten
<1>4. QED
  BY <1>1, <1>3, ThreadsStay DEF Inv

\* The retention job writes nothing; what else happens leaves the tables alone.
LEMMA SweepStep ==
    ASSUME Inv, sweepOnce
    PROVE  Inv'
<1>1. \/ txs' = txs
      \/ TransactionDeleteExpiredForPlan(sweep, today - RetentionDays(sweep))
  BY DEF sweepOnce
<1>2. UNCHANGED <<cats, used, plan, thr, today, changes, faults>> /\ sweep' \in {"idle", "free", "pro"}
  BY DEF sweepOnce, Then, Limited
<1>3. /\ txs' \in [TxId -> TxRow \cup {None}]
      /\ \A y \in TxId : txs'[y] \in {txs[y], None}
  BY <1>1 DEF TransactionDeleteExpiredForPlan, Inv, TypeOK
<1>4. ASSUME NEW x \in TxId, txs'[x] # None
      PROVE  /\ RowFine(txs'[x], cats, used)
             /\ txs'[x].category # None => cats[txs'[x].category] # None
  BY <1>3, <1>4 DEF Inv, RowsFine, Filed
<1>5. RowsFine'
  BY <1>2, <1>4 DEF RowsFine, Filed
<1>6. TypeOK' /\ Known'
  BY <1>2, <1>3 DEF Inv, TypeOK, Known
<1>7. QED
  BY <1>2, <1>5, <1>6, SameTables, ThreadsStay DEF Inv

LEMMA OtherStep ==
    ASSUME Inv, \/ SweepStarts \/ SweepFails \/ Restart \/ NextDay
                \/ \E u \in User, p \in Sold : ChangePlan(u, p)
    PROVE  Inv'
<1>1. UNCHANGED <<cats, txs, used>> /\ (UNCHANGED thr \/ thr' = [t \in Thread |-> Idle])
  BY DEF SweepStarts, SweepFails, Restart, ChangePlan, NextDay
<1>2. ThreadsFine'
  BY <1>1, IdleFine, SameTables, ThreadsStay DEF Inv, ThreadsFine
<1>3. /\ plan' \in [User -> Plan] /\ sweep' \in {"idle", "free", "pro"}
      /\ today' \in 0..LastDay /\ changes' \in 0..MaxChanges /\ faults' \in 0..MaxFaults
  BY SoldAssumption, LedgerBounds
     DEF SweepStarts, SweepFails, Restart, ChangePlan, NextDay, Inv, TypeOK, Then, Limited
<1>4. TypeOK' /\ Known' /\ RowsFine'
  BY <1>1, <1>3 DEF Inv, TypeOK, Known, RowsFine
<1>5. QED
  BY <1>2, <1>4 DEF Inv

-----------------------------------------------------------------------------
(* Exports, and statements that fail.                                      *)

LEMMA ExportStep ==
    ASSUME Inv, NEW t \in Thread, NEW u \in User, NEW from, NEW to, Export(t, u, from, to)
    PROVE  Inv'
<1> DEFINE S == {<<x, txs[x].category>> : x \in TransactionListForUser(u, from, to)}
<1>1. ASSUME NEW p \in S, p[2] # None PROVE Own(p[2], u, cats, used)
  <2>1. PICK x \in TxId : p = <<x, txs[x].category>> /\ txs[x] # None /\ txs[x].owner = u
    BY DEF TransactionListForUser
  <2>2. RowFine(txs[x], cats, used)
    BY <2>1 DEF Inv, RowsFine, Filed
  <2>3. QED
    BY <1>1, <2>1, <2>2 DEF RowFine
<1>2. LocalFine([pc |-> "names", user |-> u, rows |-> S], cats, used)
  <2> HIDE DEF S
  <2>1. QED
    BY <1>1 DEF LocalFine, NamesFine
<1>3. QED
  BY <1>2, LocalStep DEF Export, Unmoved, env, Inv, TypeOK

LEMMA FinishExportStep ==
    ASSUME Inv, NEW t \in Thread, FinishExport(t)
    PROVE  Inv'
<1>1. NamesFine(thr[t], cats, used)
  BY LocalAt DEF FinishExport, Inv, ThreadsFine
<1>2. PICK u, S : /\ u \in User
                  /\ thr[t] = [pc |-> "names", user |-> u, rows |-> S]
                  /\ \A p \in S : p[2] # None => Own(p[2], u, cats, used)
  BY <1>1 DEF NamesFine
<1>3. ASSUME NEW r \in NamesOf(u, S), r.category # None
      PROVE  /\ r.category \in CategoryId /\ r.category \in used
             /\ cats[r.category] # None => r.name = cats[r.category].name
  <2>1. PICK p \in S : r = [id |-> p[1], category |-> p[2],
                            name |-> IF p[2] \in CategoryListForUser(u)
                                     THEN cats[p[2]].name ELSE None]
    BY DEF NamesOf
  <2>2. Own(p[2], u, cats, used)
    BY <1>2, <1>3, <2>1
  <2>3. QED
    BY <2>1, <2>2 DEF Own, CategoryListForUser
<1>4. LocalFine([pc |-> "file", rows |-> NamesOf(u, S)], cats, used)
  BY <1>3 DEF LocalFine, FileFine
<1>5. Goto(t, [pc |-> "file", rows |-> NamesOf(u, S)])
  BY <1>2 DEF FinishExport
<1>6. QED
  BY <1>4, <1>5, LocalStep DEF FinishExport, Unmoved, env, Inv, TypeOK

LEMMA DbFailsStep ==
    ASSUME Inv, NEW t \in Thread, DbFails(t)
    PROVE  Inv'
<1>1. LocalFine(thr[t], cats, used)
  BY DEF Inv, ThreadsFine
<1>2. ASSUME NEW l, Goto(t, l), LocalFine(l, cats, used) PROVE Inv'
  <2>1. UNCHANGED <<cats, txs, used, env>> /\ faults' = faults + 1 /\ faults < MaxFaults
    BY DEF DbFails
  <2>2. faults' \in 0..MaxFaults
    BY <2>1, LedgerBounds DEF Inv, TypeOK
  <2>3. QED
    BY <1>2, <2>1, <2>2, LocalStep
<1>3. CASE thr[t].pc = "insert"
  <2>1. LocalFine(After(thr[t]), cats, used)
    BY <1>1, <1>3, LocalAt, AfterFine
  <2>2. Goto(t, After(thr[t]))
    BY <1>3 DEF DbFails
  <2>3. QED
    BY <1>2, <2>1, <2>2
<1>4. CASE thr[t].pc = "row"
  <2>1. LocalFine(Rest(thr[t]), cats, used)
    BY <1>1, <1>4, LocalAt, RestFine
  <2>2. Goto(t, Rest(thr[t]))
    BY <1>4 DEF DbFails
  <2>3. QED
    BY <1>2, <2>1, <2>2
<1>5. CASE thr[t].pc \notin {"insert", "row"}
  <2>1. Goto(t, Idle)
    BY <1>5 DEF DbFails
  <2>2. QED
    BY <1>2, <2>1, IdleFine
<1>6. QED
  BY <1>3, <1>4, <1>5

-----------------------------------------------------------------------------
(* The invariant.                                                          *)

LEMMA InitInv == Init => Inv
<1> SUFFICES ASSUME Init PROVE Inv
  OBVIOUS
<1>1. /\ cats = [c \in CategoryId |-> IF c \in DOMAIN Seeded THEN Seeded[c] ELSE None]
      /\ txs = [x \in TxId |-> None] /\ used = DOMAIN Seeded
      /\ thr = [t \in Thread |-> Idle]
  BY DEF Init
<1>2. \A c \in DOMAIN Seeded : c \in CategoryId /\ Seeded[c] \in CategoryRow
  BY SeededAssumption DEF CategoryRow
<1>3. TypeOK
  <2>1. cats \in [CategoryId -> CategoryRow \cup {None}]
    BY <1>1, <1>2
  <2>2. QED
    BY <1>1, <1>2, <2>1, LedgerBounds DEF Init, TypeOK, Plan
<1>4. Known /\ RowsFine
  BY <1>1, <1>2 DEF Known, RowsFine, Filed
<1>5. ThreadsFine
  BY <1>1, IdleFine DEF ThreadsFine
<1>6. QED
  BY <1>3, <1>4, <1>5 DEF Inv

LEMMA ThreadStep ==
    ASSUME Inv, NEW t \in Thread, Step(t)
    PROVE  Inv'
BY InsertStep, InsertRefusedStep, FinishUpdateStep, EndsStep, SkipRowStep, NewCategoryStep,
   CreateRowStep, FinishExportStep, DbFailsStep DEF Step

\* What the transports hand on has been decoded.
LEMMA WebStep ==
    ASSUME Inv, NEW t \in Thread, NEW u \in User, Web(t, u)
    PROVE  Inv'
<1>1. ASSUME NEW req \in Body \cup {Malformed}, create(t, u, req) PROVE Inv'
  BY <1>1, RequestAssumption, CreateStep DEF create
<1>2. ASSUME NEW req \in Body \cup {Malformed}, NEW x \in TxId \cup {Malformed},
             update(t, u, x, req)
      PROVE  Inv'
  BY <1>2, RequestAssumption, UpdateStep DEF update
<1>3. ASSUME NEW x \in TxId \cup {Malformed}, delete(u, x) PROVE Inv'
  BY <1>3, DeleteStep DEF delete
<1>4. ASSUME NEW req \in Category \cup {Malformed}, createCategory(u, req) PROVE Inv'
  BY <1>4, CreateCategoryStep DEF createCategory
<1>5. ASSUME NEW c \in CategoryId \cup {Malformed}, deleteCategory(u, c) PROVE Inv'
  BY <1>5, DeleteCategoryStep DEF deleteCategory
<1>6. ASSUME NEW file \in File \cup {Malformed}, importCSV(t, u, file) PROVE Inv'
  BY <1>6, ImportStep DEF importCSV
<1>7. ASSUME NEW from, NEW to, export(t, u, from, to) PROVE Inv'
  BY <1>7, ExportStep DEF export
<1>8. QED
  BY <1>1, <1>2, <1>3, <1>4, <1>5, <1>6, <1>7 DEF Web

LEMMA AppStep ==
    ASSUME Inv, NEW t \in Thread, NEW u \in User, TransactionController(t, u)
    PROVE  Inv'
<1>1. ASSUME NEW req \in Body, NEW x, Create(t, u, FromProto(req, x)) PROVE Inv'
  <2>1. FromProto(req, x).date = req.date /\ req.date \in Dates
    BY RequestAssumption DEF FromProto
  <2>2. QED
    BY <1>1, <2>1, CreateStep
<1>2. ASSUME NEW x \in TxId, Delete(u, x) PROVE Inv'
  BY <1>2, DeleteStep
<1>3. QED
  BY <1>1, <1>2 DEF TransactionController

LEMMA CategoryStep ==
    ASSUME Inv, NEW u \in User, CategoryController(u)
    PROVE  Inv'
<1>1. ASSUME NEW name, NEW type, CreateCategory(u, name, type) PROVE Inv'
  BY <1>1, CreateCategoryStep
<1>2. ASSUME NEW c \in CategoryId, DeleteCategory(u, c) PROVE Inv'
  BY <1>2, DeleteCategoryStep
<1>3. QED
  BY <1>1, <1>2 DEF CategoryController

LEMMA NextInv == ASSUME Inv, Next PROVE Inv'
BY ThreadStep, WebStep, AppStep, CategoryStep, SweepStep, OtherStep DEF Next, Sweep

LEMMA Invariance == Spec => []Inv
<1>1. ASSUME Inv, UNCHANGED vars PROVE Inv'
  BY <1>1 DEF vars, Inv, TypeOK, Known, RowsFine, ThreadsFine
<1>2. Inv /\ [Next]_vars => Inv'
  BY <1>1, NextInv
<1>3. QED
  BY <1>2, InitInv, PTL DEF Spec

-----------------------------------------------------------------------------
(* The theorems.                                                           *)

\* Every reachable state is type correct.
THEOREM LedgerTypeCorrect == Spec => []TypeOK
<1>1. Inv => TypeOK
  BY DEF Inv
<1>2. QED
  BY <1>1, Invariance, PTL

\* A transaction's category is there, and is its user's own or a default one
\* (the check and the write of Create, Update and Import).
THEOREM CategoriesVisible == Spec => []CategoryVisible
<1>1. Inv => CategoryVisible
  BY DEF Inv, RowsFine, Filed, RowFine, Own, CategoryVisible
<1>2. QED
  BY <1>1, Invariance, PTL

\* An imported row is under a category of its own name and type, or under none
\* (categoryCache and cacheKey of the import).
THEOREM ImportsFiled == Spec => []ImportFiled
<1>1. Inv => ImportFiled
  BY DEF Inv, RowsFine, Filed, RowFine, Own, ImportFiled
<1>2. QED
  BY <1>1, Invariance, PTL

\* An exported row names the category it was read with (Export and its categoryNames).
THEOREM ExportsNamed == Spec => []ExportNamed
<1>1. Inv => ExportNamed
  <2> SUFFICES ASSUME Inv, NEW t \in Thread, thr[t].pc = "file", NEW r \in thr[t].rows,
                      r.category # None, cats[r.category] # None
               PROVE  r.name = cats[r.category].name
    BY DEF ExportNamed
  <2>1. FileFine(thr[t], cats, used)
    BY LocalAt DEF Inv, ThreadsFine
  <2>2. QED
    BY <2>1 DEF FileFine
<1>2. QED
  BY <1>1, Invariance, PTL

=============================================================================
