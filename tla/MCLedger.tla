----------------------------- MODULE MCLedger -----------------------------
\* Ledger on a small instance: two default categories of one name, one of each
\* type, as the migration seeds them; a file with a row under one of them in
\* another spelling, a row with a category of its own, and an unreadable one.
EXTENDS Ledger, TLC

CONSTANTS c1, d1, d2, other, OTHER_, food

DateSet == {-1, 0}
Names  == {other, OTHER_, food}
Folds  == [n \in Names |-> IF n = OTHER_ THEN other ELSE n]
Seeds  == (d1 :> [owner |-> None, name |-> other, type |-> "expense"])
          @@ (d2 :> [owner |-> None, name |-> other, type |-> "income"])
Row(type, category, date) ==
    [type |-> type, category |-> category, date |-> date, amount |-> "1.00"]
Bodies ==
    { [category |-> d1, amount |-> "1.00", type |-> "transfer", date |-> -1],
      [category |-> c1, amount |-> "1.00", type |-> "income", date |-> 0],
      [category |-> None, amount |-> "", type |-> "expense", date |-> -1] }
Categories == {[name |-> food, type |-> "expense"], [name |-> food, type |-> "transfer"]}
Files == { << Row("dokhid", OTHER_, 0), Row("expense", food, -1), Row("vytrata", None, None) >> }
=============================================================================
