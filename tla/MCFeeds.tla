------------------------------ MODULE MCFeeds ------------------------------
EXTENDS Feeds, TLC

CONSTANTS a, b, c

CategoryList == <<a, b, c>>

Names == "pay" :> "Pay" @@ "home" :> "Life" @@ "food" :> "Life" @@ "car" :> "Car" @@ "fun" :> "Fun"
Rates == "UAH" :> 1 @@ "USD" :> 40

Tx(type, amount, currency, category, at, note) ==
    [ type |-> type, amount |-> amount, currency |-> currency, category |-> category,
      at |-> at, note |-> note, transfer |-> FALSE ]

At(m, d, hour) == 24 * Date(m, d) + hour

\* The last days of months, in the second year, at the hours a bank has them.
MonthEnds == {At(13, 31, 9), At(14, 28, 0), At(15, 30, 18), At(15, 31, 0), At(16, 28, 9), At(16, 30, 0)}

\* One day, thirty days before the third of Instants: before its hour and after.
Edges == {At(15, 31, 0), At(15, 31, 18)}

Single ==
    {Tx("income", 400, "UAH", "pay", t, None) : t \in MonthEnds}
    \cup {Tx("expense", 40, "UAH", "home", t, "rent") : t \in MonthEnds}
    \cup {Tx("expense", 40, "UAH", "food", t, None) : t \in Edges}
    \cup {Tx("expense", n, "UAH", "food", t, None) :
            n \in {40, 400}, t \in {At(14, 28, 0), At(16, 28, 9)}}
    \cup {Tx("expense", 40, m, "food", At(16, 28, 9), None) : m \in {"USD", "JPY"}}
    \cup {Tx("expense", -40, "UAH", "food", At(16, 28, 9), None)}
    \cup {[Tx("income", 400, "UAH", "pay", At(16, 28, 9), None) EXCEPT !.transfer = TRUE]}

\* A statement: an expense on each of so many days in a row, in four categories.
Daily(from, n) ==
    {Tx("expense", 40, "UAH", <<"home", "food", "car", "fun">>[(d % 4) + 1], At(16, 0, 18) + 24 * d, None) :
        d \in from..from + n - 1}

Records  == {{tx} : tx \in Single} \cup {Daily(1, 20)}
Instants == {At(13, 31, 20), At(14, 28, 9), At(16, 30, 12), At(17, 1, 0), At(17, 31, 12)}
=============================================================================
