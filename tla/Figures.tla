------------------------------ MODULE Figures ------------------------------
(***************************************************************************)
(* What internal/service/advisor computes from a user's transactions: the  *)
(* summary for the language model, the financial score, the subscriptions, *)
(* the runway to the next payday, the pace of the month's budget. Sums and *)
(* ratios are exact here; the program computes them in floating point.     *)
(* A transaction is of an instant, not of a day (timestamptz): instants    *)
(* are counted in hours, and a day has 24 of them (the server keeps UTC).  *)
(***************************************************************************)
EXTENDS Integers, FiniteSets, FiniteSetsExt, Functions

CONSTANTS
    Batches,      \* transactions recorded together: one, or an imported statement
    Name,         \* the name of each category
    Rate,         \* rateToUAH, for the currencies that have a rate
    MaxBatches,   \* bound: batches recorded
    Moments,      \* instants at which the figures are asked for
    None          \* the zero time, the empty note, no category

\* Any number is taken for an amount, and any instant for that of a transaction.
ASSUME BatchesAssumption ==
    \A B \in Batches : IsFiniteSet(B) /\ \A tx \in B : tx.amount \in Int /\ tx.at \in Int

ASSUME RateAssumption == \A c \in DOMAIN Rate : Rate[c] \in Nat \ {0}

\* What makes sums exact: an amount is a whole number in every currency.
ASSUME ExactAssumption ==
    \A B \in Batches : \A tx \in B : tx.currency \in DOMAIN Rate =>
        \A c \in DOMAIN Rate : (tx.amount * Rate[tx.currency]) % Rate[c] = 0

ASSUME MomentsAssumption == Moments \subseteq Int

VARIABLES
    txs,   \* the user's transactions
    moment, \* now
    batches \* batches recorded so far

vars == <<txs, moment, batches>>

Init == txs = {} /\ moment \in Moments /\ batches = 0

\* Also for a day that is yet to come: Create takes any date.
Record(B) ==
    /\ batches < MaxBatches /\ batches' = batches + 1
    /\ ~(B \subseteq txs)
    /\ txs' = txs \cup B
    /\ UNCHANGED moment

Next == \E B \in Batches : Record(B)

Spec == Init /\ [][Next]_vars

-----------------------------------------------------------------------------
(* Instants and days.                                                      *)

Hours(days)   == 24 * days
Midnight(day) == Hours(day)   \* the instant it begins
Day(tx)       == tx.at \div 24
today         == moment \div 24

-----------------------------------------------------------------------------
(* The calendar, as it is from 1901 to 2099: every fourth year is a leap  *)
(* year. Day 1 is the January 1st after one.                               *)

\* The day before month m begins.
First(m) ==
    LET y == (m - 1) \div 12
        k == (m - 1) % 12 IN
    365 * y + y \div 4 + (IF y % 4 = 3 /\ k >= 2 THEN 1 ELSE 0)
    + <<0, 31, 59, 90, 120, 151, 181, 212, 243, 273, 304, 334>>[k + 1]

Length(m) == First(m + 1) - First(m)

Year(day)   == (4 * day - 1) \div 1461
Months(day) == 12 * Year(day) + 1..12 * Year(day) + 12
Month(day)  == CHOOSE m \in Months(day) : First(m) < day /\ day <= First(m + 1)
DayOf(day)  == day - First(Month(day))

\* time.Date: a day past the end of its month runs into the next.
Date(m, d) == First(m) + d

\* AddDate(0, months, 0), likewise.
AddMonths(day, months) == Date(Month(day) + months, DayOf(day))

startOfThisMonth == Date(Month(today), 1)

-----------------------------------------------------------------------------
(* Money in one currency. The amounts of Batches divide exactly.           *)

convert(amount, from, to) ==
    IF from = to \/ ~({from, to} \subseteq DOMAIN Rate) THEN amount
    ELSE (amount * Rate[from]) \div Rate[to]

Total(S, to) == SumFunction([tx \in S |-> convert(tx.amount, tx.currency, to)])

Income(S)  == {tx \in S : tx.type = "income"}
Expense(S) == S \ Income(S)
Of(S, c)   == {tx \in S : tx.category = c}
CategoriesOf(S) == {tx.category : tx \in S}

\* Money between the user's own accounts is neither, and ListForUser lists nothing
\* later than now.
Real(S) == {tx \in S : ~tx.transfer /\ tx.at <= moment}

\* ListForUser, from an instant on.
Since(S, from) == {tx \in Real(S) : tx.at >= from}

Days(S) == {Day(tx) : tx \in S}

-----------------------------------------------------------------------------
(* The financial score.                                                    *)

\* Of n/d: between 0 and 100, rounded half up.
clampScore(n, d) ==
    IF n < 0 THEN 0 ELSE IF n > 100 * d THEN 100 ELSE (2 * n + d) \div (2 * d)

scoreWindow == Hours(30)

TopCategory(S, to) == Max({0} \cup {Total(Of(S, c), to) : c \in CategoriesOf(S)})

FinancialScore(S, base) ==
    LET W == Since(S, moment - scoreWindow)
        income  == Total(Income(W), base)
        expense == Total(Expense(W), base)
        savings == IF income > 0 THEN clampScore(500 * (income - expense), income) ELSE 0
        balance == IF expense > 0
                   THEN clampScore(150 * expense - 200 * TopCategory(Expense(W), base), expense)
                   ELSE clampScore(150, 1)
        days    == Cardinality(Days(W))
        consistency == clampScore(5 * days, 1) IN
    [ savings |-> savings, balance |-> balance, consistency |-> consistency, days |-> days,
      total |-> (2 * (4 * savings + 3 * balance + 3 * consistency) + 10) \div 20 ]

-----------------------------------------------------------------------------
(* The summary: this month and the last. The percentages in its text are   *)
(* quotients of these numbers, and 0 where they would divide by zero.      *)

\* Categories of one name are one.
ByName(S, base) ==
    [n \in {Name[c] : c \in CategoriesOf(S)} |->
        Total({tx \in S : Name[tx.category] = n}, base)]

buildSummary(S, base) ==
    LET this == Since(S, Midnight(startOfThisMonth))
        last == Since(S, Midnight(AddMonths(startOfThisMonth, -1))) \ this IN
    [ income      |-> Total(Income(this), base),
      expense     |-> Total(Expense(this), base),
      lastIncome  |-> Total(Income(last), base),
      lastExpense |-> Total(Expense(last), base),
      top         |-> ByName(Expense(this), base),
      topIncome   |-> ByName(Income(this), base),
      score       |-> FinancialScore(S, base).total ]

-----------------------------------------------------------------------------
(* Subscriptions: expenses of one note, by their average interval.         *)

subscriptionWindow == Hours(180)

Charges(S, note) == {tx \in Expense(Since(S, moment - subscriptionWindow)) : tx.note = note}
Times(S) == {tx.at : tx \in S}
Abs(n)  == IF n < 0 THEN -n ELSE n

DetectSubscriptions(S) ==
    {note \in {tx.note : tx \in S} \ {None} :
        LET C == Charges(S, note)
            n == Cardinality(C)
            sum == SumFunction([tx \in C |-> tx.amount]) IN
        /\ n >= 3 /\ sum # 0
        /\ Max(Times(C)) - Min(Times(C)) \in Hours(20 * (n - 1))..Hours(40 * (n - 1))
        /\ \A tx \in C : 5 * Abs(n * tx.amount - sum) <= Abs(sum)}

-----------------------------------------------------------------------------
(* The runway.                                                             *)

\* The category with the most income, more than none at all; between equals, the
\* map's order decides.
SalaryCategories(S, base) ==
    LET paid(c) == Total(Of(Income(S), c), base)
        paying  == {c \in CategoriesOf(Income(S)) : paid(c) > 0} IN
    IF paying = {} THEN {None} ELSE {c \in paying : \A e \in paying : paid(c) >= paid(e)}

\* A candidate is a midnight, after now if its day is after today.
\* Slip: the payday of today is the next one.
NextPaydayFromToday(typicalDay) ==
    LET candidate == Date(Month(today), typicalDay) IN
    IF candidate >= today THEN candidate ELSE AddMonths(candidate, 1)

NextPayday(typicalDay) ==
    LET candidate == Date(Month(today), typicalDay) IN
    IF candidate > today THEN candidate ELSE AddMonths(candidate, 1)

Payday(S, c) ==
    LET paid == Of(Income(S), c)
        n == Cardinality(paid) IN
    IF n < 2 THEN None
    ELSE NextPayday(SumFunction([tx \in paid |-> DayOf(Day(tx))]) \div n)

Paydays(S, base) == {Payday(S, c) : c \in SalaryCategories(S, base)}

Balance(S, base) == Total(Income(S), base) - Total(Expense(S), base)

runwayBurnWindow == Hours(30)

\* What was spent in the window, thirty times the daily burn.
Burn(S, base) == Total({tx \in Expense(S) : tx.at >= moment - runwayBurnWindow}, base)

\* Go's conversion to int cuts towards zero.
Cut(n, d) == IF n >= 0 THEN n \div d ELSE -((-n) \div d)

\* The day of it. Its hour is that of now, which does not bring it past a midnight.
ProjectedZeroDate(S, base) == today + Cut(30 * Balance(S, base), Burn(S, base))

WillMakeIt(S, base, payday) ==
    ~(/\ Burn(S, base) > 0 /\ payday # None
      /\ ProjectedZeroDate(S, base) < payday)

Runway(S, base) ==
    {[payday |-> p, makeIt |-> WillMakeIt(Real(S), base, p)] : p \in Paydays(Real(S), base)}

-----------------------------------------------------------------------------
(* The pace of the budget.                                                 *)

paceHistoryMonths == 3

\* Of every category with history that does not cancel out: what was spent this
\* month, what was spent in the months before, and the pace as a fraction.
BudgetPace(S, base) ==
    LET W == Expense(Since(S, Midnight(AddMonths(startOfThisMonth, -paceHistoryMonths))))
        history == {tx \in W : tx.at < Midnight(startOfThisMonth)}
        before(c) == Total(Of(history, c), base)
        spent(c)  == Total(Of(W \ history, c), base) IN
    [c \in {c \in CategoriesOf(history) : before(c) # 0} |->
        [ spent |-> spent(c), before |-> before(c),
          pace  |-> <<spent(c) * paceHistoryMonths * Length(Month(today)),
                      before(c) * DayOf(today)>> ]]

-----------------------------------------------------------------------------
Bases == DOMAIN Rate

\* What happened in so many days of 24 hours, up to now.
LastDays(n) == {tx \in Real(txs) : moment - tx.at \in 0..24 * n}

\* The score is what its comment says of the last 30 days (advisor.go:133-138): 20%
\* saved, no category above 25% and 20 of 30 dates are full marks, nothing saved and
\* 75% in one are none, and the base currency does not matter while every currency
\* has a rate. The window begins at an hour of the day, and so it may touch one date
\* more than 30: nobody has full marks without 19 of them.
ScoreAsDocumented ==
    \A base \in Bases :
      LET s == FinancialScore(txs, base)
          W == LastDays(30)
          income  == Total(Income(W), base)
          expense == Total(Expense(W), base)
          top     == TopCategory(Expense(W), base)
          dates   == Cardinality(Days(Real(txs)) \cap today - 29..today) IN
      /\ {s.savings, s.balance, s.consistency, s.total} \subseteq 0..100
      /\ income > 0 => /\ 5 * (income - expense) >= income => s.savings = 100
                       /\ income <= expense => s.savings = 0
      /\ expense > 0 => /\ 4 * top <= expense => s.balance = 100
                        /\ 4 * top >= 3 * expense => s.balance = 0
      /\ dates >= 20 => s.consistency = 100
      /\ s.consistency = 100 => dates >= 19
      /\ {tx.currency : tx \in txs} \subseteq Bases =>
            \A b \in Bases : s = FinancialScore(txs, b)

\* The model is told numbers that add up (advisor.go:307-310): the categories it
\* sees are all of the month's money, and both months are calendar months.
SummaryAddsUp ==
    \A base \in Bases :
      LET s == buildSummary(txs, base)
          In(m) == {tx \in Real(txs) : Month(Day(tx)) = m} IN
      /\ SumFunction(s.top) = s.expense /\ SumFunction(s.topIncome) = s.income
      /\ s.income - s.expense = Balance(In(Month(today)), base)
      /\ s.lastIncome - s.lastExpense = Balance(In(Month(today) - 1), base)

\* A charge of one amount on one day of the month, at any hour, three months running,
\* is found (insights.go:36-41); what is found was charged for 40 days at least, and
\* never varied by more than half.
SubscriptionsFound ==
    \A note \in {tx.note : tx \in txs} \ {None} :
      LET C == {tx \in Expense(LastDays(180)) : tx.note = note}
          months == {Month(Day(tx)) : tx \in C} IN
      /\ (/\ Cardinality(C) = Cardinality(months) /\ Cardinality(C) >= 3
          /\ months = Min(months)..Max(months)
          /\ \A tx \in C : tx.amount # 0
          /\ Cardinality({<<DayOf(Day(tx)), tx.amount>> : tx \in C}) = 1)
            => note \in DetectSubscriptions(txs)
      /\ note \in DetectSubscriptions(txs) =>
            /\ Max(Times(C)) - Min(Times(C)) >= 24 * 40
            /\ \A a, b \in C : 2 * Abs(a.amount) <= 3 * Abs(b.amount)

\* The next payday is ahead, by a month at most, also where the usual day is one
\* that this month or the next does not have (insights.go:213-220). The spending is
\* that of the thirty days the score looks at, and the forecast says yes exactly
\* when the balance lasts until the payday at that rate.
RunwayHonest ==
    \A base \in Bases :
      LET S == Real(txs) IN
      /\ Burn(S, base) = Total(Expense(LastDays(30)), base)
      /\ \A f \in Runway(txs, base) : f.payday # None =>
            /\ today < f.payday /\ f.payday <= today + 31
            /\ Burn(S, base) > 0 =>
                (f.makeIt <=> 30 * Balance(S, base) >= Burn(S, base) * (f.payday - today))

\* Spending at the pace of the months before is on pace (insights.go:249: "1.0 =
\* right on pace"): a category is over pace exactly when its month, at this rate,
\* ends above the average of the three calendar months before.
PaceAsDocumented ==
    \A base \in Bases :
      LET In(m, c) == Total(Expense({tx \in Real(txs) : Month(Day(tx)) = m /\ tx.category = c}), base)
          m == Month(today)
          P == BudgetPace(txs, base) IN
      \A c \in CategoriesOf(Real(txs)) :
        LET months == In(m - 1, c) + In(m - 2, c) + In(m - 3, c) IN
        /\ c \in DOMAIN P <=> months # 0
        /\ months > 0 => (P[c].pace[1] > P[c].pace[2] <=>
                           3 * In(m, c) * Length(m) > months * DayOf(today))

FiguresSound ==
    /\ ScoreAsDocumented /\ SummaryAddsUp /\ SubscriptionsFound
    /\ RunwayHonest /\ PaceAsDocumented
=============================================================================
