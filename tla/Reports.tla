------------------------------- MODULE Reports -------------------------------
(***************************************************************************)
(* The figures of the dashboards: AnalyticsService, whose numbers come     *)
(* from separate queries of one Promise.all, and the summaries agents ask  *)
(* for, which group their rows in one query. People write while they run.  *)
(* Dates are a month and a day; months are numbered on from a first one.   *)
(***************************************************************************)
EXTENDS Integers, Sequences, FiniteSets, FiniteSetsExt

CONSTANTS
    Lengths,    \* the length of each month
    Todays,     \* dates on which a report may be asked for
    Dates,      \* dates of payments and expenses
    Bars,       \* months the revenue chart shows
    Listed,       \* projects, leads, or tasks
    RowStages,     \* their statuses
    Done,       \* the status that counts as completed
    MaxWrites   \* bound on what people write

ASSUME ReportAssumption ==
    /\ Lengths \in Seq(28..31) /\ IsFiniteSet(Dates) /\ IsFiniteSet(Listed) /\ IsFiniteSet(RowStages)
    /\ \A t \in Todays \cup Dates : t.m \in DOMAIN Lengths /\ t.d \in 1..Lengths[t.m]
    /\ Todays \subseteq Dates /\ Bars \in Nat /\ \A t \in Todays : t.m > Bars
    /\ Done \in RowStages /\ "none" \notin RowStages /\ MaxWrites \in Nat

VARIABLES
    today,      \* when the report is asked for
    paid,       \* payments that are PAID, by date
    outgoings,      \* expenses that are APPROVED, by date
    stage,      \* each row's status; "none": there is no such row
    reporting,      \* the report being computed
    figures,    \* its answers so far: a set of [figure, value]
    chart,      \* the bars of the revenue chart: a set of [month, amount]
    quiet,      \* history: nothing was written since the report was asked for
    writes      \* writes so far

reportVars == <<today, paid, outgoings, stage, reporting, figures, chart, quiet, writes>>

Before(s, t) == s.m < t.m \/ (s.m = t.m /\ s.d < t.d)
Total(amounts, dates) == MapThenSumSet(LAMBDA t : amounts[t], dates)
InMonth(m) == {t \in Dates : t.m = m}
SinceMonth(m) == {t \in Dates : t.m >= m}
Count(stages) == Cardinality({r \in Listed : stage[r] \in stages})

-----------------------------------------------------------------------------
(* Pure parts *)

\* Date.setMonth: a day the month does not have runs on into the next one.
SetMonth(t, m) == IF t.d <= Lengths[m] THEN [m |-> m, d |-> t.d] ELSE [m |-> m + 1, d |-> t.d - Lengths[m]]

\* Mutant: the current month is left out.
Months_Past == {SetMonth(today, today.m - i).m : i \in 1..Bars}

\* The months getRevenueChart prepares a bar for.
Months == {SetMonth(today, today.m - i).m : i \in 0..(Bars - 1)}

\* Payments since the start date, each added to the bar of its month, if there is one.
RevenueChart ==
    LET startDate == SetMonth(today, today.m - Bars) IN
    {[month |-> m, amount |-> Total(paid, {t \in InMonth(m) : ~Before(t, startDate)})] : m \in Months}

\* computeChange: the sign of its percentage.
ComputeChange(current, previous) ==
    IF previous = 0 THEN (IF current = 0 THEN "Flat" ELSE "+")
    ELSE IF (current >= previous) = (previous > 0) \/ current = previous THEN "+" ELSE "-"

-----------------------------------------------------------------------------
(* Reports *)

Totals == {"revenue", "expenses", "rows", "completed"}
Periods == {"revenueNow", "revenueBefore", "expensesNow", "expensesBefore"}

\* A status is counted under its own name.
ASSUME FigureAssumption == RowStages \cap (Totals \cup Periods) = {}

Figure(name) ==
    CASE name = "revenue" -> Total(paid, Dates)
      [] name = "expenses" -> Total(outgoings, Dates)
      [] name = "rows" -> Count(RowStages)
      [] name = "completed" -> Count({Done})
      [] name = "revenueNow" -> Total(paid, SinceMonth(today.m))
      [] name = "revenueBefore" -> Total(paid, InMonth(today.m - 1))
      [] name = "expensesNow" -> Total(outgoings, SinceMonth(today.m))
      [] name = "expensesBefore" -> Total(outgoings, InMonth(today.m - 1))
      [] OTHER -> Count({name})

Answered == {f.figure : f \in figures}
Value(name) == (CHOOSE f \in figures : f.figure = name).value

\* The queries that are under way: those of a Promise.all, in any order; those of
\* the second one start when the first is through.
Awaited ==
    (CASE reporting = "dashboard" -> IF Totals \subseteq Answered THEN Periods ELSE Totals
       [] reporting = "stages" -> RowStages
       [] OTHER -> {}) \ Answered

IsComplete == reporting # "none" /\ Awaited = {}

ReportTypeOK ==
    /\ today \in Todays /\ paid \in [Dates -> Nat] /\ outgoings \in [Dates -> Nat]
    /\ stage \in [Listed -> RowStages \cup {"none"}]
    /\ reporting \in {"none", "dashboard", "stages", "grouped", "chart"}
    /\ \A f \in figures : f.figure \in Totals \cup Periods \cup RowStages /\ f.value \in Nat
    /\ \A b \in chart : b.month \in DOMAIN Lengths /\ b.amount \in Nat
    /\ quiet \in BOOLEAN /\ writes \in 0..MaxWrites

ReportInit ==
    /\ today \in Todays
    /\ paid = [t \in Dates |-> IF Before(today, t) THEN 0 ELSE 1] /\ outgoings = [t \in Dates |-> 0]
    /\ stage = [r \in Listed |-> "none"]
    /\ reporting = "none" /\ figures = {} /\ chart = {} /\ quiet = TRUE /\ writes = 0

\* A dashboard and the counts of getProjectStats and getLeadConversion take
\* several queries; businessSnapshot and financeSummary group, and the chart
\* reads its payments, in one.
AskFor(report) ==
    /\ reporting = "none" /\ reporting' = report
    /\ figures' = IF report = "grouped" THEN {[figure |-> s, value |-> Figure(s)] : s \in RowStages} ELSE {}
    /\ chart' = IF report = "chart" THEN RevenueChart ELSE {}
    /\ quiet' = TRUE
    /\ UNCHANGED <<today, paid, outgoings, stage, writes>>

QueryFigure(name) ==
    /\ name \in Awaited
    /\ figures' = figures \cup {[figure |-> name, value |-> Figure(name)]}
    /\ UNCHANGED <<today, paid, outgoings, stage, reporting, chart, quiet, writes>>

Reported ==
    /\ IsComplete
    /\ reporting' = "none" /\ figures' = {} /\ chart' = {}
    /\ UNCHANGED <<today, paid, outgoings, stage, quiet, writes>>

SomebodyWrites ==
    /\ writes < MaxWrites /\ writes' = writes + 1 /\ quiet' = FALSE
    /\ UNCHANGED <<today, reporting, figures, chart>>

\* PaymentsService: paidAt is the time of the call; a refund keeps it.
Pay == SomebodyWrites /\ paid' = [paid EXCEPT ![today] = @ + 1] /\ UNCHANGED <<outgoings, stage>>
Refund(t) == SomebodyWrites /\ paid[t] > 0 /\ paid' = [paid EXCEPT ![t] = @ - 1] /\ UNCHANGED <<outgoings, stage>>

\* ExpensesService.approve: the date of an expense is whatever its submitter says.
Approve(t) == SomebodyWrites /\ outgoings' = [outgoings EXCEPT ![t] = @ + 2] /\ UNCHANGED <<paid, stage>>

\* A row is created, moved, or deleted.
MoveRow(r, s) ==
    /\ SomebodyWrites /\ stage[r] # s
    /\ stage' = [stage EXCEPT ![r] = s] /\ UNCHANGED <<paid, outgoings>>

ReportNext ==
    \/ \E report \in {"dashboard", "stages", "grouped", "chart"} : AskFor(report)
    \/ \E name \in Totals \cup Periods \cup RowStages : QueryFigure(name)
    \/ Reported
    \/ Pay \/ \E t \in Dates : Refund(t) \/ Approve(t)
    \/ \E r \in Listed, s \in RowStages \cup {"none"} : MoveRow(r, s)

ReportSpec == ReportInit /\ [][ReportNext]_reportVars

-----------------------------------------------------------------------------
(* Properties *)

\* The figures of a report agree with each other, unless something was written
\* while they were read: no more is completed than there is, the months are part
\* of the whole, each row is counted in one status. (A row that is moved while
\* the statuses are counted one by one is missed or counted twice.)
FiguresAgree ==
    IsComplete /\ quiet =>
        /\ reporting = "dashboard" =>
            /\ Value("completed") <= Value("rows")
            /\ Value("revenueNow") + Value("revenueBefore") <= Value("revenue")
            /\ Value("expensesNow") + Value("expensesBefore") <= Value("expenses")
        /\ reporting \in {"stages", "grouped"} => MapThenSumSet(Value, RowStages) = Count(RowStages)

\* The revenue chart shows each of its months with all of the month's payments,
\* on a day of the month that every month of the window has: on a 29th, 30th or
\* 31st the shorter months have no bar, and what was paid in them is not shown.
ChartIsWhole ==
    reporting = "chart" /\ quiet /\ (\A m \in (today.m - Bars)..today.m : today.d <= Lengths[m]) =>
        chart = {[month |-> m, amount |-> Total(paid, InMonth(m))] : m \in (today.m - Bars + 1)..today.m}

\* The trend of a figure points where the figure went, of the profit too unless
\* there was a loss last month or nothing at all.
TrendPointsRight ==
    IsComplete /\ reporting = "dashboard" =>
        LET profitNow == Value("revenueNow") - Value("expensesNow")
            profitBefore == Value("revenueBefore") - Value("expensesBefore")
            Right(now, before) == ComputeChange(now, before) = "-" <=> now < before
        IN  /\ Right(Value("revenueNow"), Value("revenueBefore"))
            /\ Right(Value("expensesNow"), Value("expensesBefore"))
            /\ profitBefore > 0 => Right(profitNow, profitBefore)
=============================================================================
