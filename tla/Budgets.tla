------------------------------- MODULE Budgets -------------------------------
(***************************************************************************)
(* Budgets that account managers and admins plan per account: for a week,  *)
(* a month and in total (WeeklyBudgetService, AccountBudgetService), the   *)
(* spend they are compared with, and the mail of the week just ended.      *)
(*                                                                         *)
(* Days are numbers; day 0 is a Monday.  set_budget looks for a row, then  *)
(* changes it or inserts one, and commits; another session may commit in   *)
(* between.                                                                *)
(***************************************************************************)
EXTENDS Integers, Functions, FiniteSets, FiniteSetsExt

CONSTANTS
  Accounts,     \* accounts that are no managers
  Planners,     \* threads that serve requests
  MonthLength,  \* days of a month
  LastDay,      \* bound: the last day
  DaySpend,     \* DaySpend[d]: what is spent on day d
  MaxAmounts    \* bound: committed budgets; an amount is the number of its commit

ASSUME BudgetAssumption ==
  /\ MonthLength \in Nat \ {0}
  /\ LastDay \in Nat /\ MaxAmounts \in Nat
  /\ DaySpend \in [0..LastDay -> Nat]

VARIABLES
  today,    \* date.today()
  budgets,  \* rows: [account, period, start, amount, day]; day is the day entered
  edit,     \* edit[t]: the request of thread t and whether it found a row, or NoEdit
  amounts,  \* number of the newest amount
  mails     \* what the mail of today reported, per account

budgetVars == <<today, budgets, edit, amounts, mails>>

Days    == 0..LastDay
NoEdit  == [period |-> "none"]
Periods == {"week", "month", "total"}
Total   == -1     \* TOTAL_SENTINEL

\* The spend of a day is in the snapshots once the day is over.
Spent(d) == IF d < today THEN DaySpend[d] ELSE 0

\* Mutant of Monday: the week starts on Sunday.
MondaySunday(d) == d - ((d + 1) % 7)

\* _monday
Monday(d) == d - (d % 7)

\* _first_of_month
FirstOfMonth(d) == d - (d % MonthLength)

\* The key of the row that a budget is kept under.
StartOf(period, d) ==
  CASE period = "week"  -> Monday(d)
    [] period = "month" -> FirstOfMonth(d)
    [] period = "total" -> Total

BudgetInit ==
  /\ today = 0
  /\ budgets = {}
  /\ edit = [t \in Planners |-> NoEdit]
  /\ amounts = 0
  /\ mails = {}

\* Bound: no request is under way at midnight.
NextDay ==
  /\ today < LastDay /\ \A t \in Planners : edit[t] = NoEdit
  /\ today' = today + 1
  /\ mails' = {}
  /\ UNCHANGED <<budgets, edit, amounts>>

-----------------------------------------------------------------------------
SameKey(b, e) == b.account = e.account /\ b.period = e.period /\ b.start = e.start

\* set_budget up to the SELECT; any day of the period may be entered.
FindBudget(t) ==
  /\ edit[t] = NoEdit /\ amounts < MaxAmounts
  /\ \E a \in Accounts, p \in Periods, d \in {0, today} :
       LET e == [account |-> a, period |-> p, start |-> StartOf(p, d), day |-> d]
       IN  edit' = [edit EXCEPT ![t] =
             [account |-> a, period |-> p, start |-> StartOf(p, d), day |-> d,
              found |-> \E b \in budgets : SameKey(b, e)]]
  /\ UNCHANGED <<today, budgets, amounts, mails>>

\* account_weekly_budget_uq, account_budget_uq.
Taken(e) == \E b \in budgets : SameKey(b, e)

\* The row that was found is changed, or one is inserted; the unique key refuses
\* it when another session has inserted one by now, and the request fails.
SetBudget(t) ==
  /\ edit[t] # NoEdit
  /\ LET e   == edit[t]
         row == [account |-> e.account, period |-> e.period, start |-> e.start,
                 amount |-> amounts + 1, day |-> e.day]
     IN  IF ~e.found /\ Taken(e)
         THEN UNCHANGED <<budgets, amounts>>
         ELSE /\ budgets' = {row} \cup
                   IF e.found THEN {b \in budgets : ~SameKey(b, e)} ELSE budgets
              /\ amounts' = amounts + 1
  /\ edit' = [edit EXCEPT ![t] = NoEdit]
  /\ UNCHANGED <<today, mails>>

-----------------------------------------------------------------------------
SpendOver(days) == SumFunctionOnSet([d \in Days |-> Spent(d)], days)

\* The Mondays of the last weeks, the current one included.
WeekStarts(weeks) == {Monday(today) - 7 * i : i \in 0..(weeks - 1)}

\* WeeklyBudgetService.overview: each day of the window is booked on its Monday.
WeekSpend(w, weeks) ==
  SpendOver({d \in Days : /\ Monday(d) = w
                          /\ Min(WeekStarts(weeks)) <= d /\ d <= Monday(today) + 6})

\* AccountBudgetService._spend: from the first of the month, or from ever.
PeriodSpend(start) == SpendOver({d \in Days : start <= d /\ d <= today})

BudgetOf(a, period, start) ==
  {b \in budgets : b.account = a /\ b.period = period /\ b.start = start}

\* weekly_email_html, on Monday by the scheduler or any day on request: the week
\* that just ended, this month and all time, each with its budget.
Mail ==
  /\ LET lastWeek == Monday(today) - 7
     IN  mails' =
           {[day |-> today, account |-> a,
             week  |-> WeekSpend(lastWeek, 3),
             month |-> PeriodSpend(FirstOfMonth(today)),
             total |-> PeriodSpend(0),
             budget |-> BudgetOf(a, "week", lastWeek) \cup
                        BudgetOf(a, "month", FirstOfMonth(today))] : a \in Accounts}
  /\ UNCHANGED <<today, budgets, edit, amounts>>

BudgetNext ==
  \/ NextDay \/ Mail
  \/ \E t \in Planners : FindBudget(t) \/ SetBudget(t)

-----------------------------------------------------------------------------
(* Properties.                                                             *)

\* A mail on whatever day reports the days of the last full week, the days of the
\* month so far and all days so far, each day once, and sets against them the
\* budgets that were entered for a day of that week and of that month, one of each,
\* however sessions have raced to enter them.
MailedPeriodsWhole ==
  \A m \in mails :
    LET week  == {d \in Days : d \div 7 = (m.day \div 7) - 1}
        month == {d \in Days : d < m.day /\ d \div MonthLength = m.day \div MonthLength}
        All(days) == SumFunctionOnSet(DaySpend, days)
    IN  /\ \A b, c \in m.budget : b.period = c.period => b = c
        /\ m.week = All(week) /\ m.month = All(month) /\ m.total = All(0..(m.day - 1))
        /\ \A b \in m.budget :
             \/ b.period = "week" /\ b.day \in week
             \/ b.period = "month" /\ b.day \div MonthLength = m.day \div MonthLength

=============================================================================
