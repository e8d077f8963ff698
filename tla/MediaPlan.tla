------------------------------ MODULE MediaPlan ------------------------------
(***************************************************************************)
(* The media plan of a campaign: the budget split over ad groups and over  *)
(* the months, the forecast, the reality check, the planner that goes from *)
(* the goal to the budget and the final strategy with the manager's edits  *)
(* (services/ai/budget_planner.py, seasonality_service.py,                 *)
(* reverse_planner.py, cpl_optimizer.py, approval_service.py).             *)
(*                                                                         *)
(* Budgets are whole rupees, prices of a click hundredths of one, rates    *)
(* percentages; None is 0.  Rounding is Python's, of the exact quotient.   *)
(***************************************************************************)
EXTENDS Rounding, FiniteSetsExt

CONSTANTS
  Months,          \* number of months of the year
  Requests,        \* what a plan may be asked for, and what is known: the keywords are
                   \* [intent, price, clicks, volumes], the other accounts [clicks, cost]
  Doublings,       \* Doublings[n]: the logarithm to base 2 of n tenths, in thousandths
  Corrections,     \* what the manager may enter for a figure of the strategy
  MonthAmounts     \* and for months of the year, functions month -> amount

\* The budget's shares of the groups of keywords, by intent.
Weight ==
  [intent \in {"brand", "application", "fees", "informational"} |->
     CASE intent = "brand" -> 22 [] intent = "application" -> 16
       [] intent = "fees" -> 10  [] OTHER -> 2]

\* How many times what was spent a year the budget is, in tenths; 0 without any spend.
Multiple(r) == IF r.spend = 0 THEN 0 ELSE Rounded(10 * r.budget, r.spend)

ASSUME MediaPlanAssumption ==
  /\ Months \in Nat \ {0}
  /\ \A r \in Requests :
       /\ r.budget \in Nat \ {0} /\ r.rate \in Nat \ {0}
       /\ r.manual \in Nat /\ r.history \in Nat /\ r.spend \in Nat /\ r.demand \in Nat
       /\ r.ctr \in Nat /\ r.leads \in Nat /\ r.target \in Nat
       /\ IsFiniteSet(DOMAIN r.accounts)
       /\ \A a \in DOMAIN r.accounts : r.accounts[a] \in [clicks : Nat, cost : Nat]
       /\ IsFiniteSet(r.words) /\ r.words # {}
       /\ \A w \in r.words :
            /\ w.intent \in DOMAIN Weight /\ w.price \in Nat /\ w.clicks \in Nat
            /\ w.volumes = <<>> \/ w.volumes \in [1..Months -> Nat]
       /\ Multiple(r) > 10 => Doublings[Multiple(r)] \in Nat
  /\ \A field \in DOMAIN Corrections : Corrections[field] \subseteq Nat
  /\ \A amounts \in MonthAmounts : \A m \in DOMAIN amounts : amounts[m] \in Int

VARIABLES
  plan,            \* the stored plan, NoPlan before
  picked,          \* the effective keywords
  corrections,     \* overrides: field -> value, for the fields edited
  paced            \* pacing_overrides: month -> amount, for the months edited

planVars == <<plan, picked, corrections, paced>>

NoPlan == [available |-> FALSE]

----------------------------------------------------------------------------
(* Seasonality and the split over the months. *)

\* build_seasonality: the searches of each month, over all keywords.
Searches(words) ==
  [m \in 1..Months |-> Total([w \in {w \in words : w.volumes # <<>>} |-> w.volumes[m]])]

\* Mutant of Pacing: each month is rounded, and that is all.
PacingDrifting(budget, searches) ==
  [m \in 1..Months |-> IF Total(searches) = 0 THEN Rounded(budget, Months)
                       ELSE Rounded(budget * searches[m], Total(searches))]

\* Each month gets its share of the searches, all the same without any; the first of
\* the busiest absorbs what the rounding left.
Pacing(budget, searches) ==
  LET annual == Total(searches)
      raw    == [m \in 1..Months |-> IF annual = 0 THEN Rounded(budget, Months)
                                     ELSE Rounded(budget * searches[m], annual)]
      peak   == Min({m \in 1..Months : \A n \in 1..Months : searches[n] <= searches[m]})
  IN  [raw EXCEPT ![peak] = @ + budget - Total(raw)]

----------------------------------------------------------------------------
(* Allocation over the ad groups and the forecast. *)

\* The order of _group_keywords: brand first, then by the strength of the intent.
GroupOrder == <<"brand", "application", "fees", "informational">>

FirstPhase == {"brand", "application"}

\* The two numbers in the middle of those that f takes, the same one twice if there is one.
AtMost(f, x) == Cardinality({y \in DOMAIN f : f[y] <= f[x]})

LowerMiddle(f) ==
  Min({f[x] : x \in {x \in DOMAIN f : 2 * AtMost(f, x) >= Cardinality(DOMAIN f)}})

UpperMiddle(f) ==
  Min({f[x] : x \in {x \in DOMAIN f : 2 * AtMost(f, x) > Cardinality(DOMAIN f)}})

\* peer_benchmarks: the median price over the accounts with enough clicks.
PeerPrice(accounts) ==
  LET prices == [a \in {a \in DOMAIN accounts : accounts[a].clicks >= 50} |->
                   Rounded(100 * accounts[a].cost, accounts[a].clicks)]
  IN  IF DOMAIN prices = {} THEN 0 ELSE (LowerMiddle(prices) + UpperMiddle(prices)) \div 2

\* The price of a click the plan is anchored to: the manager's, that of the account's
\* history, that of the other colleges, 40 rupees.
Anchor(r) ==
  IF r.manual > 0 THEN r.manual ELSE IF r.history > 0 THEN r.history
  ELSE IF PeerPrice(r.accounts) > 0 THEN PeerPrice(r.accounts) ELSE 4000

\* _group_cpc_ctr: the price weighted by clicks, the median where no keyword has any,
\* within a band around the anchor.
GroupPrice(words, intent, anchor) ==
  LET priced == {w \in words : w.intent = intent /\ w.price > 0}
      paid   == {w \in priced : w.clicks > 0}
      price  == IF paid # {}
                THEN Rounded(Total([w \in paid |-> w.price * w.clicks]),
                             Total([w \in paid |-> w.clicks]))
                ELSE IF priced # {} THEN UpperMiddle([w \in priced |-> w.price])
                ELSE anchor
  IN  Min({Max({price, Rounded(35 * anchor, 100)}), 3 * anchor})

GroupsPresent(words) == {w.intent : w \in words}

FirstGroup(groups) == GroupOrder[Min({n \in DOMAIN GroupOrder : GroupOrder[n] \in groups})]

\* One row of the allocation.
GroupRow(r, intent, budget) ==
  LET price  == GroupPrice(r.words, intent, Anchor(r))
      clicks == (100 * budget) \div price
  IN  [intent |-> intent, budget |-> budget, price |-> price, clicks |-> clicks,
       phase |-> IF intent \in FirstPhase THEN 1 ELSE 2]

SumOf(rows, Field(_)) == Total([i \in DOMAIN rows |-> Field(rows[i])])

Only(rows, phase) == [i \in {i \in DOMAIN rows : rows[i].phase = phase} |-> rows[i]]

\* The rows, one for each group, the first of which absorbs what the rounding left, after
\* its clicks have been counted.
Allocation(r) ==
  LET groups == GroupsPresent(r.words)
      all    == Total([i \in groups |-> Weight[i]])
      rows   == [i \in groups |-> GroupRow(r, i, Rounded(r.budget * Weight[i], all))]
      drift  == r.budget - SumOf(rows, LAMBDA x : x.budget)
  IN  [rows EXCEPT ![FirstGroup(groups)].budget = @ + drift]

Blended(r, rows) ==
  LET clicks == SumOf(rows, LAMBDA x : x.clicks)
  IN  IF clicks = 0 THEN 0 ELSE Rounded(100 * r.budget, clicks)

\* 15% dearer for each doubling of the yearly spend, in hundredths of a thousandth.
Premium(r) == 100000 + IF Multiple(r) > 10 THEN 15 * Doublings[Multiple(r)] ELSE 0

NoRange == [low |-> 0, high |-> 0, price |-> 0]

\* build_realism: the clicks to expect at the price that history and scale suggest.
\* r.demand searches a year bound them, at three quarters of the impressions.
Realism(r, flat) ==
  IF r.history = 0 THEN NoRange
  ELSE LET price   == Rounded(r.history * Premium(r), 100000)
           ceiling == (r.demand * 75 * r.ctr) \div 10000
           bound(n) == IF ceiling > 0 THEN Min({n, ceiling}) ELSE n
           middle  == bound((100 * r.budget) \div price)
       IN  [price |-> price, low |-> (85 * middle) \div 100,
            high |-> IF ceiling > 0 THEN Min({bound(flat), (115 * middle) \div 100})
                     ELSE flat]

NoGoal == [feasible |-> FALSE]

\* build_reverse_plan: the clicks and the budget that a number of leads takes, and
\* whether the searches and the price of a lead allow it.
GoalPlan(r, price) ==
  LET clicks == Rounded(100 * r.leads, r.rate)
      room   == (75 * r.demand) \div 100
  IN  IF 0 \in {price, r.rate, r.leads, r.target} THEN NoGoal ELSE
      [clicks |-> clicks, budget |-> Rounded(clicks * price, 100),
       perLead |-> Rounded(price, r.rate),
       feasible |-> /\ r.demand = 0 \/ clicks <= room
                    /\ Rounded(price, r.rate) <= r.target]

\* The price that a budget spent on the first phase alone would pay.
Optimized(rows) ==
  LET first == Only(rows, 1)
      cost  == SumOf(first, LAMBDA x : x.price * x.budget)
  IN  IF SumOf(first, LAMBDA x : x.budget) = 0 THEN 0
      ELSE Rounded(cost, SumOf(first, LAMBDA x : x.budget))

\* build_cpl_plan: 4% of the clicks become leads on average, 27% at best.
CplStatus(r, blended, optimized) ==
  LET price == IF optimized > 0 THEN optimized ELSE blended
  IN  IF blended = 0 THEN "none"
      ELSE IF Rounded(blended, 4) <= r.target + 50 THEN "beating"
      ELSE IF 27 * (r.target + 50) >= price THEN "reachable" ELSE "gap"

\* build_plan, with the plans for the goal that generate adds.
BuildPlan(r) ==
  LET rows   == Allocation(r)
      clicks == SumOf(rows, LAMBDA x : x.clicks)
      price  == IF Blended(r, rows) > 0 THEN Blended(r, rows) ELSE Optimized(rows)
      first  == SumOf(Only(rows, 1), LAMBDA x : x.budget)
  IN  [available |-> TRUE, asked |-> r, allocation |-> rows, clicks |-> clicks,
       pacing |-> Pacing(r.budget, Searches(r.words)),
       phases |-> <<first, r.budget - first>>, anchor |-> Anchor(r),
       blended |-> Blended(r, rows), optimized |-> Optimized(rows), price |-> price,
       realism |-> Realism(r, clicks),
       cpl |-> CplStatus(r, price, Optimized(rows)), reverse |-> GoalPlan(r, price)]

----------------------------------------------------------------------------
(* What the manager sees and edits. *)

Corrected(field, auto) == IF field \in DOMAIN corrections THEN corrections[field] ELSE auto

\* build_final_strategy over _auto_values: the price of the reality check before that
\* of the plan, and everything else from the figures as corrected.
Strategy(p) ==
  LET budget == Corrected("budget", p.asked.budget)
      price  == Corrected("price", IF p.realism.price > 0 THEN p.realism.price
                                   ELSE IF p.blended > 0 THEN p.blended ELSE p.anchor)
      rate   == Corrected("rate", p.asked.rate)
      clicks == IF budget > 0 /\ price > 0 THEN Rounded(100 * budget, price) ELSE p.clicks
      leads  == Rounded(clicks * rate, 100)
  IN  [budget |-> budget, price |-> price, clicks |-> clicks, leads |-> leads,
       perLead |-> IF leads = 0 THEN 0 ELSE Rounded(budget, leads)]

\* effective_pacing: the months as edited.
ShownPacing ==
  [m \in 1..Months |-> IF m \in DOMAIN paced THEN paced[m] ELSE plan.pacing[m]]

----------------------------------------------------------------------------
PlanInit ==
  /\ plan = NoPlan
  /\ picked = {}
  /\ corrections = <<>>
  /\ paced = <<>>

\* generate stores a new plan, without edits.
Generate ==
  ~plan.available /\ \E r \in Requests :
    /\ plan' = BuildPlan(r)
    /\ picked' = r.words
    /\ corrections' = <<>>
    /\ paced' = <<>>

\* _recompute_demand: the months follow the searches of the keywords left, unless none
\* of those has any figures.
Recomputed(p, words) ==
  IF \A w \in words : w.volumes = <<>> THEN p
  ELSE [p EXCEPT !.pacing = Pacing(p.asked.budget, Searches(words))]

\* save_keyword_edits
EditKeywords ==
  /\ plan.available
  /\ \E words \in SUBSET plan.asked.words :
       /\ picked' = words
       /\ plan' = Recomputed(plan, words)
  /\ UNCHANGED <<corrections, paced>>

\* set_override
Correct ==
  /\ plan.available
  /\ \E field \in DOMAIN Corrections, value \in UNION {Corrections[f] : f \in DOMAIN Corrections} :
       /\ value \in Corrections[field]
       /\ corrections' = [f \in DOMAIN corrections \cup {field} |->
                            IF f = field THEN value ELSE corrections[f]]
  /\ UNCHANGED <<plan, picked, paced>>

\* set_budget_pacing: what is entered replaces the edits before; a month that the plan
\* has not, and an amount below zero, are passed over.
Repace ==
  /\ plan.available
  /\ \E amounts \in MonthAmounts :
       paced' = [m \in {m \in DOMAIN amounts : m \in 1..Months /\ amounts[m] >= 0} |-> amounts[m]]
  /\ UNCHANGED <<plan, picked, corrections>>

PlanNext == Generate \/ EditKeywords \/ Correct \/ Repace

----------------------------------------------------------------------------
(* Properties. *)

\* However the rounding falls, the ad groups and the phases each add up to the budget, and
\* no group gets less than nothing.
GroupsAddUp(p) ==
  /\ SumOf(p.allocation, LAMBDA x : x.budget) = p.asked.budget
  /\ p.phases[1] + p.phases[2] = p.asked.budget
  /\ \A i \in DOMAIN p.allocation : p.allocation[i].budget >= 0

\* Enough that no month can end below zero: 55 rupees for the twelve months of the year.
EveryMonthCovered(budget) == 2 * budget > Months * (Months - 3)

\* Whatever keywords are edited away, the months add up to the budget and follow the
\* searches of the keywords that are left, each to within half a rupee per month of the
\* year; none is below zero, but for the busiest of a budget of next to nothing.
MonthsAddUp(p, words) ==
  LET searches == Searches(words)
      annual   == Total(searches)
  IN  /\ Total(p.pacing) = p.asked.budget
      /\ EveryMonthCovered(p.asked.budget) => \A m \in 1..Months : p.pacing[m] >= 0
      /\ annual > 0 => \A m \in 1..Months :
           LET off == p.pacing[m] * annual - p.asked.budget * searches[m]
           IN  2 * off <= Months * annual /\ -2 * off <= Months * annual

\* The range of clicks is one, unless the plan counts on a price above that of history, or
\* on one below three hundredths of a rupee, or on no click at all because no group can pay
\* for a whole one.
RangeOrdered(p) ==
  3 <= p.blended /\ p.blended <= p.realism.price => p.realism.low <= p.realism.high

\* A goal called feasible is reached by the budget it asks for, to within the lead that
\* rounding may cost (with a click at half a rupee or more), and the other planner calls it
\* within reach too, at the rate it assumes, unless the first phase is dearer than the rest.
GoalMet(p) ==
  LET goal == p.reverse
      clicks == (100 * goal.budget) \div p.price
  IN  goal.feasible =>
        /\ p.price >= 50 /\ p.asked.rate <= 100 =>
             100 * p.asked.leads <= (clicks + 1) * p.asked.rate + 50
        /\ p.asked.rate <= 4 => p.cpl = "beating"
        /\ p.asked.rate <= 27 /\ p.optimized <= p.price => p.cpl # "gap"

\* Clicks, leads and price of a lead of the strategy are those of its own budget, price
\* and rate, whichever of these the manager has corrected, unless to zero.
StrategyConsistent(p) ==
  LET s   == Strategy(p)
      gap == 100 * s.budget - s.clicks * s.price
      per == s.budget - s.leads * s.perLead
  IN  /\ s.budget > 0 /\ s.price > 0 => 2 * gap <= s.price /\ -2 * gap <= s.price
      /\ s.leads > 0 => 2 * per <= s.leads /\ -2 * per <= s.leads

\* The months and the strategy are two views of one budget: they agree unless one of them
\* has been edited, whatever has become of the keywords; and no month that somebody has
\* entered is below zero.
PacingShown(p) ==
  /\ \A m \in 1..Months :
       m \in DOMAIN paced \/ EveryMonthCovered(p.asked.budget) => ShownPacing[m] >= 0
  /\ paced = <<>> /\ "budget" \notin DOMAIN corrections =>
       Total(ShownPacing) = Strategy(p).budget

\* The plan adds up, and its planners do not contradict each other about it.
PlanConsistent ==
  plan.available =>
    /\ GroupsAddUp(plan) /\ MonthsAddUp(plan, picked) /\ PacingShown(plan)
    /\ RangeOrdered(plan) /\ GoalMet(plan) /\ StrategyConsistent(plan)
=============================================================================
