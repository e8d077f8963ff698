------------------------------- MODULE Scoring -------------------------------
(***************************************************************************)
(* The scores of campaigns, keywords and budgets (services/ops/scoring.py) *)
(* with the thresholds of config/ops_rules.py.                             *)
(*                                                                         *)
(* Rates are compared by cross-multiplication; shares are percentages, and *)
(* Unknown stands for None.  A day is [impr, clicks, cost].                *)
(***************************************************************************)
EXTENDS Rounding, FiniteSetsExt, Lists

Unknown == -1

Inactive == {"PAUSED", "REMOVED", "UNKNOWN", "UNSPECIFIED"}

\* What an aggregate of no rows is.
NoData == [impr |-> 0, clicks |-> 0, cost |-> 0, conv |-> 0, budget |-> 0]

\* The click rate is known and below the floor.
LowRate(day, percent) == day.impr > 0 /\ 100 * day.clicks < percent * day.impr

\* pct_change of the click rate is -20% or less, both rates being known and the
\* old one not zero.
RateDropped(today, prior) ==
  /\ today.impr > 0 /\ prior.clicks > 0
  /\ 5 * today.clicks * prior.impr <= 4 * prior.clicks * today.impr

\* pct_change of the price of a click is 20% or more.
PriceRose(today, prior) ==
  /\ today.clicks > 0 /\ prior.clicks > 0 /\ prior.cost > 0
  /\ 5 * today.cost * prior.clicks >= 6 * prior.cost * today.clicks

Penalty(points, code, severity) == [points |-> points, code |-> code, severity |-> severity]

Severities == <<"critical", "high", "medium", "low">>

\* What compute_campaign_health finds, in its order: each problem with its
\* condition.  CampaignAnalyzer counts disapproved ads and leaves the number of
\* disapproved keywords at zero.
Findings(c) ==
  << <<c.today.impr = 0,                   Penalty(0, "NO_IMPRESSIONS", "critical")>>,
     <<LowRate(c.today, 2),                Penalty(15, "LOW_CTR", "high")>>,
     <<RateDropped(c.today, c.prior),      Penalty(15, "CTR_DROP", "high")>>,
     <<PriceRose(c.today, c.prior),        Penalty(10, "CPC_RISE", "medium")>>,
     <<c.quality # Unknown /\ c.quality < 5, Penalty(15, "LOW_QS", "high")>>,
     <<c.budget > 0 /\ c.today.cost >= c.budget,
                                           Penalty(20, "LIMITED_BY_BUDGET", "high")>>,
     <<c.budget > 0 /\ c.today.cost < c.budget /\ 100 * c.today.cost >= 85 * c.budget,
                                           Penalty(10, "BUDGET_NEARLY_EXHAUSTED", "medium")>>,
     <<c.optimization # Unknown /\ c.optimization < 60,
                                           Penalty(10, "LOW_OPT_SCORE", "medium")>>,
     <<c.disapproved > 0,                  Penalty(20, "DISAPPROVED_ADS", "high")>> >>

Issues(c) ==
  LET found == ElementsAt(Findings(c), {n \in 1..9 : Findings(c)[n][1]})
  IN  [n \in DOMAIN found |-> found[n][2]]

Points(issues) == Total([n \in DOMAIN issues |-> issues[n].points])

Clamp(n) == Max({0, Min({100, n})})

Level(score) ==
  IF score >= 80 THEN "healthy" ELSE IF score >= 60 THEN "warning"
  ELSE IF score >= 40 THEN "high" ELSE "critical"

\* Without impressions the score starts in the critical band.
Base(c) == IF c.today.impr = 0 THEN 35 ELSE 100

\* compute_campaign_health
Health(c) ==
  IF c.status \in Inactive
  THEN [score |-> 100, level |-> "ignored", issues |-> <<>>]
  ELSE LET score == Clamp(Base(c) - Points(Issues(c)))
       IN  [score |-> score, issues |-> Issues(c),
            level |-> IF c.today.impr = 0 THEN "critical" ELSE Level(score)]

\* _primary_reason: the first of the gravest issues.
PrimaryReason(issues) ==
  IF issues = <<>> THEN "none"
  ELSE SortedBy(issues, [n \in DOMAIN issues |->
         CHOOSE k \in DOMAIN Severities : Severities[k] = issues[n].severity])[1].code

\* compute_priority: 0.7 * (100 - health) + 0.3 * spend pressure, which is full at
\* a spend of 5000, here 100.
Priority(c) ==
  LET h == Health(c)
  IN  IF h.level = "ignored" THEN [score |-> 0, minutes |-> 0]
      ELSE [score   |-> Clamp(Rounded(7 * (100 - h.score) + 3 * Min({100, c.today.cost}), 10)),
            minutes |-> Min({30, 3 + 2 * Len(h.issues)})]

\* compute_keyword_health
KeywordScore(k) ==
  Clamp(100 - (IF k.quality = Unknown THEN 0 ELSE IF k.quality <= 3 THEN 40
               ELSE IF k.quality < 5 THEN 25 ELSE 0)
            - (IF LowRate(k, 1) THEN 15 ELSE 0)
            - (IF k.cost >= 10 /\ k.conv = 0 THEN 20 ELSE 0))

\* compute_budget_risk.  elapsed is the share of the day in percent.
BudgetRisk(budget, spent, elapsed) ==
  IF budget = 0 THEN "healthy"
  ELSE IF spent >= budget THEN "critical"
  ELSE IF 100 * spent >= 85 * budget THEN "warning"
  ELSE IF 100 * spent >= budget * Max({5, Min({100, elapsed})}) THEN "warning"
  ELSE "healthy"
=============================================================================
