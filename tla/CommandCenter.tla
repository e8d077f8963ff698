---------------------------- MODULE CommandCenter ----------------------------
(***************************************************************************)
(* The pages of the command center: overview, trends, campaign health,     *)
(* priorities, keyword health, budgets, reports, the account breakdown and *)
(* the explorers, all computed from the snapshots that syncs leave behind  *)
(* (repositories/ops.py, repositories/dashboard.py, services/ops).         *)
(*                                                                         *)
(* Campaigns, keywords, search terms and budgets have snapshots of their   *)
(* own, each replaced by a step of its own, so a page may find a day in    *)
(* one table and not in another.  A campaign has any number of keywords    *)
(* and a budget that others may share.  Money is counted in fiftieths of   *)
(* the thresholds of ops_rules.py, and figures derived by a division are   *)
(* left out: the properties compare what is divided.                       *)
(***************************************************************************)
EXTENDS Scoring

CONSTANTS
  Campaigns, Keywords, Queries,  \* in the order in which the database keeps them
  Budgeted,        \* the budgets
  Owner,           \* the account of each of them
  CampaignOf,      \* the campaign of each keyword
  BudgetOf,        \* the budget of each campaign
  Reported,        \* what the API may report of each kind and account for each day
  Metas,           \* what it may report of the present state of each campaign
  KeywordCap,      \* keywords that keyword_metrics reads at most
  FinalDay         \* bound on the calendar

VARIABLES
  today,           \* date.today()
  snaps,           \* the snapshots of each kind, [of, day] and figures
  meta             \* for each campaign [status, optimization, disapproved]

centerVars == <<today, snaps, meta>>

CampaignSet == {Campaigns[n] : n \in DOMAIN Campaigns}

Owners == {Owner[c] : c \in CampaignSet}

OwnedBy(accounts) == {c \in CampaignSet : Owner[c] \in accounts}

Listed ==
  [campaigns |-> Campaigns, keywords |-> Keywords, terms |-> Queries, budgets |-> Budgeted]

Kinds == DOMAIN Listed

\* The figures of one snapshot of each kind.
FigureOf ==
  [campaigns |-> [impr : Nat, clicks : Nat, cost : Nat, conv : Nat, budget : Nat],
   keywords  |-> [impr : Nat, clicks : Nat, cost : Nat, conv : Nat,
                  quality : Nat \cup {Unknown}],
   terms     |-> [impr : Nat, clicks : Nat, cost : Nat, conv : Nat],
   budgets   |-> [amount : Nat, spend : Nat]]

ASSUME CenterAssumption ==
  /\ \A kind \in Kinds :
       /\ Listed[kind] \in Seq(DOMAIN Owner)
       /\ \A m, n \in DOMAIN Listed[kind] : Listed[kind][m] = Listed[kind][n] => m = n
       /\ \A a \in Owners, day \in 1..FinalDay : \A answer \in Reported[kind][a][day] :
            \A x \in DOMAIN answer :
            /\ x \in ToSet(Listed[kind]) /\ Owner[x] = a
            /\ answer[x] \in FigureOf[kind]
  /\ \A k \in ToSet(Keywords) : CampaignOf[k] \in CampaignSet /\ Owner[CampaignOf[k]] = Owner[k]
  /\ \A c \in CampaignSet :
       Metas[c] \subseteq [status : {"ENABLED"} \cup Inactive,
                           optimization : Nat \cup {Unknown}, disapproved : Nat]
  /\ KeywordCap \in Nat /\ FinalDay \in Nat

----------------------------------------------------------------------------
(* Snapshots, reference days and windows. *)

\* The snapshots of campaigns, keywords, search terms and budgets.
rows == snaps["campaigns"]

wordRows == snaps["keywords"]

termRows == snaps["terms"]

billRows == snaps["budgets"]

DaysKnown == {r.day : r \in rows}

\* Mutant of Latest: a calendar day, whether or not there are figures.
LatestToday == today

\* resolve_ref_dates: the newest day any account has a campaign snapshot for.
Latest == IF rows = {} THEN today - 1 ELSE Max(DaysKnown)

\* Mutant of Window: as many days before the last one.
WindowLonger(days) == (Latest - days)..Latest

\* RefDates.window
Window(days) == (Latest - Max({0, days - 1}))..Latest

\* The window of the account breakdown, from account_rollup_service._window.
RollupWindow(days) == (today - days)..today

\* The window of the first dashboard, from DashboardService._window.
DashboardWindow(days) == (today - Max({0, days - 1}))..today

\* The snapshots of a table, of some accounts and days.
In(table, accounts, days) == {r \in table : Owner[r.of] \in accounts /\ r.day \in days}

Totals(S) == [impr |-> SumOver(S, "impr"), clicks |-> SumOver(S, "clicks"),
              cost |-> SumOver(S, "cost"), conv   |-> SumOver(S, "conv")]

FirstOf(list, limit) == SubSeq(list, 1, Min({limit, Len(list)}))

InOrder(list, S) == ElementsAt(list, {n \in DOMAIN list : list[n] \in S})

\* GROUP BY: a line for each of a list that has a snapshot, with its sums.
Grouped(list, S) ==
  LET found == InOrder(list, {r.of : r \in S})
  IN  [n \in DOMAIN found |->
         Updated([of |-> found[n]], Totals({r \in S : r.of = found[n]}))]

ByCost(list) == SortedBy(list, [n \in DOMAIN list |-> -list[n].cost])

----------------------------------------------------------------------------
(* Campaign health. *)

\* One entry of campaign_metrics_by_day, or the zeros of an absent one.
DayOf(c, day) ==
  LET found == {r \in rows : r.of = c /\ r.day = day}
  IN  IF found = {} THEN NoData ELSE CHOOSE r \in found : TRUE

\* avg_quality_score_by_campaign, the whole part of it: it is less than 5, the only number
\* it is compared with, when the average is.
AverageQuality(c) ==
  LET rated == {r \in wordRows : CampaignOf[r.of] = c /\ r.day = Latest /\ r.quality # Unknown}
  IN  IF rated = {} THEN Unknown ELSE SumOver(rated, "quality") \div Cardinality(rated)

\* CampaignAnalyzer.analyze for one campaign.
Context(c) ==
  LET now == DayOf(c, Latest)
      old == DayOf(c, Latest - 1)
      brief(r) == [impr |-> r.impr, clicks |-> r.clicks, cost |-> r.cost]
  IN  [status |-> meta[c].status, today |-> brief(now), prior |-> brief(old),
       budget |-> IF now.budget > 0 THEN now.budget ELSE old.budget,
       quality |-> AverageQuality(c), optimization |-> meta[c].optimization,
       disapproved |-> meta[c].disapproved]

Analysis(c) == [of |-> c, ctx |-> Context(c), health |-> Health(Context(c)),
                priority |-> Priority(Context(c))]

Analyze(accounts) ==
  LET list == InOrder(Campaigns, OwnedBy(accounts)) IN [n \in DOMAIN list |-> Analysis(list[n])]

Active(a) == a.health.level # "ignored"

Shown(accounts, attentionOnly) ==
  LET all == Analyze(accounts)
  IN  ElementsAt(all, {n \in DOMAIN all :
        Active(all[n]) /\ (attentionOnly => all[n].health.level # "healthy")})

ByPriority(list) == SortedBy(list, [n \in DOMAIN list |-> -list[n].priority.score])

\* Mutant of HealthList: what needs attention last.
HealthListReversed(accounts, attentionOnly) ==
  LET own == Shown(accounts, attentionOnly)
  IN  SortedBy(own, [n \in DOMAIN own |-> own[n].priority.score])

\* CampaignHealthService.health without the paused ones, by priority.
HealthList(accounts, attentionOnly) == ByPriority(Shown(accounts, attentionOnly))

\* PriorityService.priorities
Priorities(accounts, limit) ==
  LET own == Shown(accounts, FALSE)
  IN  FirstOf(ByPriority(ElementsAt(own, {n \in DOMAIN own : own[n].priority.score >= 1})), limit)

----------------------------------------------------------------------------
(* Overview, trends and the totals of reports. *)

\* account_day_totals
DayTotals(day, accounts) == Totals(In(rows, accounts, {day}))

\* campaigns_limited_by_budget_count
LimitedByBudget(day, accounts) ==
  Cardinality({r \in In(rows, accounts, {day}) : r.budget > 0 /\ r.cost >= r.budget})

\* low_quality_keyword_count
LowQuality(day, accounts) ==
  Cardinality({r.of : r \in {r \in In(wordRows, accounts, {day}) :
                               r.quality # Unknown /\ r.quality < 5}})

\* OverviewService._build
Overview(accounts) ==
  [day |-> Latest, totals |-> DayTotals(Latest, accounts),
   active |-> Cardinality({c \in OwnedBy(accounts) : meta[c].status = "ENABLED"}),
   limited |-> LimitedByBudget(Latest, accounts),
   lowQuality |-> LowQuality(Latest, accounts)]

\* daily_series: the totals of each day that has rows.
DailySeries(days, accounts) ==
  [d \in {r.day : r \in In(rows, accounts, days)} |-> DayTotals(d, accounts)]

\* daily_entity_counts: the campaigns, keywords and search terms seen on each day.
Growth(days, accounts) ==
  LET seen(table, d) == Cardinality({r.of : r \in In(table, accounts, {d})})
  IN  [d \in {r.day : r \in In(rows \cup wordRows \cup termRows, accounts, days)} |->
         [campaigns |-> seen(rows, d), keywords |-> seen(wordRows, d), terms |-> seen(termRows, d)]]

\* campaign_trend
CampaignTrend(c, days) ==
  [d \in {r.day : r \in In(rows, {Owner[c]}, days)} |->
     Totals({r \in In(rows, {Owner[c]}, {d}) : r.of = c})]

\* compare_days
CompareDays(accounts) ==
  [latest |-> DayTotals(Latest, accounts), prior |-> DayTotals(Latest - 1, accounts)]

\* daily_spend_trend
SpendTrend(days, accounts) ==
  [d \in {r.day : r \in In(rows, accounts, days)} |-> Totals(In(rows, accounts, {d}))]

\* campaign_aggregates
Aggregates(days, accounts) == Grouped(Campaigns, In(rows, accounts, days))

TopSpending(days, accounts, limit) == FirstOf(ByCost(Aggregates(days, accounts)), limit)

\* highest_cpc_campaigns, of those that had clicks: after those with a higher price.
HighestCpc(days, accounts, limit) ==
  LET all == Aggregates(days, accounts)
      own == ElementsAt(all, {n \in DOMAIN all : all[n].clicks > 0})
  IN  FirstOf(SortedBy(own, [n \in DOMAIN own |->
                Cardinality({m \in DOMAIN own :
                               own[m].cost * own[n].clicks > own[n].cost * own[m].clicks})]),
              limit)

\* lowest_ctr_campaigns, of those seen often enough: after those with a lower rate.
LowestCtr(days, accounts, limit) ==
  LET all == Aggregates(days, accounts)
      own == ElementsAt(all, {n \in DOMAIN all : all[n].impr >= 100})
  IN  FirstOf(SortedBy(own, [n \in DOMAIN own |->
                Cardinality({m \in DOMAIN own :
                               own[m].clicks * own[n].impr < own[n].clicks * own[m].impr})]),
              limit)

AddUp(list) ==
  LET sum(field) == Total([n \in DOMAIN list |-> list[n][field]])
  IN  [impr |-> sum("impr"), clicks |-> sum("clicks"), cost |-> sum("cost"), conv |-> sum("conv")]

\* build_report: one day, seven or thirty.
Report(days, accounts) ==
  LET campaigns == ByCost(Aggregates(Window(days), accounts))
  IN  [campaigns |-> campaigns, totals |-> AddUp(campaigns)]

\* The explorer's search: the rows shown, and the totals of all that match.
Search(days, accounts, limit) ==
  [rows |-> TopSpending(days, accounts, limit), totals |-> Totals(In(rows, accounts, days))]

\* search_terms_explore: the terms of the window with enough clicks, and how many.
SearchTerms(days, accounts, minClicks, limit) ==
  LET all == Grouped(Queries, In(termRows, accounts, days))
      own == ElementsAt(all, {n \in DOMAIN all : all[n].clicks >= minClicks})
  IN  [rows |-> FirstOf(ByCost(own), limit), total |-> Len(own)]

\* search_term_report of the first dashboard.
TermReport(days, accounts, limit) ==
  FirstOf(ByCost(Grouped(Queries, In(termRows, accounts, days))), limit)

\* AccountRollupService.campaigns
CampaignBreakdown(account, days) == ByCost(Aggregates(days, {account}))

\* AccountRollupService.rollup: the accounts with a row in the window.
Rollup(days, accounts) ==
  [a \in {Owner[r.of] : r \in In(rows, accounts, days)} |->
     LET t == Totals(In(rows, {a}, days))
     IN  [campaigns |-> Cardinality({r.of : r \in In(rows, {a}, days)}), totals |-> t,
          status |-> IF t.conv > 0 THEN "converting"
                     ELSE IF t.cost > 0 THEN "no_conversions" ELSE "inactive"]]

\* The sheets of export_bytes: the accounts, and every campaign of each.
ExportRows(days, accounts) ==
  Total([a \in DOMAIN Rollup(days, accounts) |-> Len(CampaignBreakdown(a, days))])

----------------------------------------------------------------------------
(* Keywords and budgets. *)

\* The average quality of the days that have one, times a scale, rounded.
Quality(k, S, scale) ==
  LET rated == {r \in S : r.of = k /\ r.quality # Unknown}
  IN  IF rated = {} THEN Unknown
      ELSE Rounded(scale * SumOver(rated, "quality"), Cardinality(rated))

\* The sums of each keyword and its quality, a whole number at scale 1.
Rated(days, accounts, scale) ==
  LET S == In(wordRows, accounts, days)
      list == Grouped(Keywords, S)
  IN  [n \in DOMAIN list |-> Updated(list[n], [quality |-> Quality(list[n].of, S, scale)])]

\* keyword_metrics: as many of them as it reads at most, in no order but the database's.
KeywordMetrics(days, accounts) == FirstOf(Rated(days, accounts, 1), KeywordCap)

\* What has no quality comes last.
LowestQuality(x, y) ==
  x.quality # Unknown /\ (y.quality = Unknown \/ x.quality < y.quality)

\* KeywordHealthService.health, in two of the orders it may be asked for; the others are
\* those of the dashboard's lists.
KeywordHealth(days, accounts, order, limit) ==
  LET list == KeywordMetrics(Window(days), accounts)
  IN  FirstOf(SortedBy(list, [n \in DOMAIN list |->
                IF order = "worst" THEN KeywordScore(list[n])
                ELSE Cardinality({m \in DOMAIN list : LowestQuality(list[m], list[n])})]),
              limit)

\* keyword_health of the first dashboard: by quality in hundredths, then by cost.
KeywordReport(days, accounts, limit) ==
  LET list == Rated(days, accounts, 100)
  IN  FirstOf(SortedBy(list, [n \in DOMAIN list |->
                Cardinality({m \in DOMAIN list :
                  \/ LowestQuality(list[m], list[n])
                  \/ list[m].quality = list[n].quality /\ list[m].cost > list[n].cost})]),
              limit)

\* latest_budget_snapshots: the newest row of each budget, however old.
LatestBudgets(accounts) ==
  {r \in billRows : Owner[r.of] \in accounts /\ \A t \in billRows : t.of = r.of => t.day <= r.day}

\* budget_utilization: for each budget the first of the rows, newest first.
BudgetUtilization(accounts) ==
  LET S == {r \in billRows : Owner[r.of] \in accounts}
  IN  [b \in {r.of : r \in S} |->
         LET days == {r.day : r \in {r \in S : r.of = b}}
         IN  CHOOSE r \in S : r.of = b /\ r.day = Max(days)]

\* BudgetService.monitoring: only of today can a part be left.
Monitoring(accounts, elapsed) ==
  {[of |-> r.of, day |-> r.day, budget |-> r.amount, spend |-> r.spend,
    risk |-> BudgetRisk(r.amount, r.spend, IF r.day = today THEN elapsed ELSE 100)] :
     r \in LatestBudgets(accounts)}

----------------------------------------------------------------------------
\* The states a sync may bring of some campaigns.
States(S) == {f \in [S -> UNION {Metas[c] : c \in S}] : \A c \in S : f[c] \in Metas[c]}

CenterInit ==
  /\ today = 1
  /\ snaps = [kind \in Kinds |-> {}]
  /\ meta \in States(CampaignSet)

\* replace_window for one day: what an account has of it gives way to an answer of the API,
\* which need not have all.
Replaced(table, account, day, answer) ==
  {r \in table : ~(Owner[r.of] = account /\ r.day = day)}
    \cup {Updated([of |-> x, day |-> day], answer[x]) : x \in DOMAIN answer}

\* One of the steps of a sync that bring snapshots.  Each commits by itself and may fail, so
\* whatever combination of them has been done for a day is one that pages may read.
SyncSnapshots(kind, account, day) ==
  \E answer \in Reported[kind][account][day] :
    /\ snaps' = [snaps EXCEPT ![kind] = Replaced(@, account, day, answer)]
    /\ UNCHANGED <<today, meta>>

\* The steps that refresh the present state of an account's campaigns and ads.
SyncStates(account) ==
  \E m \in States(OwnedBy({account})) :
    /\ meta' = Updated(meta, m)
    /\ UNCHANGED <<today, snaps>>

Tomorrow ==
  /\ today < FinalDay
  /\ today' = today + 1
  /\ UNCHANGED <<snaps, meta>>

CenterNext == \/ \E kind \in Kinds, a \in Owners, d \in 1..FinalDay :
                   d <= today /\ SyncSnapshots(kind, a, d)
              \/ \E a \in Owners : SyncStates(a)
              \/ Tomorrow

----------------------------------------------------------------------------
(* Properties. *)

Scopes == {Owners} \cup {{a} : a \in Owners}

\* The overview, the comparison of two days, the last point of the trend, the daily
\* report and the campaigns of the health analysis have the same totals for the
\* reference day; over a window the report, the trends, the account breakdown, the
\* explorers and the export have the same campaigns and the same sums.  The first
\* dashboard and the breakdown count from today: they agree on a day with figures, the
\* breakdown when it is asked for one day less.
FiguresAgree(s) ==
  LET day   == Overview(s).totals
      w     == Window(2)
      trend == SpendTrend(w, s)
      split == Rollup(w, s)
      whole == Report(2, s)
      cost  == whole.totals.cost
  IN  /\ day = Report(1, s).totals
      /\ day = CompareDays(s).latest
      /\ Latest \in DOMAIN DailySeries(w, s) => day = DailySeries(w, s)[Latest]
      /\ day.cost = Total([n \in DOMAIN Analyze(s) |-> Analyze(s)[n].ctx.today.cost])
      /\ DailySeries(w, s) = trend
      /\ DOMAIN trend = {d \in DOMAIN Growth(w, s) : Growth(w, s)[d].campaigns > 0}
      /\ cost = Total([d \in DOMAIN trend |-> trend[d].cost])
      /\ \A d \in DOMAIN trend : trend[d].cost =
           Total([c \in {c \in OwnedBy(s) : d \in DOMAIN CampaignTrend(c, w)} |->
                    CampaignTrend(c, w)[d].cost])
      /\ cost = Total([a \in DOMAIN split |-> split[a].totals.cost])
      /\ cost = Search(w, s, 1).totals.cost
      /\ ExportRows(w, s) = Len(whole.campaigns)
      /\ Latest = today =>
           /\ TopSpending(DashboardWindow(2), s, Len(Campaigns)) = whole.campaigns
           /\ Rollup(RollupWindow(1), s) = split

\* One list puts a keyword before another of a different quality.
Precedes(list, c, d) ==
  \E m, n \in DOMAIN list :
    m < n /\ list[m].of = c /\ list[n].of = d /\ list[m].quality # list[n].quality

Members(list) == {x.of : x \in ToSet(list)}

\* No list of campaigns shows a figure that the report does not have.  The two lists of
\* keywords by quality, one of them rounded, never contradict each other, and have the same
\* keywords when there are not more than the page reads.
ListsAgree(s) ==
  \A own   \in {ToSet(Report(2, s).campaigns)},
     rough \in {KeywordHealth(2, s, "lowest_quality_score", Len(Keywords))},
     exact \in {KeywordReport(Window(2), s, Len(Keywords))} :
    /\ ToSet(HighestCpc(Window(2), s, Len(Campaigns))) \subseteq own
    /\ ToSet(LowestCtr(Window(2), s, Len(Campaigns))) \subseteq own
    /\ Members(rough) \subseteq Members(exact)
    /\ Len(exact) <= KeywordCap =>
         /\ Members(rough) = Members(exact)
         /\ ToSet(KeywordHealth(2, s, "worst", Len(Keywords))) = ToSet(rough)
    /\ \A c, d \in Members(exact) : ~(Precedes(rough, c, d) /\ Precedes(exact, d, c))

\* The campaigns counted as active are those whose health is shown, the keywords counted as
\* poor those that the keyword page has below 5 for the day, if it reads them all; as many
\* terms and keywords are counted for a day as its lists have; and the two lists of search
\* terms, one counted from the reference day and one from today, have the same terms and
\* figures on a day with figures.
CountsAgree(s) ==
  \A day \in {KeywordHealth(1, s, "worst", Len(Keywords))},
     seen \in {Growth(Window(1), s)} :
    /\ Overview(s).active = Len(HealthList(s, FALSE))
    /\ Len(KeywordReport(Window(1), s, Len(Keywords))) <= KeywordCap =>
         Overview(s).lowQuality =
           Cardinality({k \in ToSet(day) : k.quality # Unknown /\ k.quality < 5})
    /\ Latest \in DOMAIN seen =>
         /\ seen[Latest].keywords = Len(KeywordReport(Window(1), s, Len(Keywords)))
         /\ seen[Latest].terms = SearchTerms(Window(1), s, 0, 1).total
    /\ Latest = today =>
         ToSet(SearchTerms(Window(2), s, 0, Len(Queries)).rows)
           = ToSet(TermReport(DashboardWindow(2), s, Len(Queries)))

\* The two budget pages have the same rows.  The campaigns that the overview counts as limited
\* are those that spent their budget on the reference day, the finding of their health.  What
\* a budget spends may be the cost of several campaigns, so a critical budget need not be the
\* finding of any of them; but a campaign with the finding has a critical budget, at any hour,
\* once the budget's snapshot is of that day and counts what the campaign cost, and a critical
\* budget that counts no more than one campaign cost is the finding of that campaign.
BudgetsAgree(s, elapsed) ==
  \A page \in {Monitoring(s, elapsed)}, used \in {BudgetUtilization(s)},
     counted \in {{c \in OwnedBy(s) : DayOf(c, Latest).budget > 0
                                     /\ DayOf(c, Latest).cost >= DayOf(c, Latest).budget}} :
    /\ {used[b] : b \in DOMAIN used} = LatestBudgets(s)
    /\ Overview(s).limited = Cardinality(counted)
    /\ \A a \in ToSet(HealthList(s, FALSE)) : DayOf(a.of, Latest).budget > 0 =>
         LET found == \E i \in ToSet(a.health.issues) : i.code = "LIMITED_BY_BUDGET"
         IN  /\ found <=> a.of \in counted
             /\ \A b \in page :
                  b.of = BudgetOf[a.of] /\ b.day = Latest /\ b.budget = a.ctx.budget =>
                    /\ found /\ a.ctx.today.cost <= b.spend => b.risk = "critical"
                    /\ b.risk = "critical" /\ b.spend <= a.ctx.today.cost => found

\* The pages tell the same story: once something has been synced, in whichever order,
\* none contradicts another about the same days and accounts.
ViewsAgree ==
  rows # {} => \A s \in Scopes :
    /\ FiguresAgree(s)
    /\ ListsAgree(s)
    /\ CountsAgree(s)
    /\ \A elapsed \in {0, 50} : BudgetsAgree(s, elapsed)

\* What makes the state of x as bad as that of y, traffic and budget aside.
StateAsBad(x, y) ==
  /\ \/ x.optimization = y.optimization
     \/ x.optimization # Unknown /\ (y.optimization = Unknown \/ x.optimization < y.optimization)
  /\ x.quality = y.quality
  /\ x.disapproved >= y.disapproved

\* A campaign that has stopped serving comes before one that serves, whatever the click
\* rate, the price and the budget of that one, unless it spends a tenth of the reference
\* or has no point left; of two with the same traffic and budget, the one in the worse
\* state.  Equal scores come in any order.
WorstAhead(list) ==
  LET worse(x, y) ==
        /\ \/ x.ctx.today.impr = 0 /\ y.ctx.today.impr > 0
              /\ y.ctx.today.cost <= 10 /\ y.health.score > 0
           \/ <<x.ctx.today, x.ctx.prior, x.ctx.budget>>
                = <<y.ctx.today, y.ctx.prior, y.ctx.budget>>
        /\ StateAsBad(x.ctx, y.ctx)
  IN  \A m, n \in DOMAIN list :
        worse(list[m], list[n]) => m <= n \/ list[m].priority.score = list[n].priority.score

\* Once there are figures, the list of campaigns to look at puts the worst first, and the
\* priorities are its head.
WorstFirst ==
  rows # {} =>
    \A s \in Scopes : \A list \in {HealthList(s, FALSE)}, tasks \in {Priorities(s, 2)} :
      WorstAhead(list) /\ \A n \in DOMAIN tasks : tasks[n] = list[n]

\* An account whose newest snapshot is as new as any is never accused of a day it was
\* not asked about: a campaign alarmed for want of impressions has none in what the
\* last sync of its account reported, and only accounts that lag behind the others are
\* alarmed for the days they have not been synced for.
AlarmsOfLaggardsOnly ==
  rows # {} => \A a \in ToSet(Analyze(Owners)) :
    (Active(a) /\ PrimaryReason(a.health.issues) = "NO_IMPRESSIONS")
      => LET own == In(rows, {Owner[a.of]}, DaysKnown)
             newest == Max({r.day : r \in own})
         IN  \/ own = {}
             \/ \E r \in rows : r.day > newest
             \/ \A r \in own : r.of = a.of /\ r.day = newest => r.impr = 0
=============================================================================
