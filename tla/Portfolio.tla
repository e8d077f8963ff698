------------------------------ MODULE Portfolio ------------------------------
(***************************************************************************)
(* The portfolio of plans: what was promised, what is expected by now and  *)
(* what has been delivered, per campus, per ad manager and per account,    *)
(* for whoever asks, and the audit of what was given against what runs     *)
(* (services/ai/portfolio_service.py, execution_audit_service.py, the      *)
(* assignments of approval_service.py, allowed_account_ids of users.py).   *)
(*                                                                         *)
(* None is "".  A tie between accounts is the database's to break; the     *)
(* instances have none.                                                    *)
(***************************************************************************)
EXTENDS Rounding, FiniteSetsExt

CONSTANTS
  RunsFor,         \* the campaigns that match each campus
  HeldBy,          \* the account of each campaign
  Titles,          \* the name of each account
  Granted,         \* the accounts that an admin gave to each manager
  LiveWords,       \* the live keywords, [campaign, word, match], as the database lists them
  Proposals,       \* plans that may be generated, [budget, leads, span, words]
  Deliveries,      \* what a campaign may bring in a day, [clicks, cost, leads]
  Trailing,        \* 365 days
  MaxPlans,        \* bound on the plans
  FinalDate        \* bound on the calendar

VARIABLES
  stored,          \* the plans, in the order they were made
  delivered,       \* figures of the days, [campaign, day, clicks, cost, leads]
  date             \* date.today()

portfolioVars == <<stored, delivered, date>>

Accounts == DOMAIN Titles

Users == DOMAIN Granted

PortfolioAssumption ==
  /\ IsFiniteSet(Accounts) /\ "" \notin Accounts /\ "" \notin Users
  /\ \A u \in Users : Granted[u] \subseteq Accounts
  /\ \A c \in DOMAIN HeldBy : HeldBy[c] \in Accounts
  /\ \A campus \in DOMAIN RunsFor :
       IsFiniteSet(RunsFor[campus]) /\ RunsFor[campus] \subseteq DOMAIN HeldBy
  /\ \A p \in Proposals :
       p.budget \in Nat /\ p.leads \in Nat /\ p.span \in Nat \ {0}
  /\ Deliveries \subseteq [clicks : Nat, cost : Nat, leads : Nat]
  /\ Trailing \in Nat /\ FinalDate \in Nat

ASSUME PortfolioAssumption

Percent(part, whole) == Rounded(100 * part, whole)

----------------------------------------------------------------------------
(* One row per campus. *)

\* latest_per_campus
NewestPlans ==
  {stored[n] : n \in {n \in DOMAIN stored :
     \A m \in DOMAIN stored : stored[m].campus = stored[n].campus => m <= n}}

\* The account that most campaigns of the campus run in.
Inferred(campus) ==
  LET held(a) == Cardinality({c \in RunsFor[campus] : HeldBy[c] = a})
  IN  IF RunsFor[campus] = {} THEN ""
      ELSE CHOOSE a \in Accounts : \A b \in Accounts : held(b) <= held(a)

\* Mutant of ResolveAccount: where the campaigns run already.
ResolveInferred(p) == Inferred(p.campus)

\* _resolve_account
ResolveAccount(p) == IF p.account # "" THEN p.account ELSE Inferred(p.campus)

\* _achieved, from a day on.
Achieved(campus, since) ==
  {d \in delivered : d.campaign \in RunsFor[campus] /\ d.day \in since..date}

StatusFromPace(actual, expected) ==
  IF expected = 0 THEN "no_data"
  ELSE IF Percent(actual, expected) >= 90 THEN "on_track"
  ELSE IF Percent(actual, expected) >= 70 THEN "watch" ELSE "off_track"

\* _campaign_row: on a straight line from the day of the plan to its end.
CampaignRow(p) ==
  LET done     == Achieved(p.campus, p.made)
      leads    == SumOver(done, "leads")
      expected == Rounded(p.leads * Min({date - p.made, p.span}), p.span)
  IN  [campus |-> p.campus, manager |-> p.manager, owner |-> p.owner,
       account |-> ResolveAccount(p), since |-> p.made,
       budget |-> p.budget, target |-> p.leads, expected |-> expected, actual |-> leads,
       clicks |-> SumOver(done, "clicks"),
       spend |-> SumOver(done, "cost"),
       status |-> IF leads = 0 THEN "tracking_pending" ELSE StatusFromPace(leads, expected)]

----------------------------------------------------------------------------
(* Per manager, per account and in total. *)

CampaignTotals(shown) ==
  [campaigns |-> Cardinality(shown),
   budget    |-> SumOver(shown, "budget"),
   target    |-> SumOver(shown, "target"),
   expected  |-> SumOver(shown, "expected"),
   actual    |-> SumOver(shown, "actual"),
   spend     |-> SumOver(shown, "spend"),
   statuses  |-> [s \in {"on_track", "off_track", "tracking_pending"} |->
                    Cardinality({r \in shown : r.status = s})]]

ByManager(shown) ==
  [m \in {r.manager : r \in shown} |-> CampaignTotals({r \in shown : r.manager = m})]

\* _spend_by_account
SpendBy(account) ==
  SumOver({d \in delivered : HeldBy[d.campaign] = account /\ d.day >= date - Trailing}, "cost")

TitleOf(r) == IF r.account = "" THEN "Unassigned account" ELSE Titles[r.account]

BudgetStatus(allotted, spent) ==
  IF allotted = 0 THEN "no_budget" ELSE IF spent > allotted THEN "overspent"
  ELSE IF Percent(spent, allotted) >= 85 THEN "near_limit" ELSE "on_budget"

\* _account_budgets: by name; the spend of an account counts once.
AccountBudgets(shown) ==
  [t \in {TitleOf(r) : r \in shown} |->
     LET own      == {r \in shown : TitleOf(r) = t}
         allotted == SumOver(own, "budget")
         spent    == Total([a \in {r.account : r \in own} \ {""} |-> SpendBy(a)])
     IN  [campaigns |-> Cardinality(own), allotted |-> allotted, spent |-> spent,
          status |-> BudgetStatus(allotted, spent)]]

\* An admin sees all accounts, and the plans without one.
Everything == Accounts \cup {""}

\* allowed_account_ids: what was granted, and the accounts of the plans owned.
Allowed(user) ==
  (Granted[user] \cup {stored[n].account : n \in {n \in DOMAIN stored : stored[n].owner = user}})
    \ {""}

\* build_portfolio
BuildPortfolio(scope) ==
  LET visible == {r \in {CampaignRow(p) : p \in NewestPlans} : r.account \in scope}
  IN  [rows |-> visible, managers |-> ByManager(visible), totals |-> CampaignTotals(visible),
       accounts |-> AccountBudgets(visible)]

----------------------------------------------------------------------------
(* The audit. *)

\* _live_keywords: of the rows with the same word, in whichever campaign, the last one counts.
LiveKeywords(campus) ==
  LET rows(w) == {n \in DOMAIN LiveWords :
                    LiveWords[n].campaign \in RunsFor[campus] /\ LiveWords[n].word = w}
      words == {LiveWords[n].word : n \in DOMAIN LiveWords}
  IN  [w \in {w \in words : rows(w) # {}} |-> LiveWords[Max(rows(w))].match]

\* build_campaign_audit: which keywords of the plan are live, how many of those with the
\* match type that was recommended, and everything the campus has brought.
CampaignAudit(p) ==
  LET live == LiveKeywords(p.campus)
      used == DOMAIN p.words \cap DOMAIN live
  IN  [recommended |-> Cardinality(DOMAIN p.words), used |-> Cardinality(used),
       proper |-> Cardinality({w \in used : live[w] = p.words[w]}),
       clicks |-> SumOver(Achieved(p.campus, 0), "clicks")]

\* build_manager_audit: plans with a manager, by the account they name.
ManagerAudit(scope) ==
  LET gens == {p \in NewestPlans : p.manager # "" /\ (scope = Everything \/ p.account \in scope)}
  IN  [m \in {p.manager : p \in gens} |->
         LET own == {p \in gens : p.manager = m}
             rated == {p \in own : DOMAIN p.words # {}}
             adopted == [p \in rated |-> Percent(CampaignAudit(p).used, CampaignAudit(p).recommended)]
         IN  [campuses |-> {p.campus : p \in own},
              adoption |-> IF rated = {} THEN 0
                           ELSE Rounded(Total(adopted), Cardinality(rated)),
              clicks |-> Total([p \in own |-> CampaignAudit(p).clicks])]]

----------------------------------------------------------------------------
PortfolioInit ==
  /\ stored = <<>>
  /\ delivered = {}
  /\ date = 1

\* _persist: a new plan belongs to nobody, whoever had the one before.
Persist(campus, account) ==
  /\ Len(stored) < MaxPlans
  /\ \E p \in Proposals :
       stored' = Append(stored,
         [budget |-> p.budget, leads |-> p.leads, span |-> p.span, words |-> p.words,
          campus |-> campus, account |-> account, made |-> date, owner |-> "", manager |-> ""])
  /\ UNCHANGED <<delivered, date>>

\* set_owner, which names the owner as the manager; clearing it does not.
SetOwner(n, user) ==
  /\ stored' = [stored EXCEPT ![n].owner = user,
                              ![n].manager = IF user = "" THEN @ ELSE user]
  /\ UNCHANGED <<delivered, date>>

\* set_account
SetAccount(n, account) ==
  /\ stored' = [stored EXCEPT ![n].account = account]
  /\ UNCHANGED <<delivered, date>>

\* set_ad_manager
SetManager(n, name) ==
  /\ stored' = [stored EXCEPT ![n].manager = name]
  /\ UNCHANGED <<delivered, date>>

\* A day passes and its figures are synced.
DayPasses ==
  /\ date < FinalDate
  /\ \E campaign \in DOMAIN HeldBy, d \in Deliveries :
       delivered' = delivered \cup
         {[campaign |-> campaign, day |-> date, clicks |-> d.clicks, cost |-> d.cost,
           leads |-> d.leads]}
  /\ date' = date + 1
  /\ UNCHANGED stored

PortfolioNext ==
  \/ \E campus \in DOMAIN RunsFor, account \in Everything : Persist(campus, account)
  \/ \E n \in DOMAIN stored :
       \/ \E u \in Users \cup {""} : SetOwner(n, u) \/ SetManager(n, u)
       \/ \E a \in Accounts : SetAccount(n, a)
  \/ DayPasses

----------------------------------------------------------------------------
(* Properties. *)

\* Managers, accounts and totals count every visible campus, once.
CountsOnce(v) ==
  /\ v.totals.campaigns = Cardinality({r.campus : r \in v.rows})
  /\ \A s \in DOMAIN v.totals.statuses : v.totals.statuses[s] =
       Total([m \in DOMAIN v.managers |-> v.managers[m].statuses[s]])
  /\ v.totals.budget = Total([m \in DOMAIN v.managers |-> v.managers[m].budget])
  /\ v.totals.budget = Total([t \in DOMAIN v.accounts |-> v.accounts[t].allotted])
  /\ v.totals.campaigns = Total([t \in DOMAIN v.accounts |-> v.accounts[t].campaigns])

\* What a plan has spent is within what its account has, if all its campaigns run there
\* and it is no older than the spend that is counted, and no plan is behind a line it has
\* passed.
SpendWithinAccount(v) ==
  \A r \in v.rows :
    /\ (\A c \in RunsFor[r.campus] : HeldBy[c] = r.account) /\ r.account # ""
         /\ r.since >= date - Trailing
         => r.spend <= v.accounts[TitleOf(r)].spent
    /\ r.actual > r.target => r.status \in {"on_track", "no_data"}

\* Whoever owns the newest plan of a campus sees it, if the plan names an account.
OwnersSee ==
  \A p \in NewestPlans : (p.owner # "" /\ p.account # "") =>
    CampaignRow(p) \in BuildPortfolio(Allowed(p.owner)).rows

\* However plans are made again, handed over and moved between accounts, the portfolio
\* counts every campus once in each of its views, and shows a manager of the accounts he
\* may see what it shows an admin, the plans he owns among them, unless another account
\* has the same name; the audit covers no plan that the portfolio of the same person
\* lacks, and no fewer clicks.
PortfolioConsistent ==
  /\ OwnersSee
  /\ \A scope \in {Everything} \cup {Allowed(u) : u \in Users} :
       LET v     == BuildPortfolio(scope)
           whole == BuildPortfolio(Everything)
           audit == ManagerAudit(scope)
       IN  /\ CountsOnce(v) /\ SpendWithinAccount(v)
           /\ v.rows \subseteq whole.rows
           /\ \A t \in DOMAIN v.accounts :
                {r.account : r \in {r \in whole.rows : TitleOf(r) = t}} \subseteq scope
                  => v.accounts[t] = whole.accounts[t]
           /\ \A m \in DOMAIN audit :
                /\ audit[m].campuses \subseteq {r.campus : r \in v.rows}
                /\ audit[m].clicks >=
                     SumOver({r \in v.rows : r.campus \in audit[m].campuses}, "clicks")
=============================================================================
