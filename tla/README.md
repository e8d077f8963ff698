# Verification of google-ads-intelligence

TLA+ models of the Google Ads intelligence platform under `src/app`: TLC checks
them on small instances, TLAPS proves what matters most for every instance.
`PROJECT.json` holds the machine-readable side: which lines each definition
translates, the runs and their properties, the mutants, the hazards.

## 1. The system

The program is a FastAPI service over one PostgreSQL database, with an
APScheduler thread pool in the same process and a React client.

| Part | State it keeps | Operations | Talks to |
|---|---|---|---|
| **Sync service** (`services/sync_service.py`, `repositories/base.py`, `tasks/sync_tasks.py`) | dimension tables, snapshot tables, `sync_logs` | `run`, `backfill`: discovery, account resolution, one transaction per step | Google Ads client (calls), database |
| **Google Ads client** (`google_ads/client.py`, `reports/`) | one cached SDK client | `search` with retries, classification of errors | Google |
| **Scheduler** (`tasks/scheduler.py`) | one process-wide scheduler | hourly and daily sync, weekly scorecards, weekly budget mail | starts sync invocations beside manual ones |
| **Alert engine** (`services/ops/alerts_service.py`, `repositories/alert.py`) | `alerts`, one row per dedupe key | `evaluate`, `set_status`, listing | reads what the sync wrote |
| **Approval workflow** (`services/ai/approval_service.py`, `ad_copy_service.py`, `models/ad_copy.py`) | `ad_copy_generations`, `approval_events` | eight edits, submit, resend, decide, request changes, decide by mailed link | mail transport; plan ownership gives access |
| **Ad-copy generation** (`ad_copy_service.generate`, planners, keyword services, `llm_client.py`) | new rows of `ad_copy_generations` | generate, scorecards | language model, keyword planner |
| **Users and access** (`services/auth`, `api/deps.py`) | `users`, `user_accounts` | sign-in, roles, activation, deletion, grants | every request |
| **Budgets** (`account_budget_service.py`, `weekly_budget_service.py`) | two budget tables | set, overview, weekly mail | reads snapshots |
| **Mail transport** (`email_service.py`) | `socket.getaddrinfo` while sending | `send_email` | approval, weekly mail |
| **TTL cache** (`utils/cache.py`) | a dictionary under a lock | `get`, `set`, `get_or_set`, `clear` | dashboard routes |
| **Command center** (`services/ops`, `scoring.py`) | none | health, priority, keyword scores, budget risk | reads snapshots |
| **Everything else** | none | read-only queries, exports, text analysis, client | |

How they interact: components share state through the database only. The sync
writes what the alert engine, budgets, planners and dashboards read. Requests and
scheduled jobs are threads, each with its own SQLAlchemy session at PostgreSQL's
default READ COMMITTED. Nothing uses row versions, `SELECT FOR UPDATE` or advisory
locks, so what the threads agree on is what unique keys, row locks and the order of
commits give them. That is why the models have one action per database statement
where two threads can meet, and coarser actions where they cannot.

What is hard here (each at its line in `PROJECT.json`, "hazards"):

- two transactions replacing overlapping windows of one table at once; a step that
  fails or is killed between its DELETE and its commit; what an invocation reports then;
- parents read before the transaction that refers to them commits;
- alerts resolved, dismissed and reopened by writers that loaded the row earlier;
- an approval that falls between the load and the commit of an edit; edits of one JSON
  column by people who each hold a copy of it;
- lock waits, unique-key waits and deadlocks, and that requests end nevertheless;
- process-wide state without a lock around it: the resolver, the cache's producers;
- select-then-insert under a unique key, deletions that see only what is committed;
- many pages, planners and roll-ups that compute the same thing in different ways, with
  rounding, unknown figures and days that are missing for some accounts.

What makes each component correct:

- *Sync*: a step is atomic; one row per entity and day; a sync touches only its own
  table, account and window; children have parents; log rows are final; the reported
  status is what the log rows say; every invocation ends.
- *Alerts*: an alert that fires is never resolved by a machine; a dismissal lasts;
  `resolved_at` is set exactly on resolved alerts; after an evaluation the console
  shows what fires; requests end.
- *Approval*: an approval covers the content it was given for; nothing waits for
  approval without its KPIs; events and status agree.
- *Plan, keywords, copy*: the plan adds up; what is launched is what the reviewer is
  shown; the copy fits and suffices; what people decided survives what machines derive.
- *Portfolio*: every campus once, for everybody who may see it.
- *Client*: a failed attempt leaves no rows, and every call ends.
- *Users*: somebody can always administer; grants are those of one request.
- *Budgets*: one budget per account and period; spend and budget use the same weeks.
- *Mail*: the process resolves names as before once no mail is being sent.
- *Cache*: what is served is bounded in age, and the cache in size.
- *Command center*: pages agree; the worst campaign comes first; nobody is accused of a
  day that was never asked for.

## 2. What is modelled

Modules without variables in common that are checked in one run are put side by side in
`MCPlatform` and `MCReports`; a variable `moving` names the one that moves.

### Sync: `SyncPlan`, `SyncEngine`, `SnapshotLedger`, `MCSync`

`SyncPlan` holds the pure part: the tables, the steps of each request in their order
(`StepsFor`), the parents a step looks up (`Needs`), the default window, and how the
outcome of a step changes the status of the invocation (`Absorb`).

`SyncEngine` is the protocol. `dims`, `snaps` and `logs` are the committed database;
`pc`, `plan`, `queue`, `acct`, `win`, `result` are the local variables of each job's
thread; `txn[j]` is its open transaction.

| Code | Actions |
|---|---|
| `run` / `backfill`, entity or window requests | `Begin`, `Finish` |
| `_resolve_target_accounts` | `CreateAccount`, `PlanAccounts` |
| loop over accounts and steps | `NextAccount` |
| `create_run` and its commit | `OpenLog` |
| report call | `Fetch` |
| `google_id_to_pk`, rows without parent or date | `MapRows` |
| `BaseRepository.upsert`: SELECT, then INSERT | `SelectRow`, `InsertRow` |
| `replace_window`: DELETE, then `bulk_insert` | `Scan`, `Write` |
| commit of data and log status | `Commit` |
| exception, rollback, `mark_finished(failed)` | `StepFails`, `MarkFailed` |
| killed process, statement outside the `try` | `Abandon` |
| PostgreSQL | `DeadlockVictim`, the waits in `InsertRow` and `Write` |

A DELETE fixes the rows it considers when it begins (`Scan`), waits for transactions
that have deleted one of them, and skips the rows that are gone by then (`Write`):
READ COMMITTED. Abstractions: metric values and row counters (a row is its table,
account, entity, day and the log row that made it; counters become "was a row
skipped"); a child entity hangs under the parent with its own id; retries are inside
`Fetch`; recommendations append, as in the code. A killed invocation leaves its log
row `running`, as in the code. `UPDATE`s of existing dimension rows take no lock in
the model: what their waits can cause, a victim whose step fails, is `StepFails`.

`SnapshotLedger` is the abstract promise: a table of rows in which a step replaces one
account's window at once or does nothing. `SyncEngine` with one thread implements it
(`RefinesLedger`, refinement mapping: the ledger's rows are the visible rows).

### Alerts: `AlertEngine`, `MCAlerts`

Sessions are request threads that evaluate (`Evaluate`, `Emit`, `Save`, `Tail`,
`Sweep`, `Resolve`, `Commit`) or set a status (`Patch`, `PatchSave`). `Emit` is the
SELECT of `upsert_by_dedupe`, `Save` its flush; `Sweep` and `Resolve` are the SELECT
and the flush of `auto_resolve_missing`. A flush writes only columns that differ from
the loaded ones, so `Refreshed` and `Patched` take the loaded row and the current one.
A written row stays locked until its session ends; an INSERT of a key that was
committed meanwhile ends the request (`Conflict`); cycles of waits have a victim.

Which metrics make a condition hold is abstracted to the set `cond` of firing keys,
which `DataChanges` alters at any time, also during an evaluation. The key of a failed sync
holds the sync's id, so each sync that fails while it is the latest has its own alert, and a
newer one takes the condition of the older away (`LatestSync`). The campaign
conditions are read at once (`CampaignAnalyzer.analyze` runs before the loop), account
signals afterwards (`Tail`). `held` and `muted` are history: what has fired, and what
has been dismissed, ever since the session's evaluation began.

### Approval: `ApprovalWorkflow`, `MCApproval`

One plan and the requests on it. A request loads the plan (`Load`), is refused or
fails (`Drop`), or writes the columns it changed (`Write`, `Merge`) and, for submit and
resend, mails the reviewers after the commit (`Mail`). `Outcomes` says what each kind of
request makes of the loaded plan: `Override`, `Pacing`, `Keywords`, `Assets`,
`Regenerate`, `Groups` are the edits, each with its own list of statuses to reset, as in
the code. The value of a column is the number of the write it stems from, which is all
that "unchanged since the approval" needs; overrides keep which KPIs have a value,
`result_payload` its three independently written parts. `import_keywords` ends in
`save_keyword_edits` and is the `keywords` request here; `KeywordPlan` has its own steps. `settled` (the approved content),
`behind` (sessions another one has written since they loaded) and `raced` are history.

### Access, budgets, scorecards and services: `MCPlatform`

| Module | State | Actions and the code they are |
|---|---|---|
| `UserAccess` (`services/auth/users.py`, `admin_users.py`) | `users`, `grants`, one request per thread | `FindSignIn`, `SignIn`: `upsert_from_google`; `Authorise`, `Apply`: the admin routes with their guards; `Revoke`, `Grant`: `set_accounts`, DELETE and INSERT; `Abandon`: a rollback |
| `TTLCache` (`utils/cache.py`) | `store`, the clock, the key each thread computes | a get that hits, a get that misses and starts the producer, the set with its eviction |
| `GoogleAdsClient` (`google_ads/client.py`) | state of one call, attempt, rows | `Search`, `Batch`, `Answer`, `Fail`, `Retry`, `List`; `Translated` is `_raise_translated` |
| `EmailTransport` (`email_service.py`) | the process's resolver, what each wrapper calls | `Enter`, `Connect`, `Leave` of `_prefer_ipv4`; `Https`, `Refuse` |
| `Budgets` (`weekly_budget_service.py`, `account_budget_service.py`) | rows of the two tables, today, the mail | `FindBudget`, `SetBudget`, the mail of the week just ended |
| `Scorecards` (`scorecard_tasks.py`, `save_scorecard`, `scorecard_alerts.py`) | plans, snapshots, those only flushed, the job's list | one campus saved or failing, weeks passing, plans renewed |

Sign-ins are by person (identity and e-mail stand for each other). A removed user's key
is not given out again. In `GoogleAdsClient`, an exception carries up to two API errors,
since their order decides the class. Days, amounts and money are numbers; what a day
costs is the constant `DaySpend`, in the instance `2^d`, so that any sum tells which days
it is of. `NameContains` is the code's search by a part of a campus name: any relation in
which every name contains itself.

### Reports and planning: `MCReports`

| Module | State | Actions and the code they are |
|---|---|---|
| `Rounding`, `Lists`, `Scoring` | none | Python's `round`, `sum` and `median`; list comprehensions, `list.sort` and `dict.update`; `scoring.py` with the thresholds of `ops_rules.py`, over cross-multiplied integers |
| `CommandCenter` (`services/ops`, `repositories/ops.py`, `repositories/dashboard.py`) | snapshots of campaigns, keywords, search terms and budgets; the present state of campaigns; today | `SyncSnapshots`: one table of one account for one day, in any order; `SyncStates`: the dimension steps; `Tomorrow`; each page is an operator of the snapshots and a scope |
| `MediaPlan` (`budget_planner.py`, `reverse_planner.py`, `cpl_optimizer.py`, `seasonality_service.py`) | the plan, its keywords, overrides, pacing edits | `Generate`, `EditKeywords`, `Correct`, `Repace` |
| `KeywordPlan` (`keyword_research_service.py`, `keyword_scorer.py`, edits in `ad_copy_service.py`) | suggestions, keyword edits with the stored groups, one editor per manager | `Research`; `Open`, `Save`: the editor; `StartImport`, `FinishImport`: `import_keywords` around its call of the planner |
| `AdCopy` (`ad_copy_service.py`, `rsa_validator.py`) | the plan's copy, typed copy, ad groups, keywords; one copy of the plan per writer | `MakeCopy`, `ReadPlan`, `SaveKeywords`, `SaveAssets`, `SaveAdGroups`, `Regenerate`, `Refuse` |
| `Portfolio` (`portfolio_service.py`, `execution_audit_service.py`, `allowed_account_ids`) | plans, what campaigns brought, today | `Persist`, `SetOwner`, `SetAccount`, `SetManager`, `DayPasses`; the views are operators of a scope |

In `CommandCenter` each kind of snapshot is replaced by a step of its own, as the sync does,
so a day may be in one table and missing in another. A campaign has any number of keywords
and search terms, also none, and a budget that others may share: what a budget spends comes
from its own snapshots and need not be what one campaign cost. `KeywordCap` is the limit of
5000 rows that the keyword page reads, in no order but the database's; where an account has
more, the page and the first dashboard show different keywords, so `ListsAgree` and
`CountsAgree` compare them in full up to the limit only. Keywords,
lines of copy and accounts are model values; what the code derives from their text
(intent, score, length, the topics it names) are constants. Money is whole rupees and
hundredths, percentages are whole: float rounding beyond `round` itself is abstracted.
Definitions that theorems are about say what the code's loops give and not how they go
about it: a comprehension with a condition is the elements at some places of a list
(`Lists`), a running sum is a sum over a set (`Total`), a stable sort is the rank of each
element. In `Portfolio` the figures of a campaign count over the last `Trailing` days, as
in the code, and accounts are rolled up by name, so two accounts of one name are one row.

## 3. The runs

| Run | Instance | Distinct states | What it shows |
|---|---|---|---|
| `sync_serial` | 1 thread, 2 accounts, 3 invocations, 2 days, 1 deviation | 153 thousand | one row per entity and day; no foreign row removed; log rows final; refinement of `SnapshotLedger` |
| `sync_concurrent` | 2 threads, 1 account, overlapping windows and discovery, 2 deviations, `FairSpec` | 104 thousand | atomic steps, duplicates only from overlapping replacements, honest status, every invocation ends |
| `sync_full` | the daily job, all 15 steps, 2 accounts, 2 deviations | 520 thousand | parents are synced before their children, and no visible row lacks one |
| `sync_duplicates` (violation) | 2 threads, no deviation | | two overlapping replacements leave both sets of rows |
| `alerts_serial` | 1 session, 2 accounts, scopes "all" and one account, 5 changes | 1,412 thousand | dismissals last, `resolved_at` honest, console current |
| `alerts_concurrent` | 2 sessions, 1 account, 3 changes, `FairSpec` | 388 thousand | what fires or was dismissed is left alone; requests end |
| `alerts_scoped` (violation) | 1 session, 2 accounts | | a scoped evaluation resolves other accounts' alerts |
| `approval_serial` | 1 session, all kinds of requests, 4 writes | 369 thousand | an approval covers the content; KPIs before submission; the events tell the status |
| `approval_concurrent` | 2 sessions, 3 writes | 978 thousand | content differs from the approved one only after an edit of a session that was behind; mails and decisions write no content |
| `approval_stale` (violation) | 2 sessions, 3 writes | | an edit of a loaded draft survives its approval |
| `platform` | see below | 254 thousand | an admin remains; grants are of one request; the cache, the client, the resolver; budgets and spend of the same weeks; scorecards survive failures and their alerts are right |
| `reports` | see below | 157 thousand | the pages agree; the worst first; alarms of laggards only; plans add up; groups are what was reviewed; imports and typed copy keep decisions; copy suffices; the portfolio is consistent |

| Part of `platform`, `reports` | Instance | States |
|---|---|---|
| access | 2 people, one a listed admin, 3 keys, 2 accounts, 2 threads, 3 changes | 54,545 |
| cache | 2 keys of different ttl, room for 1, 2 threads, 4 ticks | 29,086 |
| client | 2 batches, 3 attempts, all classes of exceptions | 61 |
| mail | 2 threads, 4 sends, every configuration | 3,797 |
| budgets | 1 account, 2 planners, 10 days (weeks of 7, months of 5), 2 amounts | 66,971 |
| scorecards | 2 campuses, the name of one part of the other's, 3 weeks, 2 plans | 99,742 |
| command center | 3 campaigns in 2 accounts, two of which share a budget, one with two keywords and one with none, 2 search terms, a limit of 2 keywords, 2 days with and without figures in each table | 4,704 |
| media plan | 12 months, budgets of 7, 17, 70 and 1000, keyword sets with and without figures, both kinds of price | 27,649 |
| keywords | 2 managers, 5 words, 2 saves or imports | 50,562 |
| portfolio | 2 accounts, 3 campaigns, 2 campuses that share one, 2 managers, 2 plans, 2 days | 56,113 |
| copy | 2 writers, 2 keyword lists, answers of the model that are short and too long, 2 requests | 17,510 |

The three violation runs state what a docstring, comment or document says and show the
code doing otherwise; "findings" quotes the lines.

**Bounds.** `MaxInvocations`, `MaxDeviations`, `LastDay`, `MaxChanges`, `MaxWrites`,
`MaxSends`, `MaxAmounts`, `MaxPlans`, `MaxSaved`, `LastWeek`, `MaxClock`, `FinalDay`,
`FinalDate` and `MaxRequests` count inputs, time and faults, never steps of the program:
a bounded run stops only because nothing more is asked of it, hence
`CHECK_DEADLOCK FALSE`. Two threads suffice for each race named above, since each is about
one reader-writer and one other writer; two accounts for the isolation properties; three
invocations in a row for duplicates, which need a window written, re-written and
overlapped; two deviations for a failure met by a later step; four writes for submit,
edit, resubmit, approve; ten days for two ends of weeks and of months that fall on
different days; three changes for two admins who unmake each other. One entity id per
account suffices for the sync, as rows of different ids meet only in the parent lookups,
which are per id. Limits of the code (12 keywords per group, 20 looked up, 200 entries)
are constants and small in the instances, so that they are reached. `SessionSymmetry` is
used where no liveness is checked, and sessions are interchangeable there.
`ConcurrentKinds` leaves out four kinds of requests that differ from another one only in
the name of the column or status they write.

**Fairness.** `WF(Progress(j))` in both concurrent runs: a thread that has begun a
request keeps executing; neither requests nor failures are forced to happen. The alert
engine adds `SF(Save \/ Resolve \/ PatchSave)` per session: PostgreSQL queues the
waiters of a row in order, so a session is not passed over for ever by new ones. The
sync needs none, because the number of invocations is bounded and each waits only for
transactions that end. The client has `WF` of its steps: the thread that calls goes on,
and the API answers or raises (the SDK's timeout), but nothing makes it answer well.

**Mutants.** Each property of each passing run has a mutated definition that breaks it:
a dropped reset, a window without its last day, a DELETE without the account, a missing
rollback, an entry that lives a tick too long, rows kept over a retry. They stand in the
modules before the definitions they alter, marked "Mutant of".

**Exceptions.** Four properties say "unless two overlap": `OneRowUnlessClash`,
`ApprovedUnlessRaced`, `GrantsOfOneRequest`, `ScopedNarrowly`. The first two name a defect
that a violation run shows without the exception. The other two would fail without it as
well: two replacements of one user's grants leave a union, and overlapping sends put the
resolver back in the wrong order. `EditsKeptUnlessRaced` and `HandWorkStands` ask nothing of a
request that another one has overtaken since it read the plan: it does lose what that one
wrote into the same column. `AdminRemains` excepts an admin who gives up the own
role, which no route forbids, and a change by one who is an admin no longer.

## 4. What is proved

Every theorem holds for all values of the constants; they rest on the assumptions named in
the modules only, and on what the table names. The assumptions say what the program's inputs
are: bounds and prices are naturals, the manager account is no client, dates that do not
parse are not days, kinds are known. `MediaPlanAssumption`: a budget above zero (without
one `build_plan` gives no plan), a rate above zero (a rate of zero is read as 15%), and at
least one keyword. `KeywordAssumption`: lists are lists. `PortfolioAssumption`: campaigns
are held by accounts. `BudgetAssumption`, `ScorecardAssumption`: a month has a day, a name
contains itself. `CenterAssumption`: campaigns, keywords, search terms and budgets
are listed once and held by an account, a keyword's campaign by the same one, figures and
days are naturals, a status is one of the API's. `CopyAssumption`:
lists are lists, and of the fixed headlines five fit and of the descriptions two, whatever
they speak of. The last is about the length of the campus's short name: it holds up to 21
characters, so for the curated campuses and for those that go by the first word of their
name, but not for every online university outside the list, which goes by its full name
(`campus_config.py:189`; section 5 says what happens there).

| Module | Theorem | Property | Beyond the constants' assumptions |
|---|---|---|---|
| `SyncEngineProofs` | `Typing`, `LineageHolds` | `TypeOK`, `Lineage` | |
| | `OneRowHolds` | `OneRowUnlessClash` | |
| | `SerialOneRow` | `OneRowPerEntityDay` | one job |
| | `LogRowsFinal`, `RemovalsBounded` | `LogsFinal`, `RemovedOnlyByItsWindow` | |
| | `ReportsHonest` | `ResultHonest` | |
| | `ParentsStay`, `ParentsFirst` | `ParentsKnown`, `ParentsSyncedFirst` | |
| | `SerialLedger` | `RefinesLedger` | one job, windows within the calendar |
| `AlertProofs` | `AlertTyping`, `DismissalsStand` | `TypeOK`, `MutedUntouched` | |
| | `FiringStands` | `NeverResolvesFiring` | evaluations of all accounts |
| | `SerialStamps`, `SerialDismissed` | `StampHonest`, `DismissedStays` | one thread |
| | `SerialConsole` | `ConsoleCurrent` | one thread |
| `ApprovalProofs` | `Typing`, `ApprovalCovers` | `TypeOK`, `ApprovedUnlessRaced` | |
| | `EditsOnly` | `ContentOnlyByEdits` | |
| | `SerialApproval`, `SerialKpis`, `SerialTrail` | `ApprovedUnchanged`, `SubmittedHasKpis`, `StatusExplained` | one session |
| `PlatformProofs` | `AccessKept`, `GrantsKept` | `AdminRemains`, `GrantsOfOneRequest` | |
| | `OneAttempt` | `RowsOfOneAttempt` | |
| | `WrapperScoped`, `CacheKept` | `ScopedNarrowly`, `CacheBounded` | |
| | `PeriodsWhole` | `MailedPeriodsWhole` | |
| | `SnapshotsSurvive`, `AlertsTrue` | `OthersSurvive`, `AlertsRight` | |
| `ReportProofs` | `HandStands`, `AdsRun` | `HandWorkStands`, `CopyRuns` | |
| | `PlanSound` | `PlanConsistent` | |
| `KeywordProofs` | `GroupsReviewed` | `GroupsAreReviewed` | |
| | `ImportsKeepEdits` | `EditsKeptUnlessRaced` | |
| `PageProofs` | `PortfolioSound` | `PortfolioConsistent` | |
| | `LaggardsAlarmed`, `WorstComeFirst` | `AlarmsOfLaggardsOnly`, `WorstFirst` | |
| | `PagesAgree` | `ViewsAgree` | |

`DataLemmas` holds what these rest on: laws of `SumFunctionOnSet`, the community modules'
fold, of the k-th place of a list, of sorted lists, of rounded quotients, and of the first,
the joined and the appended. The library's induction theorems cannot be
instantiated here, so an induction takes the smallest set, or the least number, for which a
claim would fail (`Smallest`, from the library's well-foundedness of finite subsets): a
sum is invariant under renaming, splits over a partition, and is monotone; of a finite set
of places each is the k-th for exactly one k.

The arguments, and why the properties are not inductive as they stand:

- **One row.** At its commit a job removes what its DELETE saw, so one must know that
  this was everything in its window. `SyncInv` adds it: away from a clash, what a
  replacing job holds is all its window shows (`WindowHeld`), which stays true because no
  other job replaces an overlapping window (`WindowsApart`), every job deletes only in
  its target (`HeldRows`) and inserts only rows of its window (`RowsInWindow`), and each
  works under its own running log row (`StepLogged`).
- **Outcomes.** The log row a step closes is the last one of its job (`LogRowsFinal`).
  The status a thread has aggregated so far says what the log rows of this invocation say
  (`Honest`). In a full sync the steps left are a suffix of the plan whose first part was
  synced (`Ordered`), which is why no parent table is missing (`ParentsFirst`). What a step
  has looked up is still in the dimension tables, since those only grow (`Resolved`).
- **Ledger.** `CommitMaps`: with one job, what the commit replaces is exactly the window
  of the abstract step, because nothing was committed since its DELETE. Every other
  action is a stutter, the end of a failed log row, or the start of one.
- **Alerts.** `AlertInv`: a loaded copy is of a row that is still there. `Muting`: what was
  dismissed before the evaluation began is neither in its copies as open nor picked.
  `Covered`: a key that has fired since the beginning is emitted before the sweep, so the
  sweep does not pick it; this is where evaluations of one account fall through.
- **Alerts on one thread.** A row about to be written is still the row that was loaded
  (`Rows`), so refreshing and patching leave an honest stamp; everything emitted is open or
  dismissed, and once the emission is over all else that is open is on the list to be
  resolved (`Emitted`); what fires throughout is still to be emitted or has been (`Listed`).
- **Approval.** A session nobody has written past holds the plan itself (`FreshCopies`).
  With it, an edit resets the plan it writes (`EditsUnapprove`), and all other requests
  leave the content alone (`OthersKeepContent`, `MergeColumns`). `Agrees` ties the status
  to the newest event and to the KPIs.
- **Access.** What a thread has been permitted to do was checked against locking oneself
  out (`Ordered`); a change by an admin leaves that admin one. For the grants, what a lone
  replacement is about to delete is what the user has (`Alone`), since users come and go
  but no key is given out twice (`Onward`).
- **Services.** The rows collected are the batches streamed in this attempt
  (`StreamInv`); the resolver is a wrapper of the one send under way, and that wrapper
  calls the system's (`WrapperInv`); every entry's expiry is its time of storing plus the
  ttl, its value as old as its producer's start (`CacheInv`), and the store is finite.
- **Budgets and scorecards.** Every budget row stands under the period of the day it was
  entered for, also the rows of requests that have found none yet (`BudgetInv`); weeks and
  months are blocks of days, so the spend of a period is the sum over its days once each.
  A snapshot is right when it sums the weeks from its plan to its own (`Right`); snapshots
  stay in order and under one plan, so the difference of two is the sum of the weeks
  between (`ScoreInv`); nothing is only flushed when a campus may fail.
- **Copy.** Who writes has read a plan, and the columns that a request leaves as it read
  them are taken from the stored row (`WrittenColumns`), so that each request is judged by
  what it changes (`Respects`, one case per request); what is typed of some kinds leaves the
  others as they read (`OthersStand`).
- **Copy that runs.** `RunsInv` says of the stored row and of every row that was read that
  each column is sound by itself (`GoodRow`), so that any mixture of the columns of two
  requests is. A list in which five lines in a row are different (`Rich`) keeps them when
  another follows and the rest is cut (`JoinRich`): the templates leave five and two
  (`TemplateIs`), the model's answer is either long enough or followed by them
  (`ModelLines`), an ad has those of its group or of the campaign (`BothLines`). Five
  headlines and two descriptions have the four points that the rating asks for
  (`StrongEnough`): of eight headlines and more it no longer matters how many are
  repetitions, and of fewer too few can be.
- **Media plan.** `PlanInv` keeps of a built plan only what edits cannot change, and the
  months. Shares rounded one by one miss the budget by half a unit each at most
  (`SharesClose`), and the last group and the busiest month take what is left: hence the
  bounds of `MonthsAddUp`, and `EveryMonthCovered` in them. The range of clicks, the goal
  and the target are inequalities between rounded quotients (`FewerClicks`, `GoalHolds`).
- **Keywords.** `KeywordInv` knows of added keywords that they are different and are what
  their signals and their override make of them. Each save classifies them again and
  applies the overrides again, and both are then without effect (`Idempotent`); lists that
  agree on words, intents and match types have the same groups (`SameGroups`).
- **Portfolio.** The newest plans of the campuses are one per campus; a sum over them is
  the sum, over managers or accounts, of the sums of each class (`PortfolioSound`).
- **Command center.** `CenterInv` knows of the snapshots only that there is one per thing
  and day in each table and none of a day to come. *Pages agree*: each page sums the same rows, by line,
  by day, by account or by entity, and a sum over a partition is the sum of the sums
  (`ClassSum`, `SumParts`); two pages that round the same average differently never turn an
  order round (`RoundedGrows`); a critical budget is compared with one campaign where
  that campaign's cost bounds what the budget spent, or the other way round (`BudgetsAgree`). *Worst first*: penalties are multiples
  of five, and what a campaign loses for having no impressions is more than click rate,
  price and budget can cost one that has some. *Laggards*: the day that all accounts are compared with is the newest of any of
  them, so the account of an alarm that has no rows of that day is behind another.

Only model-checked, and why: liveness under fairness (`InvocationEnds`, `RequestEnds`,
`CallEnds`), which is outside the prover's reach. Every invariant and every action property
that a passing run checks is stated by a theorem; where the last column names a
condition, the run is one that meets it.

## 5. Where the code and its documents differ

With a run and a finding: `replace_window` and its "exactly one row" (`sync_duplicates`),
scoped evaluations (`alerts_scoped`), edits of a plan that is approved meanwhile
(`approval_stale`). Met while modelling, without a run of their own:

- `models/mixins.py:7` calls snapshots append-only; `replace_window` removes recorded days.
- `docs/command-center.md:101`: a dismissed alert stays dismissed; an evaluation that
  selected the alert before the dismissal overwrites it (`repositories/alert.py:49`).
- `ad_copy_service.py:1330`: manual work is "never clobbered"; two sessions can do it,
  because `result_payload` is one column and each writes the copy it read. Ad groups saved
  by hand also keep keywords that are removed later, and the review mail and the exports
  show the generated copy and the typed one, never those ad groups.
- `ad_copy_service.py:770`: an import "doesn't wipe prior edits"; a listed row with a match
  type or intent replaces the keyword's whole override, and keywords beyond the limits of
  look-up and group are left out without a word.
- `ad_copy_service.py:1485`: lines that fill up a short answer of the model are not compared
  with the model's own, so a line may appear twice.
- `ad_copy_service.py:1623` fills up "to reach 15 headlines", and `campus_config.py:189` keeps
  the full name of an online university that is not in the list. Beyond 21 characters fewer
  than five of the fixed headlines fit, beyond 33 only three and fewer than two descriptions,
  and there is nothing to fill up with: such an ad is stored with too few lines.
- `approval_service.py:747`: assigning an owner "grants access"; not when the plan names no
  account. `OwnersSee` in `Portfolio` therefore asks it of plans that do.
- `google_ads/client.py:169` calls other API errors fatal; line 170 raises the error that
  is retried.
- `email_service.py:136`: "scoped narrowly to the send"; overlapping sends break it.
- `dates.py` anchors all accounts to the freshest day of any, so an account synced later is
  alarmed for want of impressions; `AlarmsOfLaggardsOnly` says it is no other.
- `overview_service.py:3` speaks of "the latest fully-synced day"; it is the latest day that
  any campaign has a snapshot of. The account roll-up counts `days + 1` days where the
  other pages count `days`; `ViewsAgree` compares them over the days each of them means.
- `ops.py:100` counts a campaign as limited when it alone spends its budget, and so does the
  finding of its health (`scoring.py:164`). Google's budgets may be shared (`budgets.py:22`):
  two campaigns of 5 on a budget of 10 are critical on the budget page and no finding
  anywhere else. `BudgetsAgree` relates the pages only where one campaign accounts for what
  its budget spends.
- `budget_planner.py:297` lets the busiest month take what rounding leaves of the others:
  below some fifty-five rupees a year that month may be negative, as `EveryMonthCovered` says.
  `RangeOrdered` and `GoalMet` name where else tiny figures defeat the planners: a click below
  three hundredths of a rupee, half a rupee, or no group that can pay for one.
- Scorecards find plans and snapshots by a part of the campus name, and a new plan starts
  the totals again; `AlertsRight` is about two snapshots of one campus and plan.

## 6. What is not modelled

- **Google Ads reports, exports, schemas, configuration, migrations, the React client,
  scripts**: data conversion, layout and declarations without a state of their own.
- **Landing pages, negative keywords, past search terms, college discovery, advice
  texts**: they read pages or rows and rank or word what they find; nothing is kept.
- **The scheduler's triggers** are APScheduler's; the sync takes two jobs at once as given.
- **OAuth, cookies, API tokens**: cryptography and redirects.
- **Metric values in the sync**: the model has which rows exist. A slow job that fetched
  first and commits last puts older figures over newer ones, which nothing in the code or
  its documents excludes.
- **Floating point**: the planners and scores are over integers; a difference below one
  unit of rounding cannot show.
- **Sitelinks, snippets, display paths, best and worst cases, the bid audit**: computed once
  from what is modelled, never edited.
- **Text**: matching by a part of a name is modelled where it decides what is found
  (`NameContains`), nowhere else.

## 7. What could follow

A composition of `SyncEngine` with `CommandCenter`, so that a failed account shows as a
laggard; the manual re-sync page of the API and the status page over log rows; the remaining
views of the keyword history.
