----------------------------- MODULE SyncEngine -----------------------------
(***************************************************************************)
(* SyncService: concurrent sync invocations (the hourly and daily jobs,    *)
(* manual syncs and backfills) over one database.                          *)
(*                                                                         *)
(* Each step of an invocation opens a log row, commits it, and then works  *)
(* in one transaction: it reads a report, resolves the rows against the    *)
(* committed dimension tables, upserts dimension rows, replaces a window   *)
(* of snapshot rows, and commits the data with the log's final status.     *)
(* The database is PostgreSQL at READ COMMITTED: a statement sees what was *)
(* committed when it began, a DELETE waits for the transaction that is     *)
(* deleting the same row, and an INSERT waits for the transaction that is  *)
(* inserting the same unique key.                                          *)
(*                                                                         *)
(* A child entity hangs under the parent with the same id, so the parent   *)
(* lookup of a row is the lookup of its id in the tables of Needs(step).   *)
(***************************************************************************)
EXTENDS SyncPlan, FiniteSets

CONSTANTS
  Jobs,            \* threads that run sync invocations
  Customers,       \* client accounts
  Manager,         \* login_customer_id, the account discovery runs under
  Configured,      \* settings.client_customer_id_list
  Ids,             \* Google ids of the entities inside an account
  NoDate,          \* a report row whose date does not parse
  Requests,        \* the requests a job may serve
  FirstDay,        \* the day the system starts on
  LastDay,         \* bound: the calendar stops here
  MaxInvocations,  \* bound: invocations of each job
  MaxDeviations    \* bound: short reports, failed steps and killed runs

RequestType ==
  [backfill: BOOLEAN, entity: EntityNames, customers: SUBSET Customers,
   lookback: Nat, start: Int, end: Int]

ASSUME ManagerAssumption    == Manager \notin Customers
ASSUME ConfiguredAssumption == Configured \subseteq Customers
ASSUME RequestsAssumption   == Requests \subseteq RequestType /\ Requests # {}
ASSUME NoDateAssumption     == NoDate \notin Int
ASSUME CalendarAssumption   == FirstDay \in Int /\ LastDay \in Int
ASSUME BoundsAssumption     == MaxInvocations \in Nat /\ MaxDeviations \in Nat

VARIABLES
  \* the database, as committed
  dims,      \* dims[t]: <<account, id>> keys present in dimension table t
  snaps,     \* the visible snapshot rows
  logs,      \* logs[j]: the sync_logs rows job j has opened, in order
  \* the running invocations
  pc,        \* pc[j]: where job j is
  req,       \* req[j]: the request it serves
  win,       \* win[j]: the reporting window it syncs
  queue,     \* queue[j]: the target accounts not reached yet
  acct,      \* acct[j]: the account it is working on
  plan,      \* plan[j]: the steps left for that account, the current one first
  txn,       \* txn[j]: what its open transaction has read and written
  first,     \* first[j]: log rows of job j that precede this invocation
  result,    \* result[j]: the aggregate status of the invocation
  \* the environment
  today,     \* the current day
  \* history: not part of the program
  started,   \* started[j]: invocations begun
  faults,    \* deviations so far
  clash      \* <<table, account>> pairs that two transactions replaced at once

dbVars   == <<dims, snaps, logs>>
jobVars  == <<pc, req, win, queue, acct, plan, txn, first, result>>
histVars == <<started, faults, clash>>
vars     == <<dbVars, jobVars, today, histVars>>

-----------------------------------------------------------------------------
Accounts == Customers \cup {Manager}
Keys     == Accounts \X (Ids \cup Accounts)
Dates    == Int \cup {NoDate}
Rows     == [id: Ids \cup Accounts, day: Dates]      \* what a report returns
LogIds   == Jobs \X Nat
SnapRows == [step: SnapSteps, acct: Accounts, id: Ids \cup Accounts,
             day: Dates, log: LogIds]
Final    == {"success", "partial", "failed"}
LogRows  == [step: Steps, acct: Accounts, status: Final \cup {"running"}]
Windows  == [start: Int, end: Int]

Txns ==
  [rows: SUBSET Rows,        \* usable report rows
   skipped: SUBSET Rows,     \* report rows counted as failed
   todo: SUBSET Rows,        \* rows still to upsert
   missing: SUBSET Rows,     \* the row whose SELECT found nothing, until its INSERT
   made: SUBSET Keys,        \* dimension keys inserted, uncommitted
   seen: SUBSET SnapRows,    \* rows visible to the DELETE when it began
   gone: SUBSET SnapRows]    \* rows it deleted, uncommitted

NoTxn == [rows |-> {}, skipped |-> {}, todo |-> {}, missing |-> {},
          made |-> {}, seen |-> {}, gone |-> {}]

Phases == {"idle", "next", "fetch", "map", "select", "insert", "scan", "write",
           "commit", "failing"}

Step(j)  == Head(plan[j])
LogId(j) == <<j, Len(logs[j])>>

Key(j, row) == <<acct[j], row.id>>

\* Mutant of InTarget: the last day of the window is left out.
InTargetOpenEnd(j, s) ==
  s.step = Step(j) /\ s.acct = acct[j] /\ s.day \in win[j].start .. win[j].end - 1

\* Row s lies in the account and window that step `step` of job j replaces.
InTarget(j, s) ==
  /\ s.step = Step(j)
  /\ s.acct = acct[j]
  /\ s.day \in win[j].start .. win[j].end

\* The snapshot rows job j inserts, tagged with the log row that made them.
Fresh(j) ==
  {[step |-> Step(j), acct |-> acct[j], id |-> row.id, day |-> row.day,
    log |-> LogId(j)] : row \in IF Step(j) \in SnapSteps THEN txn[j].rows ELSE {}}

Replacing(j) == pc[j] \in {"write", "commit"} /\ Step(j) \in WindowSteps

-----------------------------------------------------------------------------
Init ==
  /\ dims = [t \in DimTables |-> {}]
  /\ snaps = {}
  /\ logs = [j \in Jobs |-> <<>>]
  /\ pc = [j \in Jobs |-> "idle"]
  /\ req = [j \in Jobs |-> CHOOSE r \in Requests : TRUE]
  /\ win = [j \in Jobs |-> DefaultWindow(FirstDay, 1)]
  /\ queue = [j \in Jobs |-> {}]
  /\ acct = [j \in Jobs |-> Manager]
  /\ plan = [j \in Jobs |-> <<>>]
  /\ txn = [j \in Jobs |-> NoTxn]
  /\ first = [j \in Jobs |-> 0]
  /\ result = [j \in Jobs |-> "success"]
  /\ today = FirstDay
  /\ started = [j \in Jobs |-> 0]
  /\ faults = 0
  /\ clash = {}

Deviate == faults < MaxDeviations /\ faults' = faults + 1

-----------------------------------------------------------------------------
(* The invocation: discovery, target accounts, one log row per step.       *)

\* Account discovery runs unless the request names its accounts and one entity.
\* "resolve" stands for _resolve_target_accounts.
OpeningPlan(r) ==
  (IF ~r.backfill /\ (r.entity \in {"all", "accounts"} \/ r.customers = {})
     THEN <<"accounts">> ELSE <<>>)
  \o (IF ~r.backfill /\ r.entity = "accounts" THEN <<>> ELSE <<"resolve">>)

Begin(j) ==
  /\ pc[j] = "idle"
  /\ started[j] < MaxInvocations
  /\ \E r \in Requests :
       /\ req' = [req EXCEPT ![j] = r]
       /\ plan' = [plan EXCEPT ![j] = OpeningPlan(r)]
  /\ queue' = [queue EXCEPT ![j] = {}]
  /\ acct' = [acct EXCEPT ![j] = Manager]
  /\ pc' = [pc EXCEPT ![j] = "next"]
  /\ first' = [first EXCEPT ![j] = Len(logs[j])]
  /\ result' = [result EXCEPT ![j] = "success"]
  /\ started' = [started EXCEPT ![j] = @ + 1]
  /\ UNCHANGED <<dbVars, win, txn, today, faults, clash>>

\* The accounts asked for, else the configured ones.
Named(r) == IF r.customers # {} THEN r.customers ELSE Configured

KnownAccounts == {c \in Customers : <<Manager, c>> \in dims["accounts"]}

Resolving(j) == pc[j] = "next" /\ plan[j] # <<>> /\ Step(j) = "resolve"

\* _resolve_target_accounts creates a named account it does not know and commits.
CreateAccount(j) ==
  /\ Resolving(j)
  /\ \E c \in Named(req[j]) \ KnownAccounts :
       /\ \A i \in Jobs : <<Manager, c>> \notin txn[i].made
       /\ dims' = [dims EXCEPT !["accounts"] = @ \cup {<<Manager, c>>}]
  /\ UNCHANGED <<snaps, logs, jobVars, today, histVars>>

\* The targets are known: the named accounts, or every syncable one.
PlanAccounts(j) ==
  /\ Resolving(j)
  /\ Named(req[j]) \subseteq KnownAccounts
  /\ queue' = [queue EXCEPT ![j] = IF Named(req[j]) # {} THEN Named(req[j]) ELSE KnownAccounts]
  /\ plan' = [plan EXCEPT ![j] = <<>>]
  /\ win' = [win EXCEPT ![j] =
               IF req[j].backfill
                 THEN [start |-> req[j].start, end |-> req[j].end]
                 ELSE DefaultWindow(today, req[j].lookback)]
  /\ UNCHANGED <<dbVars, pc, req, acct, txn, first, result, today, histVars>>

\* The outer loop: the steps of the next account.
NextAccount(j) ==
  /\ pc[j] = "next" /\ plan[j] = <<>>
  /\ \E a \in queue[j] :
       /\ queue' = [queue EXCEPT ![j] = @ \ {a}]
       /\ acct' = [acct EXCEPT ![j] = a]
  /\ plan' = [plan EXCEPT ![j] = StepsFor(req[j].entity, req[j].backfill)]
  /\ UNCHANGED <<dbVars, pc, req, win, txn, first, result, today, histVars>>

\* create_run and its commit: the attempt is durable before any work.
OpenLog(j) ==
  /\ pc[j] = "next" /\ plan[j] # <<>> /\ Step(j) # "resolve"
  /\ logs' = [logs EXCEPT ![j] =
                Append(@, [step |-> Step(j), acct |-> acct[j], status |-> "running"])]
  /\ pc' = [pc EXCEPT ![j] = "fetch"]
  /\ UNCHANGED <<dims, snaps, req, win, queue, acct, plan, txn, first, result, today, histVars>>

Finish(j) ==
  /\ pc[j] = "next" /\ plan[j] = <<>> /\ queue[j] = {}
  /\ pc' = [pc EXCEPT ![j] = "idle"]
  /\ UNCHANGED <<dbVars, req, win, queue, acct, plan, txn, first, result, today, histVars>>

-----------------------------------------------------------------------------
(* One step: report, lookups, upserts, window replacement, commit.         *)

\* The report a step asks Google for; only metric reports carry dates.
FullReport(j) ==
  [id:  IF Step(j) = "accounts" THEN Accounts ELSE Ids,
   day: IF Step(j) \in WindowSteps THEN win[j].start .. win[j].end ELSE {NoDate}]

\* The report may lack rows, or carry rows whose date does not parse.
Fetch(j) ==
  /\ pc[j] = "fetch"
  /\ \/ /\ txn' = [txn EXCEPT ![j].rows = FullReport(j)]
        /\ UNCHANGED faults
     \/ /\ Deviate
        /\ \E rows \in SUBSET (FullReport(j) \cup {[id |-> i, day |-> NoDate] : i \in Ids}) :
             txn' = [txn EXCEPT ![j].rows = rows]
  /\ pc' = [pc EXCEPT ![j] = "map"]
  /\ UNCHANGED <<dbVars, req, win, queue, acct, plan, first, result, today, started, clash>>

\* Mutant of Usable: rows are written whether or not their parents are known.
UsableOrphans(j, row) == Step(j) \in WindowSteps => row.day # NoDate

Usable(j, row) ==
  /\ \A t \in Needs(Step(j)) : Key(j, row) \in dims[t]
  /\ Step(j) \in WindowSteps => row.day # NoDate

\* Where a step goes once its dimension rows are in.
AfterUpserts(j) == CASE Step(j) \in WindowSteps -> "scan"
                     [] Step(j) \in AppendSteps -> "write"
                     [] OTHER                   -> "commit"

\* google_id_to_pk / natural_key_to_pk: rows whose parent is unknown are failed.
MapRows(j) ==
  /\ pc[j] = "map"
  /\ LET usable == {row \in txn[j].rows : Usable(j, row)}
         upsert == IF Step(j) \in DimTables THEN usable ELSE {}
         dated  == IF Step(j) \in AppendSteps
                     THEN {[row EXCEPT !.day = today] : row \in usable} ELSE usable
     IN  /\ txn' = [txn EXCEPT ![j].rows = dated, ![j].todo = upsert,
                               ![j].skipped = txn[j].rows \ usable]
         /\ pc' = [pc EXCEPT ![j] = IF upsert = {} THEN AfterUpserts(j) ELSE "select"]
  /\ UNCHANGED <<dbVars, req, win, queue, acct, plan, first, result, today, histVars>>

\* upsert, the SELECT: an existing row is updated at once, a missing one is
\* inserted in the next step.
SelectRow(j) ==
  /\ pc[j] = "select"
  /\ \E row \in txn[j].todo :
       IF Key(j, row) \in dims[Step(j)] \cup txn[j].made
         THEN /\ txn' = [txn EXCEPT ![j].todo = @ \ {row}]
              /\ pc' = [pc EXCEPT ![j] = IF txn[j].todo = {row} THEN AfterUpserts(j) ELSE @]
         ELSE /\ txn' = [txn EXCEPT ![j].missing = {row}]
              /\ pc' = [pc EXCEPT ![j] = "insert"]
  /\ UNCHANGED <<dbVars, req, win, queue, acct, plan, first, result, today, histVars>>

\* The other jobs whose uncommitted INSERT holds the key job j wants to insert.
KeyHolders(j) ==
  {i \in Jobs \ {j} : /\ pc[i] # "idle" /\ plan[i] # <<>> /\ Step(i) = Step(j)
                      /\ \E row \in txn[j].missing : Key(j, row) \in txn[i].made}

\* upsert, the INSERT: it waits for a concurrent inserter of the same key, and
\* fails when that one has committed.
InsertRow(j) ==
  /\ pc[j] = "insert" /\ KeyHolders(j) = {}
  /\ \E row \in txn[j].missing :
       IF Key(j, row) \in dims[Step(j)]
         THEN /\ pc' = [pc EXCEPT ![j] = "failing"]
              /\ UNCHANGED txn
         ELSE /\ txn' = [txn EXCEPT ![j].todo = @ \ {row}, ![j].missing = {},
                                    ![j].made = @ \cup {Key(j, row)}]
              /\ pc' = [pc EXCEPT ![j] = IF txn[j].todo = {row}
                                           THEN AfterUpserts(j) ELSE "select"]
  /\ UNCHANGED <<dbVars, req, win, queue, acct, plan, first, result, today, histVars>>

\* Mutant of Scan: the DELETE forgets the account.
ScanAllAccounts(j) ==
  /\ pc[j] = "scan"
  /\ txn' = [txn EXCEPT ![j].seen =
               {s \in snaps : s.step = Step(j) /\ s.day \in win[j].start .. win[j].end}]
  /\ pc' = [pc EXCEPT ![j] = "write"]
  /\ UNCHANGED <<dbVars, req, win, queue, acct, plan, first, result, today, histVars>>

\* replace_window, the DELETE begins: it will consider the rows visible now.
Scan(j) ==
  /\ pc[j] = "scan"
  /\ txn' = [txn EXCEPT ![j].seen = {s \in snaps : InTarget(j, s)}]
  /\ pc' = [pc EXCEPT ![j] = "write"]
  /\ clash' = clash \cup
       {<<Step(i), acct[i]>> : i \in {i \in Jobs \ {j} :
          /\ Replacing(i) /\ Step(i) = Step(j) /\ acct[i] = acct[j]
          /\ Overlap(win[i], win[j])}}
  /\ UNCHANGED <<dbVars, req, win, queue, acct, plan, first, result, today, started, faults>>

\* The other jobs that have deleted, uncommitted, a row job j wants to delete.
RowHolders(j) == {i \in Jobs \ {j} : txn[i].gone \cap txn[j].seen \cap snaps # {}}

\* The DELETE ends and the new rows are inserted (bulk_insert alone for a step
\* that only appends). Rows another transaction has removed by now are skipped.
Write(j) ==
  /\ pc[j] = "write" /\ RowHolders(j) = {}
  /\ txn' = [txn EXCEPT ![j].gone = txn[j].seen \cap snaps]
  /\ pc' = [pc EXCEPT ![j] = "commit"]
  /\ UNCHANGED <<dbVars, req, win, queue, acct, plan, first, result, today, histVars>>

\* Mutant of Close: the final status goes to the invocation's first log row.
CloseFirstLog(j, status) ==
  /\ logs' = [logs EXCEPT ![j][first[j] + 1].status = status]
  /\ result' = [result EXCEPT ![j] = Absorb(@, status)]
  /\ plan' = [plan EXCEPT ![j] = Tail(@)]
  /\ txn' = [txn EXCEPT ![j] = NoTxn]
  /\ pc' = [pc EXCEPT ![j] = "next"]
  /\ UNCHANGED <<req, win, queue, acct, first, today>>

\* A step that has ended: its log row is final, its outcome is absorbed.
Close(j, status) ==
  /\ logs' = [logs EXCEPT ![j][Len(logs[j])].status = status]
  /\ result' = [result EXCEPT ![j] = Absorb(@, status)]
  /\ plan' = [plan EXCEPT ![j] = Tail(@)]
  /\ txn' = [txn EXCEPT ![j] = NoTxn]
  /\ pc' = [pc EXCEPT ![j] = "next"]
  /\ UNCHANGED <<req, win, queue, acct, first, today>>

\* Data and final log status become visible in one commit.
Commit(j) ==
  /\ pc[j] = "commit"
  /\ snaps' = (snaps \ txn[j].gone) \cup Fresh(j)
  /\ dims' = [t \in DimTables |-> IF t = Step(j) THEN dims[t] \cup txn[j].made ELSE dims[t]]
  /\ Close(j, IF txn[j].skipped = {} THEN "success" ELSE "partial")
  /\ UNCHANGED histVars

-----------------------------------------------------------------------------
(* Failure.                                                                *)

Working == {"fetch", "map", "select", "insert", "scan", "write", "commit"}

\* Any exception inside the step: Google's, or the database's.
StepFails(j) ==
  /\ pc[j] \in Working
  /\ Deviate
  /\ pc' = [pc EXCEPT ![j] = "failing"]
  /\ UNCHANGED <<dbVars, req, win, queue, acct, plan, txn, first, result, today, started, clash>>

Waiting(j) == \/ pc[j] = "insert" /\ KeyHolders(j) # {}
              \/ pc[j] = "write" /\ RowHolders(j) # {}

Holders(j) == IF pc[j] = "insert" THEN KeyHolders(j) ELSE RowHolders(j)

\* PostgreSQL breaks a cycle of waiting transactions by failing one of them.
DeadlockVictim(j) ==
  /\ \E S \in SUBSET Jobs :
       /\ j \in S
       /\ \A i \in S : Waiting(i) /\ Holders(i) \cap S # {}
  /\ pc' = [pc EXCEPT ![j] = "failing"]
  /\ UNCHANGED <<dbVars, req, win, queue, acct, plan, txn, first, result, today, histVars>>

\* Mutant of MarkFailed: the failed status is committed without a rollback.
MarkFailedNoRollback(j) ==
  /\ pc[j] = "failing"
  /\ snaps' = (snaps \ txn[j].gone) \cup Fresh(j)
  /\ Close(j, "failed")
  /\ UNCHANGED <<dims, histVars>>

\* Mutant of MarkFailed: a failed account discovery is not handled.
MarkFailedNotDiscovery(j) ==
  /\ pc[j] = "failing" /\ Step(j) # "accounts"
  /\ Close(j, "failed")
  /\ UNCHANGED <<dims, snaps, histVars>>

\* The handler: roll back the step's writes, mark its log row failed, go on.
MarkFailed(j) ==
  /\ pc[j] = "failing"
  /\ Close(j, "failed")
  /\ UNCHANGED <<dims, snaps, histVars>>

\* The process is killed, or a statement outside the step's try block raises:
\* the invocation ends, its open transaction is rolled back, its log row stays.
Abandon(j) ==
  /\ pc[j] # "idle"
  /\ Deviate
  /\ pc' = [pc EXCEPT ![j] = "idle"]
  /\ plan' = [plan EXCEPT ![j] = <<>>]
  /\ queue' = [queue EXCEPT ![j] = {}]
  /\ txn' = [txn EXCEPT ![j] = NoTxn]
  /\ UNCHANGED <<dbVars, req, win, acct, first, result, today, started, clash>>

NextDay ==
  /\ today < LastDay
  /\ today' = today + 1
  /\ UNCHANGED <<dbVars, jobVars, histVars>>

-----------------------------------------------------------------------------
\* What a running invocation does on its own, failures aside.
Progress(j) ==
  \/ CreateAccount(j) \/ PlanAccounts(j) \/ NextAccount(j) \/ OpenLog(j) \/ Finish(j)
  \/ Fetch(j) \/ MapRows(j) \/ SelectRow(j) \/ InsertRow(j)
  \/ Scan(j) \/ Write(j) \/ Commit(j)
  \/ DeadlockVictim(j) \/ MarkFailed(j)

Next ==
  \/ \E j \in Jobs : Begin(j) \/ Progress(j) \/ StepFails(j) \/ Abandon(j)
  \/ NextDay

Spec == Init /\ [][Next]_vars

\* A thread that has begun an invocation keeps running it.
FairSpec == Spec /\ \A j \in Jobs : WF_vars(Progress(j))

-----------------------------------------------------------------------------
(* Properties.                                                             *)

\* Every variable has its type; a job that works on a step has a log row for it.
TypeOK ==
  /\ dims \in [DimTables -> SUBSET Keys]
  /\ snaps \subseteq SnapRows
  /\ logs \in [Jobs -> Seq(LogRows)]
  /\ pc \in [Jobs -> Phases]
  /\ req \in [Jobs -> Requests]
  /\ win \in [Jobs -> Windows]
  /\ queue \in [Jobs -> SUBSET Customers]
  /\ acct \in [Jobs -> Accounts]
  /\ plan \in [Jobs -> Seq(Steps \cup {"resolve"})]
  /\ txn \in [Jobs -> Txns]
  /\ first \in [Jobs -> Nat]
  /\ result \in [Jobs -> {"success", "partial"}]
  /\ today \in Int
  /\ started \in [Jobs -> 0 .. MaxInvocations]
  /\ faults \in 0 .. MaxDeviations
  /\ clash \subseteq Steps \X Accounts

\* Atomicity of a step: a visible snapshot row belongs to a log row that ended
\* in success or partial, of the same step and account. A step that failed, is
\* running, or was killed has left nothing behind.
Lineage ==
  \A s \in snaps :
    LET j == s.log[1]
        n == s.log[2]
    IN  /\ n \in DOMAIN logs[j]
        /\ logs[j][n].status \in {"success", "partial"}
        /\ logs[j][n].step = s.step /\ logs[j][n].acct = s.acct

\* Log rows are never withdrawn, and one that has ended never changes again,
\* whatever later steps, failures or restarts of its job do.
LogsFinal ==
  [][\A j \in Jobs : \A n \in DOMAIN logs[j] :
       /\ n \in DOMAIN logs'[j]
       /\ logs[j][n].status \in Final => logs'[j][n] = logs[j][n]]_logs

\* A snapshot row disappears only when a window step of its own table and
\* account commits over its day: a sync of one account, table or window never
\* removes another's rows, and recommendations are never removed.
RemovedOnlyByItsWindow ==
  [][\A s \in snaps \ snaps' :
       /\ s.step \in WindowSteps
       /\ \E j \in Jobs : pc[j] = "commit" /\ InTarget(j, s)]_snaps

\* Every snapshot row points at dimension rows that exist: the lookups of a
\* step, made before other transactions commit, still hold when it commits.
ParentsKnown ==
  \A s \in snaps : \A t \in Needs(s.step) : <<s.acct, s.id>> \in dims[t]

SameEntityDay(r, s) ==
  r.step = s.step /\ r.acct = s.acct /\ r.id = s.id /\ r.day = s.day

\* replace_window's promise: exactly one row per (entity, day).
OneRowPerEntityDay ==
  \A r, s \in snaps : r.step \in WindowSteps /\ SameEntityDay(r, s) => r = s

\* What the code does guarantee: duplicates can only come from two transactions
\* that were replacing overlapping windows of the same table and account at once.
OneRowUnlessClash ==
  \A r, s \in snaps :
    /\ r.step \in WindowSteps /\ SameEntityDay(r, s)
    /\ <<r.step, r.acct>> \notin clash
    => r = s

\* An invocation reports success exactly when each step it ran ended in success.
ResultHonest ==
  \A j \in Jobs :
    pc[j] = "next" =>
      (result[j] = "success"
         <=> \A n \in first[j] + 1 .. Len(logs[j]) : logs[j][n].status = "success")

\* With one job, the engine is the ledger of SnapshotLedger: each step appears
\* to readers as one atomic replacement of its window, or as nothing.
Ledger == INSTANCE SnapshotLedger WITH rows <- snaps, Days <- 0 .. LastDay
RefinesLedger == Ledger!Spec

\* In a full sync every parent table has been synced, for the same account and
\* in the same invocation, before a step looks its rows up in it.
ParentsSyncedFirst ==
  \A j \in Jobs :
    (pc[j] = "map" /\ req[j].entity = "all" /\ ~req[j].backfill) =>
      \A t \in Needs(Step(j)) :
        \E n \in first[j] + 1 .. Len(logs[j]) - 1 :
          logs[j][n].step = t /\ logs[j][n].acct = acct[j]

\* Whatever the reports and the other jobs do, an invocation that is begun ends:
\* no cycle of lock waits holds it for ever.
InvocationEnds == \A j \in Jobs : pc[j] # "idle" ~> pc[j] = "idle"

-----------------------------------------------------------------------------
(* The inductive invariant behind OneRowUnlessClash and Lineage.           *)

InStep(j) == pc[j] \notin {"idle", "next"}

\* A job inside a step has a step to run and a running log row for it.
StepLogged ==
  \A j \in Jobs : InStep(j) =>
    /\ plan[j] # <<>> /\ Step(j) \in Steps
    /\ logs[j] # <<>>
    /\ logs[j][Len(logs[j])] =
         [step |-> Step(j), acct |-> acct[j], status |-> "running"]

\* The rows a window step will insert lie in its window.
RowsInWindow ==
  \A j \in Jobs :
    InStep(j) /\ pc[j] \notin {"fetch", "failing"} /\ Step(j) \in WindowSteps =>
      \A row \in txn[j].rows :
        \/ row.day \in win[j].start .. win[j].end
        \/ pc[j] = "map" /\ row.day = NoDate

\* Only a window step at its DELETE holds rows, all of them in its window.
HeldRows ==
  \A j \in Jobs :
    /\ pc[j] # "failing" /\ ~Replacing(j) => txn[j].seen = {} /\ txn[j].gone = {}
    /\ Replacing(j) => \A s \in txn[j].seen \cup txn[j].gone : InTarget(j, s)
    /\ pc[j] = "write" => txn[j].gone = {}
    /\ pc[j] = "scan" => Step(j) \in WindowSteps

\* Away from a clash, what a window step deletes is all its window holds.
WindowHeld ==
  \A j \in Jobs :
    Replacing(j) /\ <<Step(j), acct[j]>> \notin clash =>
      {s \in snaps : InTarget(j, s)} =
        IF pc[j] = "write" THEN txn[j].seen ELSE txn[j].gone

\* Away from a clash, no two window steps work on overlapping windows.
WindowsApart ==
  \A i, j \in Jobs :
    /\ i # j /\ Replacing(i) /\ Replacing(j)
    /\ Step(i) = Step(j) /\ acct[i] = acct[j]
    /\ <<Step(j), acct[j]>> \notin clash
    => ~Overlap(win[i], win[j])

SyncInv ==
  /\ TypeOK /\ StepLogged /\ Lineage /\ RowsInWindow /\ HeldRows
  /\ WindowHeld /\ WindowsApart /\ OneRowUnlessClash
=============================================================================
