-------------------------- MODULE SyncEngineProofs --------------------------
(***************************************************************************)
(* Theorems about SyncEngine, for any jobs, accounts, ids and requests:    *)
(* types, the atomicity of a step (Lineage), and that duplicate snapshot   *)
(* rows can only come from overlapping replacements (OneRowUnlessClash).   *)
(***************************************************************************)
EXTENDS SyncEngine, SequenceTheorems, TLAPS

-----------------------------------------------------------------------------
(* Plans and logs are sequences.                                           *)

LEMMA OneTuple == ASSUME NEW S, NEW a \in S PROVE <<a>> \in Seq(S)
OBVIOUS

LEMMA NoTuple == ASSUME NEW S PROVE <<>> \in Seq(S)
OBVIOUS

LEMMA ConcatType ==
  ASSUME NEW S, NEW s \in Seq(S), NEW t \in Seq(S)
  PROVE  s \o t \in Seq(S)
OBVIOUS

\* The steps planned for an account are steps.
LEMMA StepsForType ==
  ASSUME NEW entity, NEW only \in BOOLEAN
  PROVE  StepsFor(entity, only) \in Seq(Steps)
<1>1. \A name : Dims(name) \in Seq(Steps)
  <2> SUFFICES ASSUME NEW name PROVE Dims(name) \in Seq(Steps)
    OBVIOUS
  <2>1. CASE name \in Steps
    BY <2>1, OneTuple, NoTuple DEF Dims
  <2>2. CASE name \notin Steps
    BY <2>2, NoTuple DEF Dims, Steps
  <2> QED
    BY <2>1, <2>2
<1>2. \A name : Snaps(name) \in Seq(Steps)
  <2> SUFFICES ASSUME NEW name PROVE Snaps(name) \in Seq(Steps)
    OBVIOUS
  <2>1. /\ "budget_snapshots" \in Steps /\ "ad_group_snapshots" \in Steps
        /\ "keyword_snapshots" \in Steps /\ "ad_snapshots" \in Steps
        /\ "search_terms" \in Steps /\ "recommendations" \in Steps
        /\ "campaign_snapshots" \in Steps /\ "campaign_geo_snapshots" \in Steps
        /\ "campaign_device_snapshots" \in Steps
    BY DEF Steps, WindowSteps, AppendSteps
  <2>2. <<"campaign_snapshots", "campaign_device_snapshots",
          "campaign_geo_snapshots">> \in Seq(Steps)
    BY <2>1
  <2>3. CASE name \in {"search_terms", "recommendations"}
    <3>1. name \in Steps
      BY <2>1, <2>3
    <3> QED
      BY <3>1, <2>3, OneTuple DEF Snaps
  <2>4. CASE name \notin {"search_terms", "recommendations"}
    BY <2>1, <2>2, <2>4, OneTuple, NoTuple DEF Snaps
  <2> QED
    BY <2>3, <2>4
<1>3. \A name : Build(name, only) \in Seq(Steps)
  <2> SUFFICES ASSUME NEW name PROVE Build(name, only) \in Seq(Steps)
    OBVIOUS
  <2> QED
    BY <1>1, <1>2, NoTuple, ConcatType DEF Build
<1> HIDE DEF Steps
<1>4. QED
  BY <1>3, ConcatType DEF StepsFor

\* An opening plan holds discovery and account resolution only.
LEMMA OpeningPlanType ==
  ASSUME NEW r
  PROVE  OpeningPlan(r) \in Seq(Steps \cup {"resolve"})
<1>1. "accounts" \in Steps
  BY DEF Steps, DimSteps
<1>2. QED
  BY <1>1, NoTuple, OneTuple, ConcatType DEF OpeningPlan

LEMMA InitInv == Init => SyncInv
<1> SUFFICES ASSUME Init PROVE SyncInv
  OBVIOUS
<1>1. TypeOK
  BY RequestsAssumption, CalendarAssumption, BoundsAssumption
  DEF Init, TypeOK, NoTxn, Txns, Windows, DefaultWindow, Accounts, Phases
<1>2. StepLogged /\ Lineage /\ RowsInWindow
  BY DEF Init, StepLogged, Lineage, RowsInWindow, InStep
<1>3. HeldRows /\ WindowHeld /\ WindowsApart /\ OneRowUnlessClash
  BY DEF Init, HeldRows, WindowHeld, WindowsApart, OneRowUnlessClash, Replacing, NoTxn
<1> QED
  BY <1>1, <1>2, <1>3 DEF SyncInv

-----------------------------------------------------------------------------
(* Types.                                                                  *)

\* The type invariant and the log row of the running step, which the types of
\* logs[j][Len(logs[j])] and of Step(j) depend on.
Typed == TypeOK /\ StepLogged

\* What Close leaves behind is typed.
LEMMA CloseType ==
  ASSUME Typed, NEW j \in Jobs, InStep(j),
         NEW status \in Final, Close(j, status)
  PROVE  /\ logs' \in [Jobs -> Seq(LogRows)]
         /\ result' \in [Jobs -> {"success", "partial"}]
         /\ plan' \in [Jobs -> Seq(Steps \cup {"resolve"})]
         /\ txn' \in [Jobs -> Txns]
         /\ pc' \in [Jobs -> Phases]
<1>1. plan[j] # <<>> /\ logs[j] # <<>>
  BY DEF Typed, StepLogged
<1>2. logs[j] \in Seq(LogRows) /\ plan[j] \in Seq(Steps \cup {"resolve"})
  BY DEF Typed, TypeOK
<1>3. logs' \in [Jobs -> Seq(LogRows)]
  <2> DEFINE n == Len(logs[j])
             row == [logs[j][n] EXCEPT !.status = status]
  <2>1. n \in 1 .. Len(logs[j]) /\ logs[j][n] \in LogRows
    BY <1>1, <1>2, EmptySeq, LenProperties, ElementOfSeq
  <2>2. row \in LogRows
    BY <2>1 DEF LogRows
  <2>3. [logs[j] EXCEPT ![n] = row] \in Seq(LogRows)
    BY <1>2, <2>1, <2>2, ExceptSeq
  <2>4. logs' = [logs EXCEPT ![j] = [logs[j] EXCEPT ![n] = row]]
    BY DEF Close, Typed, TypeOK
  <2> QED
    BY <2>3, <2>4 DEF Typed, TypeOK
<1>4. Tail(plan[j]) \in Seq(Steps \cup {"resolve"})
  BY <1>1, <1>2, HeadTailProperties
<1>5. NoTxn \in Txns
  BY DEF NoTxn, Txns
<1>6. result' \in [Jobs -> {"success", "partial"}]
  BY DEF Close, Typed, TypeOK, Absorb, Final
<1> QED
  BY <1>3, <1>4, <1>5, <1>6 DEF Close, Typed, TypeOK, Phases

\* A transaction updated field by field is still a transaction.
LEMMA MappedType ==
  ASSUME NEW t \in Txns, NEW a \in SUBSET Rows, NEW b \in SUBSET Rows, NEW c \in SUBSET Rows
  PROVE  [t EXCEPT !.rows = a, !.todo = b, !.skipped = c] \in Txns
BY DEF Txns

LEMMA RowSetsType ==
  ASSUME NEW t \in Txns, NEW a \in SUBSET Rows
  PROVE  /\ [t EXCEPT !.rows = a] \in Txns
         /\ [t EXCEPT !.todo = a] \in Txns
         /\ [t EXCEPT !.missing = a] \in Txns
BY DEF Txns

LEMMA InsertedType ==
  ASSUME NEW t \in Txns, NEW a \in SUBSET Rows, NEW b \in SUBSET Keys
  PROVE  [t EXCEPT !.todo = a, !.missing = {}, !.made = b] \in Txns
BY DEF Txns

LEMMA HeldType ==
  ASSUME NEW t \in Txns, NEW a \in SUBSET SnapRows
  PROVE  [t EXCEPT !.seen = a] \in Txns /\ [t EXCEPT !.gone = a] \in Txns
BY DEF Txns

\* The sets of a transaction.
LEMMA TxnParts ==
  ASSUME Typed, NEW j \in Jobs
  PROVE  /\ txn[j] \in Txns
         /\ txn[j].rows \in SUBSET Rows /\ txn[j].todo \in SUBSET Rows
         /\ txn[j].missing \in SUBSET Rows /\ txn[j].made \in SUBSET Keys
BY DEF Typed, TypeOK, Txns

LEMMA FullReportType ==
  ASSUME Typed, NEW j \in Jobs
  PROVE  FullReport(j) \in SUBSET Rows
BY DEF FullReport, Rows, Dates, Typed, TypeOK, Windows

\* The keys a report row of a typed transaction stands for.
LEMMA KeyType ==
  ASSUME Typed, NEW j \in Jobs, NEW row \in Rows
  PROVE  Key(j, row) \in Keys
BY DEF Key, Keys, Rows, Typed, TypeOK

\* The rows a job inserts are snapshot rows.
LEMMA FreshType ==
  ASSUME Typed, NEW j \in Jobs
  PROVE  Fresh(j) \in SUBSET SnapRows
<1> SUFFICES ASSUME Step(j) \in SnapSteps, NEW row \in txn[j].rows
             PROVE  [step |-> Step(j), acct |-> acct[j], id |-> row.id,
                     day |-> row.day, log |-> LogId(j)] \in SnapRows
  BY DEF Fresh
<1>1. row \in Rows /\ acct[j] \in Accounts
  BY DEF Typed, TypeOK, Txns
<1>2. Len(logs[j]) \in Nat
  BY LenProperties DEF Typed, TypeOK
<1> QED
  BY <1>1, <1>2 DEF SnapRows, Rows, LogId, LogIds

LEMMA TypeStep ==
  ASSUME Typed, [Next]_vars
  PROVE  TypeOK'
<1> USE DEF Typed, TypeOK, dbVars, jobVars, histVars
<1>1. ASSUME NEW j \in Jobs, Begin(j) PROVE TypeOK'
  <2>1. \A r \in Requests : OpeningPlan(r) \in Seq(Steps \cup {"resolve"})
    BY OpeningPlanType
  <2>2. Len(logs[j]) \in Nat
    BY LenProperties
  <2>3. started' \in [Jobs -> 0 .. MaxInvocations]
    BY <1>1, BoundsAssumption DEF Begin
  <2> QED
    BY <1>1, <2>1, <2>2, <2>3 DEF Begin, Accounts, Phases
<1>2. ASSUME NEW j \in Jobs, CreateAccount(j) PROVE TypeOK'
  <2>1. "accounts" \in DimTables
    BY DEF DimTables, DimSteps
  <2>2. \A c \in Named(req[j]) : <<Manager, c>> \in Keys
    BY RequestsAssumption, ConfiguredAssumption
    DEF Named, RequestType, Keys, Accounts
  <2> QED
    BY <1>2, <2>1, <2>2 DEF CreateAccount
<1>3. ASSUME NEW j \in Jobs, PlanAccounts(j) PROVE TypeOK'
  <2>1. req[j] \in RequestType
    BY RequestsAssumption
  <2>2. Named(req[j]) \subseteq Customers
    BY <2>1, ConfiguredAssumption DEF Named, RequestType
  <2>3. win' \in [Jobs -> Windows]
    BY <1>3, <2>1 DEF PlanAccounts, RequestType, Windows, DefaultWindow
  <2> QED
    BY <1>3, <2>2, <2>3, NoTuple DEF PlanAccounts, KnownAccounts
<1>4. ASSUME NEW j \in Jobs, NextAccount(j) PROVE TypeOK'
  <2>1. req[j].backfill \in BOOLEAN
    BY RequestsAssumption DEF RequestType
  <2>2. StepsFor(req[j].entity, req[j].backfill) \in Seq(Steps \cup {"resolve"})
    BY <2>1, StepsForType
  <2> QED
    BY <1>4, <2>2 DEF NextAccount, Accounts
<1>5. ASSUME NEW j \in Jobs, OpenLog(j) PROVE TypeOK'
  <2>1. Step(j) \in Steps
    BY <1>5, HeadTailProperties DEF OpenLog, Step
  <2>2. [step |-> Step(j), acct |-> acct[j], status |-> "running"] \in LogRows
    BY <2>1 DEF LogRows
  <2>3. Append(logs[j], [step |-> Step(j), acct |-> acct[j], status |-> "running"])
          \in Seq(LogRows)
    BY <2>2, AppendProperties
  <2> QED
    BY <1>5, <2>3 DEF OpenLog, Phases
<1>6. ASSUME NEW j \in Jobs, Finish(j) PROVE TypeOK'
  BY <1>6 DEF Finish, Phases
<1>7. ASSUME NEW j \in Jobs, Fetch(j) PROVE TypeOK'
  <2>1. \A rows \in SUBSET (FullReport(j) \cup {[id |-> i, day |-> NoDate] : i \in Ids}) :
          rows \in SUBSET Rows
    BY FullReportType DEF Rows, Dates
  <2>2. \A rows \in SUBSET Rows : [txn[j] EXCEPT !.rows = rows] \in Txns
    BY RowSetsType, TxnParts
  <2>3. PICK rows \in SUBSET Rows : txn' = [txn EXCEPT ![j] = [txn[j] EXCEPT !.rows = rows]]
    <3>1. CASE txn' = [txn EXCEPT ![j].rows = FullReport(j)]
      BY <3>1, FullReportType
    <3>2. CASE \E rows \in SUBSET (FullReport(j) \cup {[id |-> i, day |-> NoDate] : i \in Ids}) :
                 txn' = [txn EXCEPT ![j].rows = rows]
      BY <3>2, <2>1
    <3> QED
      BY <1>7, <3>1, <3>2 DEF Fetch
  <2>4. faults' \in 0 .. MaxDeviations
    BY <1>7, BoundsAssumption DEF Fetch, Deviate
  <2> QED
    BY <1>7, <2>2, <2>3, <2>4 DEF Fetch, Phases
<1>8. ASSUME NEW j \in Jobs, MapRows(j) PROVE TypeOK'
  <2> DEFINE usable == {row \in txn[j].rows : Usable(j, row)}
             upsert == IF Step(j) \in DimTables THEN usable ELSE {}
             dated  == IF Step(j) \in AppendSteps
                         THEN {[row EXCEPT !.day = today] : row \in usable} ELSE usable
  <2>1. usable \in SUBSET Rows /\ upsert \in SUBSET Rows
    BY DEF Txns
  <2>2. dated \in SUBSET Rows
    <3>1. \A row \in Rows : [row EXCEPT !.day = today] \in Rows
      BY DEF Rows, Dates
    <3> HIDE DEF usable
    <3> QED
      BY <2>1, <3>1
  <2>3. txn[j].rows \ usable \in SUBSET Rows
    BY DEF Txns
  <2>4. txn' = [txn EXCEPT ![j] = [txn[j] EXCEPT !.rows = dated, !.todo = upsert,
                                                 !.skipped = txn[j].rows \ usable]]
    BY <1>8 DEF MapRows
  <2> HIDE DEF usable, upsert, dated
  <2>5. [txn[j] EXCEPT !.rows = dated, !.todo = upsert,
                       !.skipped = txn[j].rows \ usable] \in Txns
    <3>1. txn[j] \in Txns
      OBVIOUS
    <3> QED
      BY ONLY <2>1, <2>2, <2>3, <3>1, MappedType
  <2>6. pc' \in [Jobs -> Phases]
    BY <1>8 DEF MapRows, AfterUpserts, Phases
  <2>7. txn' \in [Jobs -> Txns]
    BY <2>4, <2>5
  <2> QED
    BY <1>8, <2>6, <2>7 DEF MapRows
<1>9. ASSUME NEW j \in Jobs, SelectRow(j) PROVE TypeOK'
  <2>1. \A row \in txn[j].todo : /\ [txn[j] EXCEPT !.todo = @ \ {row}] \in Txns
                                 /\ [txn[j] EXCEPT !.missing = {row}] \in Txns
    <3> HIDE DEF TypeOK
    <3> SUFFICES ASSUME NEW row \in txn[j].todo
                 PROVE  /\ [txn[j] EXCEPT !.todo = @ \ {row}] \in Txns
                        /\ [txn[j] EXCEPT !.missing = {row}] \in Txns
      OBVIOUS
    <3>1. txn[j].todo \ {row} \in SUBSET Rows /\ {row} \in SUBSET Rows
      BY TxnParts
    <3> QED
      BY <3>1, RowSetsType, TxnParts
  <2>2. AfterUpserts(j) \in Phases
    BY DEF AfterUpserts, Phases
  <2>3. PICK row \in txn[j].todo :
          \/ /\ txn' = [txn EXCEPT ![j] = [txn[j] EXCEPT !.todo = @ \ {row}]]
             /\ pc' = [pc EXCEPT ![j] = IF txn[j].todo = {row} THEN AfterUpserts(j) ELSE @]
          \/ /\ txn' = [txn EXCEPT ![j] = [txn[j] EXCEPT !.missing = {row}]]
             /\ pc' = [pc EXCEPT ![j] = "insert"]
    BY <1>9 DEF SelectRow
  <2>4. txn' \in [Jobs -> Txns]
    <3>1. PICK t \in Txns : txn' = [txn EXCEPT ![j] = t]
      BY <2>1, <2>3
    <3> QED
      BY <3>1
  <2>5. pc' \in [Jobs -> Phases]
    BY <2>2, <2>3 DEF Phases
  <2> QED
    BY <1>9, <2>4, <2>5 DEF SelectRow
<1>10. ASSUME NEW j \in Jobs, InsertRow(j) PROVE TypeOK'
  <2>1. \A row \in txn[j].missing : row \in Rows
    BY DEF Txns
  <2>2. \A row \in txn[j].missing :
          [txn[j] EXCEPT !.todo = @ \ {row}, !.missing = {},
                         !.made = @ \cup {Key(j, row)}] \in Txns
    <3> HIDE DEF TypeOK
    <3> SUFFICES ASSUME NEW row \in txn[j].missing
                 PROVE  [txn[j] EXCEPT !.todo = @ \ {row}, !.missing = {},
                                       !.made = @ \cup {Key(j, row)}] \in Txns
      OBVIOUS
    <3>1. /\ txn[j].todo \ {row} \in SUBSET Rows
          /\ txn[j].made \cup {Key(j, row)} \in SUBSET Keys
      BY <2>1, KeyType, TxnParts
    <3> QED
      BY <3>1, InsertedType, TxnParts
  <2>3. AfterUpserts(j) \in Phases
    BY DEF AfterUpserts, Phases
  <2>4. PICK row \in txn[j].missing :
          IF Key(j, row) \in dims[Step(j)]
            THEN /\ pc' = [pc EXCEPT ![j] = "failing"]
                 /\ UNCHANGED txn
            ELSE /\ txn' = [txn EXCEPT ![j].todo = @ \ {row}, ![j].missing = {},
                                       ![j].made = @ \cup {Key(j, row)}]
                 /\ pc' = [pc EXCEPT ![j] = IF txn[j].todo = {row}
                                              THEN AfterUpserts(j) ELSE "select"]
    BY <1>10 DEF InsertRow
  <2>5. txn' \in [Jobs -> Txns]
    <3>1. CASE Key(j, row) \in dims[Step(j)]
      BY <2>4, <3>1
    <3>2. CASE Key(j, row) \notin dims[Step(j)]
      <4>1. txn' = [txn EXCEPT ![j] =
                     [txn[j] EXCEPT !.todo = @ \ {row}, !.missing = {},
                                    !.made = @ \cup {Key(j, row)}]]
        BY <2>4, <3>2
      <4> QED
        BY <2>2, <4>1
    <3> QED
      BY <3>1, <3>2
  <2>6. pc' \in [Jobs -> Phases]
    BY <2>3, <2>4 DEF Phases
  <2> QED
    BY <1>10, <2>5, <2>6 DEF InsertRow
<1>11. ASSUME NEW j \in Jobs, Scan(j) PROVE TypeOK'
  <2>1. [txn[j] EXCEPT !.seen = {s \in snaps : InTarget(j, s)}] \in Txns
    BY HeldType, TxnParts
  <2>2. \A i \in Jobs : Replacing(i) => <<Step(i), acct[i]>> \in Steps \X Accounts
    BY DEF Replacing, Steps
  <2>3. clash' \subseteq Steps \X Accounts
    BY <1>11, <2>2 DEF Scan
  <2> QED
    BY <1>11, <2>1, <2>3 DEF Scan, Phases
<1>12. ASSUME NEW j \in Jobs, Write(j) PROVE TypeOK'
  <2>1. [txn[j] EXCEPT !.gone = txn[j].seen \cap snaps] \in Txns
    <3>1. txn[j].seen \cap snaps \in SUBSET SnapRows
      OBVIOUS
    <3> QED
      BY <3>1, HeldType, TxnParts
  <2> QED
    BY <1>12, <2>1 DEF Write, Phases
<1>13. ASSUME NEW j \in Jobs, Commit(j) PROVE TypeOK'
  <2> DEFINE status == IF txn[j].skipped = {} THEN "success" ELSE "partial"
  <2>1. InStep(j) /\ status \in Final /\ Close(j, status)
    BY <1>13 DEF Commit, InStep, Final
  <2> HIDE DEF status
  <2>2. snaps' \subseteq SnapRows
    BY <1>13, FreshType DEF Commit
  <2>3. dims' \in [DimTables -> SUBSET Keys]
    BY <1>13 DEF Commit, Txns
  <2> QED
    BY <1>13, <2>1, <2>2, <2>3, CloseType DEF Commit, Close
<1>14. ASSUME NEW j \in Jobs, DeadlockVictim(j) PROVE TypeOK'
  BY <1>14 DEF DeadlockVictim, Phases
<1>15. ASSUME NEW j \in Jobs, MarkFailed(j) PROVE TypeOK'
  <2>1. InStep(j) /\ "failed" \in Final /\ Close(j, "failed")
    BY <1>15 DEF MarkFailed, InStep, Final
  <2> QED
    BY <1>15, <2>1, CloseType DEF MarkFailed, Close
<1>16. ASSUME NEW j \in Jobs, StepFails(j) PROVE TypeOK'
  BY <1>16, BoundsAssumption DEF StepFails, Deviate, Phases
<1>17. ASSUME NEW j \in Jobs, Abandon(j) PROVE TypeOK'
  <2>1. NoTxn \in Txns
    BY DEF NoTxn, Txns
  <2> QED
    BY <1>17, <2>1, NoTuple, BoundsAssumption DEF Abandon, Deviate, Phases
<1>18. ASSUME NextDay PROVE TypeOK'
  BY <1>18 DEF NextDay
<1>19. ASSUME UNCHANGED vars PROVE TypeOK'
  BY <1>19 DEF vars
<1> QED
  BY <1>1, <1>2, <1>3, <1>4, <1>5, <1>6, <1>7, <1>8, <1>9, <1>10, <1>11, <1>12,
     <1>13, <1>14, <1>15, <1>16, <1>17, <1>18, <1>19 DEF Next, Progress

-----------------------------------------------------------------------------
(* The frame of each kind of step.                                         *)

\* The actions inside a step of job j: only its pc and its transaction change.
Inside(j) ==
  \/ Fetch(j) \/ MapRows(j) \/ SelectRow(j) \/ InsertRow(j) \/ Scan(j) \/ Write(j)
  \/ DeadlockVictim(j) \/ StepFails(j)

LEMMA InsideFrame ==
  ASSUME Typed, NEW j \in Jobs, Inside(j)
  PROVE  /\ InStep(j)
         /\ UNCHANGED <<dims, snaps, logs, req, win, acct, plan, today>>
         /\ \A i \in Jobs \ {j} : pc'[i] = pc[i] /\ txn'[i] = txn[i]
<1> USE DEF Typed, TypeOK, dbVars, jobVars, histVars, InStep
<1>1. CASE Fetch(j)
  BY <1>1 DEF Fetch
<1>2. CASE MapRows(j)
  BY <1>2 DEF MapRows
<1>3. CASE SelectRow(j)
  BY <1>3 DEF SelectRow
<1>4. CASE InsertRow(j)
  BY <1>4 DEF InsertRow
<1>5. CASE Scan(j)
  BY <1>5 DEF Scan
<1>6. CASE Write(j)
  BY <1>6 DEF Write
<1>7. CASE DeadlockVictim(j)
  BY <1>7 DEF DeadlockVictim, Waiting
<1>8. CASE StepFails(j)
  BY <1>8 DEF StepFails, Working
<1> QED
  BY <1>1, <1>2, <1>3, <1>4, <1>5, <1>6, <1>7, <1>8 DEF Inside

\* The actions between the steps of job j: it is not in a step before them, its
\* transaction stays empty, and the visible snapshot rows stay as they are.
Between(j) ==
  Begin(j) \/ CreateAccount(j) \/ PlanAccounts(j) \/ NextAccount(j) \/ Finish(j)

LEMMA BetweenFrame ==
  ASSUME Typed, NEW j \in Jobs, Between(j)
  PROVE  /\ ~InStep(j) /\ ~InStep(j)'
         /\ UNCHANGED <<snaps, logs, txn, clash>>
         /\ \A i \in Jobs \ {j} : /\ pc'[i] = pc[i] /\ plan'[i] = plan[i]
                                  /\ acct'[i] = acct[i] /\ win'[i] = win[i]
<1> USE DEF Typed, TypeOK, dbVars, jobVars, histVars, InStep
<1>1. CASE Begin(j)
  BY <1>1 DEF Begin
<1>2. CASE CreateAccount(j)
  BY <1>2 DEF CreateAccount, Resolving
<1>3. CASE PlanAccounts(j)
  BY <1>3 DEF PlanAccounts, Resolving
<1>4. CASE NextAccount(j)
  BY <1>4 DEF NextAccount
<1>5. CASE Finish(j)
  BY <1>5 DEF Finish
<1> QED
  BY <1>1, <1>2, <1>3, <1>4, <1>5 DEF Between

\* The end of a step, good or bad.
Ends(j) == Commit(j) \/ MarkFailed(j)

LEMMA EndsFrame ==
  ASSUME Typed, NEW j \in Jobs, Ends(j)
  PROVE  /\ InStep(j)
         /\ pc' = [pc EXCEPT ![j] = "next"]
         /\ txn' = [txn EXCEPT ![j] = NoTxn]
         /\ plan' = [plan EXCEPT ![j] = Tail(plan[j])]
         /\ UNCHANGED <<acct, win, clash>>
         /\ \E status \in Final :
              logs' = [logs EXCEPT ![j] =
                         [logs[j] EXCEPT ![Len(logs[j])] =
                            [logs[j][Len(logs[j])] EXCEPT !.status = status]]]
<1> USE DEF Typed, TypeOK, InStep, Final, histVars
<1>1. CASE Commit(j)
  <2> PICK status \in Final : Close(j, status)
    BY <1>1 DEF Commit
  <2> QED
    BY <1>1 DEF Commit, Close
<1>2. CASE MarkFailed(j)
  BY <1>2 DEF MarkFailed, Close
<1> QED
  BY <1>1, <1>2 DEF Ends

\* Every step of the system is one of these.
LEMMA NextCases ==
  ASSUME Next
  PROVE  \/ \E j \in Jobs : Inside(j) \/ Between(j) \/ OpenLog(j) \/ Ends(j) \/ Abandon(j)
         \/ NextDay
BY DEF Next, Progress, Inside, Between, Ends

LEMMA StepLoggedStep ==
  ASSUME Typed, [Next]_vars
  PROVE  StepLogged'
<1> USE DEF Typed
<1>1. ASSUME NEW j \in Jobs, Inside(j) PROVE StepLogged'
  BY <1>1, InsideFrame DEF StepLogged, InStep, Step
<1>2. ASSUME NEW j \in Jobs, Between(j) PROVE StepLogged'
  BY <1>2, BetweenFrame DEF StepLogged, InStep, Step
<1>3. ASSUME NEW j \in Jobs, OpenLog(j) PROVE StepLogged'
  <2> SUFFICES ASSUME NEW i \in Jobs, InStep(i)'
               PROVE  (/\ plan[i] # <<>> /\ Step(i) \in Steps
                       /\ logs[i] # <<>>
                       /\ logs[i][Len(logs[i])] =
                            [step |-> Step(i), acct |-> acct[i], status |-> "running"])'
    BY DEF StepLogged
  <2>1. UNCHANGED <<plan, acct>>
    BY <1>3 DEF OpenLog
  <2>2. CASE i # j
    BY <1>3, <2>1, <2>2 DEF OpenLog, TypeOK, InStep, StepLogged, Step
  <2>3. CASE i = j
    <3> DEFINE row == [step |-> Step(j), acct |-> acct[j], status |-> "running"]
    <3>1. plan[j] # <<>> /\ plan[j] \in Seq(Steps \cup {"resolve"})
      BY <1>3 DEF OpenLog, TypeOK
    <3>2. Step(j) \in Steps
      BY <1>3, <3>1, HeadTailProperties DEF OpenLog, Step
    <3>3. row \in LogRows /\ logs[j] \in Seq(LogRows)
      BY <3>2 DEF LogRows, TypeOK
    <3>4. logs'[j] = Append(logs[j], row)
      BY <1>3 DEF OpenLog, TypeOK
    <3>5. Len(logs'[j]) = Len(logs[j]) + 1 /\ logs'[j][Len(logs[j]) + 1] = row
      BY <3>3, <3>4, AppendProperties
    <3>6. logs'[j] # <<>>
      BY <3>3, <3>5, EmptySeq, LenProperties
    <3> QED
      BY <2>1, <2>3, <3>1, <3>2, <3>5, <3>6 DEF Step
  <2> QED
    BY <2>2, <2>3
<1>4. ASSUME NEW j \in Jobs, Ends(j) PROVE StepLogged'
  <2>1. \A i \in Jobs \ {j} : logs'[i] = logs[i] /\ plan'[i] = plan[i] /\ pc'[i] = pc[i]
    <3>1. \A i \in Jobs \ {j} : plan'[i] = plan[i] /\ pc'[i] = pc[i]
      <4>1. /\ pc' = [pc EXCEPT ![j] = "next"]
            /\ plan' = [plan EXCEPT ![j] = Tail(plan[j])]
        BY <1>4, EndsFrame
      <4> QED
        BY <4>1 DEF TypeOK
    <3>2. \A i \in Jobs \ {j} : logs'[i] = logs[i]
      <4> PICK status \in Final :
            logs' = [logs EXCEPT ![j] =
                       [logs[j] EXCEPT ![Len(logs[j])] =
                          [logs[j][Len(logs[j])] EXCEPT !.status = status]]]
        BY <1>4, EndsFrame
      <4> QED
        BY DEF TypeOK
    <3> QED
      BY <3>1, <3>2
  <2>2. ~InStep(j)' /\ UNCHANGED acct
    BY <1>4, EndsFrame DEF TypeOK, InStep
  <2> QED
    BY <2>1, <2>2 DEF StepLogged, InStep, Step
<1>5. ASSUME NEW j \in Jobs, Abandon(j) PROVE StepLogged'
  BY <1>5 DEF Abandon, StepLogged, InStep, Step, TypeOK, dbVars
<1>6. CASE NextDay \/ UNCHANGED vars
  BY <1>6 DEF NextDay, vars, dbVars, jobVars, StepLogged, InStep, Step
<1> QED
  BY <1>1, <1>2, <1>3, <1>4, <1>5, <1>6, NextCases

\* The variables keep their types, and a job inside a step keeps a running log
\* row for it, however the jobs interleave, fail and are killed.
THEOREM Typing == Spec => [](TypeOK /\ StepLogged)
<1>1. Init => Typed
  BY InitInv DEF SyncInv, Typed
<1>2. Typed /\ [Next]_vars => Typed'
  BY TypeStep, StepLoggedStep DEF Typed
<1> QED
  BY <1>1, <1>2, PTL DEF Spec, Typed

-----------------------------------------------------------------------------
(* Lineage: what a step leaves visible, its log row accounts for.          *)

\* What the log row a snapshot row points at must say.
Accounted(s) ==
  /\ s.log[2] \in DOMAIN logs[s.log[1]]
  /\ logs[s.log[1]][s.log[2]].status \in {"success", "partial"}
  /\ logs[s.log[1]][s.log[2]].step = s.step
  /\ logs[s.log[1]][s.log[2]].acct = s.acct

\* Closing the last log row of job j leaves a row accounted for: the row it
\* points at has ended, and the one being closed is still running.
LEMMA AccountedKept ==
  ASSUME Typed, NEW j \in Jobs, InStep(j),
         NEW status \in Final, Close(j, status), NEW s \in SnapRows, Accounted(s)
  PROVE  Accounted(s)'
<1> USE DEF Typed, TypeOK
<1>1. s.log[1] \in Jobs /\ s.log[2] \in Nat
  BY DEF SnapRows, LogIds
<1>2. logs' = [logs EXCEPT ![j] =
                 [logs[j] EXCEPT ![Len(logs[j])] =
                    [logs[j][Len(logs[j])] EXCEPT !.status = status]]]
  BY DEF Close
<1>3. CASE s.log[1] # j
  BY <1>1, <1>2, <1>3 DEF Accounted
<1>4. CASE s.log[1] = j
  <2>1. logs[j][Len(logs[j])].status = "running"
    <3>1. logs[j][Len(logs[j])] =
            [step |-> Step(j), acct |-> acct[j], status |-> "running"]
      BY DEF StepLogged
    <3> QED
      BY <3>1
  <2>2. s.log[2] # Len(logs[j])
    BY <1>4, <2>1 DEF Accounted
  <2>3. DOMAIN logs'[j] = DOMAIN logs[j] /\ logs'[j][s.log[2]] = logs[j][s.log[2]]
    BY <1>2, <2>2
  <2> QED
    BY <1>4, <2>3 DEF Accounted
<1> QED
  BY <1>3, <1>4

LEMMA LineageStep ==
  ASSUME Typed, Lineage, [Next]_vars
  PROVE  Lineage'
<1> USE DEF Typed, TypeOK
<1>0. Lineage <=> \A s \in snaps : Accounted(s)
  BY DEF Lineage, Accounted
<1>1. ASSUME NEW j \in Jobs, Inside(j) \/ Between(j) \/ Abandon(j) PROVE Lineage'
  <2>1. UNCHANGED <<snaps, logs>>
    BY <1>1, InsideFrame, BetweenFrame DEF Abandon, dbVars
  <2> QED
    BY <2>1 DEF Lineage
<1>2. ASSUME NEW j \in Jobs, OpenLog(j) PROVE Lineage'
  <2> SUFFICES ASSUME NEW s \in snaps PROVE Accounted(s)'
    BY <1>2 DEF OpenLog, Lineage, Accounted
  <2>1. s.log[1] \in Jobs /\ Accounted(s)
    BY <1>0 DEF SnapRows, LogIds
  <2> DEFINE row == [step |-> Step(j), acct |-> acct[j], status |-> "running"]
  <2>2. logs' = [logs EXCEPT ![j] = Append(logs[j], row)]
    BY <1>2 DEF OpenLog
  <2>3. \A n \in DOMAIN logs[j] : n \in DOMAIN logs'[j] /\ logs'[j][n] = logs[j][n]
    <3>1. logs[j] \in Seq(LogRows)
      OBVIOUS
    <3> HIDE DEF row
    <3> QED
      BY <2>2, <3>1
  <2> QED
    BY <2>1, <2>2, <2>3 DEF Accounted
<1>3. ASSUME NEW j \in Jobs, Commit(j) PROVE Lineage'
  <2>1. PICK status \in {"success", "partial"} : Close(j, status)
    BY <1>3 DEF Commit
  <2>2. InStep(j) /\ status \in Final
    BY <1>3 DEF Commit, InStep, Final
  <2>3. ASSUME NEW s \in snaps PROVE Accounted(s)'
    BY <1>0, <2>1, <2>2, <2>3, AccountedKept
  <2>4. ASSUME NEW s \in Fresh(j) PROVE Accounted(s)'
    <3> DEFINE n == Len(logs[j])
    <3>1. s.log[1] = j /\ s.log[2] = n /\ s.step = Step(j) /\ s.acct = acct[j]
      BY <2>4 DEF Fresh, LogId
    <3>2. logs[j] # <<>> /\ logs[j][n] =
             [step |-> Step(j), acct |-> acct[j], status |-> "running"]
      BY <2>2 DEF StepLogged
    <3>3. n \in DOMAIN logs[j]
      BY <3>2, EmptySeq, LenProperties
    <3>4. logs' = [logs EXCEPT ![j] = [logs[j] EXCEPT ![n] =
                     [logs[j][n] EXCEPT !.status = status]]]
      BY <2>1 DEF Close
    <3>5. DOMAIN logs'[j] = DOMAIN logs[j]
          /\ logs'[j][n] = [logs[j][n] EXCEPT !.status = status]
      BY <3>3, <3>4
    <3> HIDE DEF n
    <3> QED
      BY <2>1, <3>1, <3>2, <3>3, <3>5 DEF Accounted
  <2>5. snaps' \subseteq snaps \cup Fresh(j)
    BY <1>3 DEF Commit
  <2> QED
    BY <2>3, <2>4, <2>5 DEF Lineage, Accounted
<1>4. ASSUME NEW j \in Jobs, MarkFailed(j) PROVE Lineage'
  <2>1. InStep(j) /\ "failed" \in Final /\ Close(j, "failed") /\ snaps' = snaps
    BY <1>4 DEF MarkFailed, InStep, Final
  <2>2. ASSUME NEW s \in snaps PROVE Accounted(s)'
    BY <1>0, <2>1, <2>2, AccountedKept
  <2> QED
    BY <2>1, <2>2 DEF Lineage, Accounted
<1>5. CASE NextDay \/ UNCHANGED vars
  BY <1>5 DEF NextDay, vars, dbVars, Lineage
<1> QED
  BY <1>1, <1>2, <1>3, <1>4, <1>5, NextCases DEF Ends

\* A step is atomic: every snapshot row that readers can see belongs to a step
\* that ended well, whatever failed, was killed or ran at the same time.
THEOREM LineageHolds == Spec => []Lineage
<1>1. Init => Typed /\ Lineage
  BY InitInv DEF SyncInv, Typed
<1>2. Typed /\ Lineage /\ [Next]_vars => (Typed /\ Lineage)'
  BY TypeStep, StepLoggedStep, LineageStep DEF Typed
<1> QED
  BY <1>1, <1>2, PTL DEF Spec

-----------------------------------------------------------------------------
(* One row per entity and day.                                             *)

\* The actions of job j that neither hold snapshot rows nor begin to.
Early(j) == Fetch(j) \/ MapRows(j) \/ SelectRow(j) \/ InsertRow(j)

LEMMA StepKinds ==
  /\ WindowSteps \cap AppendSteps = {}
  /\ WindowSteps \subseteq SnapSteps
BY DEF WindowSteps, AppendSteps, SnapSteps

\* What a job does before its upserts are over leaves it out of its DELETE.
LEMMA EarlyFrame ==
  ASSUME Typed, NEW j \in Jobs, Early(j)
  PROVE  /\ pc[j] # "failing" /\ ~Replacing(j) /\ ~Replacing(j)'
         /\ txn'[j].seen = txn[j].seen /\ txn'[j].gone = txn[j].gone
         /\ pc'[j] = "scan" => Step(j)' \in WindowSteps
         /\ UNCHANGED <<snaps, clash>>
<1> USE DEF Typed, TypeOK, dbVars, histVars, Replacing, AfterUpserts, Step, Txns
<1>0. Inside(j) /\ UNCHANGED <<plan, snaps>> /\ txn[j] \in Txns
  BY InsideFrame DEF Inside, Early
<1>1. CASE Fetch(j)
  <2>1. PICK rows : txn' = [txn EXCEPT ![j].rows = rows]
    BY <1>1 DEF Fetch
  <2> QED
    BY <1>0, <1>1, <2>1 DEF Fetch
<1>2. CASE MapRows(j)
  <2>1. PICK a, b, c : txn' = [txn EXCEPT ![j].rows = a, ![j].todo = b, ![j].skipped = c]
    BY <1>2 DEF MapRows
  <2>2. txn'[j] = [txn[j] EXCEPT !.rows = a, !.todo = b, !.skipped = c]
    BY <2>1
  <2>3. pc[j] = "map" /\ pc'[j] \in {"select", AfterUpserts(j)} /\ UNCHANGED clash
    BY <1>2 DEF MapRows
  <2> QED
    BY <1>0, <2>2, <2>3, StepKinds
<1>3. CASE SelectRow(j)
  <2>1. pc[j] = "select" /\ pc'[j] \in {"select", "insert", AfterUpserts(j)} /\ UNCHANGED clash
    BY <1>3 DEF SelectRow
  <2>2. PICK row \in txn[j].todo : \/ txn' = [txn EXCEPT ![j].todo = @ \ {row}]
                                   \/ txn' = [txn EXCEPT ![j].missing = {row}]
    BY <1>3 DEF SelectRow
  <2>3. txn'[j].seen = txn[j].seen /\ txn'[j].gone = txn[j].gone
    BY <2>2
  <2> QED
    BY <1>0, <2>1, <2>3, StepKinds
<1>4. CASE InsertRow(j)
  <2>1. /\ pc[j] = "insert" /\ UNCHANGED clash
        /\ pc'[j] \in {"failing", "select", AfterUpserts(j)}
    BY <1>4 DEF InsertRow
  <2>2. PICK row \in txn[j].missing :
          \/ UNCHANGED txn
          \/ txn' = [txn EXCEPT ![j].todo = @ \ {row}, ![j].missing = {},
                                ![j].made = @ \cup {Key(j, row)}]
    BY <1>4 DEF InsertRow
  <2>3. txn'[j].seen = txn[j].seen /\ txn'[j].gone = txn[j].gone
    <3>1. CASE UNCHANGED txn
      BY <3>1
    <3>2. CASE txn' = [txn EXCEPT ![j].todo = @ \ {row}, ![j].missing = {},
                                ![j].made = @ \cup {Key(j, row)}]
      <4>1. txn'[j] = [txn[j] EXCEPT !.todo = @ \ {row}, !.missing = {},
                                     !.made = @ \cup {Key(j, row)}]
        BY <3>2
      <4> QED
        BY <4>1
    <3> QED
      BY <2>2, <3>1, <3>2
  <2> QED
    BY <1>0, <2>1, <2>3, StepKinds
<1> QED
  BY <1>1, <1>2, <1>3, <1>4 DEF Early

\* The step fails with its transaction open.
Fails(j) == DeadlockVictim(j) \/ StepFails(j)

LEMMA FailsFrame ==
  ASSUME Typed, NEW j \in Jobs, Fails(j)
  PROVE  /\ pc' = [pc EXCEPT ![j] = "failing"]
         /\ ~Replacing(j)'
         /\ UNCHANGED <<dims, snaps, logs, txn, plan, acct, win, clash>>
<1>1. pc' = [pc EXCEPT ![j] = "failing"]
      /\ UNCHANGED <<dims, snaps, logs, txn, plan, acct, win, clash>>
  BY DEF Fails, DeadlockVictim, StepFails, dbVars, histVars
<1> QED
  BY <1>1 DEF Replacing, Typed, TypeOK

LEMMA InsideCases ==
  ASSUME NEW j, Inside(j)
  PROVE  Early(j) \/ Fails(j) \/ Scan(j) \/ Write(j)
BY DEF Inside, Early, Fails

LEMMA AbandonFrame ==
  ASSUME Typed, NEW j \in Jobs, Abandon(j)
  PROVE  /\ pc' = [pc EXCEPT ![j] = "idle"]
         /\ plan' = [plan EXCEPT ![j] = <<>>]
         /\ txn' = [txn EXCEPT ![j] = NoTxn]
         /\ UNCHANGED <<dims, snaps, logs, acct, win, clash>>
BY DEF Abandon, dbVars

\* Outside a step nothing is held or being replaced.
LEMMA IdleFrame ==
  ASSUME Typed, NEW j \in Jobs, Between(j) \/ OpenLog(j) \/ Ends(j) \/ Abandon(j)
  PROVE  /\ ~Replacing(j)'
         /\ UNCHANGED clash
         /\ \A i \in Jobs \ {j} :
              /\ pc'[i] = pc[i] /\ plan'[i] = plan[i] /\ txn'[i] = txn[i]
              /\ acct'[i] = acct[i] /\ win'[i] = win[i]
         /\ OpenLog(j) => pc[j] = "next" /\ pc'[j] = "fetch" /\ UNCHANGED <<snaps, txn>>
<1> USE DEF Typed, TypeOK, Replacing, InStep
<1>1. CASE Between(j)
  BY <1>1, BetweenFrame DEF OpenLog
<1>2. CASE OpenLog(j)
  BY <1>2 DEF OpenLog, histVars
<1>3. CASE Ends(j)
  <2>1. /\ InStep(j) /\ pc' = [pc EXCEPT ![j] = "next"]
        /\ txn' = [txn EXCEPT ![j] = NoTxn]
        /\ plan' = [plan EXCEPT ![j] = Tail(plan[j])]
        /\ UNCHANGED <<acct, win, clash>>
    BY <1>3, EndsFrame
  <2>2. ~OpenLog(j)
    BY <2>1 DEF OpenLog
  <2> QED
    BY <2>1, <2>2
<1>4. CASE Abandon(j)
  BY <1>4, AbandonFrame DEF OpenLog
<1> QED
  BY <1>1, <1>2, <1>3, <1>4

LEMMA RowsInWindowStep ==
  ASSUME Typed, RowsInWindow, [Next]_vars
  PROVE  RowsInWindow'
<1> USE DEF Typed, TypeOK
<1> DEFINE Dated(i) ==
      InStep(i) /\ pc[i] \notin {"fetch", "failing"} /\ Step(i) \in WindowSteps =>
        \A row \in txn[i].rows :
          \/ row.day \in win[i].start .. win[i].end
          \/ pc[i] = "map" /\ row.day = NoDate
<1>0. (RowsInWindow <=> \A i \in Jobs : Dated(i)) /\ (RowsInWindow' <=> \A i \in Jobs : Dated(i)')
  BY DEF RowsInWindow
<1>1. ASSUME NEW j \in Jobs, NEW i \in Jobs \ {j},
             Inside(j) \/ Between(j) \/ OpenLog(j) \/ Ends(j) \/ Abandon(j)
      PROVE  Dated(i)'
  <2>1. /\ pc'[i] = pc[i] /\ plan'[i] = plan[i] /\ txn'[i] = txn[i] /\ win'[i] = win[i]
    BY <1>1, InsideFrame, IdleFrame
  <2>2. Dated(i)
    BY <1>0
  <2> QED
    BY <2>1, <2>2 DEF InStep, Step
<1>2. ASSUME NEW j \in Jobs, Fetch(j) PROVE Dated(j)'
  <2>1. pc'[j] = "map" /\ UNCHANGED <<plan, win>>
    BY <1>2 DEF Fetch
  <2>2. PICK rows \in SUBSET (FullReport(j) \cup {[id |-> i, day |-> NoDate] : i \in Ids}) :
          txn'[j].rows = rows
    <3>1. CASE txn' = [txn EXCEPT ![j].rows = FullReport(j)]
      BY <3>1 DEF Txns
    <3>2. CASE \E rows \in SUBSET (FullReport(j) \cup {[id |-> i, day |-> NoDate] : i \in Ids}) :
                 txn' = [txn EXCEPT ![j].rows = rows]
      BY <3>2 DEF Txns
    <3> QED
      BY <1>2, <3>1, <3>2 DEF Fetch
  <2>3. \A row \in FullReport(j) :
          Step(j) \in WindowSteps => row.day \in win[j].start .. win[j].end
    BY DEF FullReport
  <2>4. Step(j)' = Step(j) /\ win'[j] = win[j]
    BY <2>1 DEF Step
  <2> QED
    BY <2>1, <2>2, <2>3, <2>4
<1>3. ASSUME NEW j \in Jobs, MapRows(j) PROVE Dated(j)'
  <2>1. pc[j] = "map" /\ UNCHANGED <<plan, win>> /\ Dated(j)
    BY <1>0, <1>3 DEF MapRows, InStep
  <2>2. SUFFICES ASSUME Step(j) \in WindowSteps
                 PROVE  \A row \in txn'[j].rows : row.day \in win[j].start .. win[j].end
    BY <2>1 DEF Step
  <2>3. txn'[j].rows = {row \in txn[j].rows : Usable(j, row)}
    <3> DEFINE usable == {row \in txn[j].rows : Usable(j, row)}
               dated  == IF Step(j) \in AppendSteps
                           THEN {[row EXCEPT !.day = today] : row \in usable} ELSE usable
    <3>1. PICK b, c : txn' = [txn EXCEPT ![j].rows = dated, ![j].todo = b, ![j].skipped = c]
      BY <1>3 DEF MapRows
    <3>2. dated = usable
      BY <2>2, StepKinds
    <3> HIDE DEF dated, usable
    <3> QED
      BY <3>1, <3>2 DEF usable, Txns
  <2>4. \A row \in txn[j].rows : Usable(j, row) => row.day # NoDate
    BY <2>2 DEF Usable
  <2> QED
    BY <2>1, <2>2, <2>3, <2>4 DEF InStep
<1>4. ASSUME NEW j \in Jobs, SelectRow(j) \/ InsertRow(j) \/ Scan(j) \/ Write(j)
      PROVE  Dated(j)'
  <2>1. pc[j] \in {"select", "insert", "scan", "write"} /\ UNCHANGED <<plan, win>>
    BY <1>4 DEF SelectRow, InsertRow, Scan, Write
  <2>2. txn'[j].rows = txn[j].rows
    <3>1. CASE SelectRow(j)
      <4> PICK row \in txn[j].todo : \/ txn' = [txn EXCEPT ![j].todo = @ \ {row}]
                                     \/ txn' = [txn EXCEPT ![j].missing = {row}]
        BY <3>1 DEF SelectRow
      <4> QED
        BY DEF Txns
    <3>2. CASE InsertRow(j)
      <4> PICK row \in txn[j].missing :
            \/ UNCHANGED txn
            \/ txn' = [txn EXCEPT ![j].todo = @ \ {row}, ![j].missing = {},
                                  ![j].made = @ \cup {Key(j, row)}]
        BY <3>2 DEF InsertRow
      <4>1. CASE txn' = [txn EXCEPT ![j].todo = @ \ {row}, ![j].missing = {},
                                    ![j].made = @ \cup {Key(j, row)}]
        <5>1. txn'[j] = [txn[j] EXCEPT !.todo = @ \ {row}, !.missing = {},
                                       !.made = @ \cup {Key(j, row)}]
          BY <4>1
        <5> QED
          BY <5>1 DEF Txns
      <4> QED
        BY <4>1
    <3>3. CASE Scan(j) \/ Write(j)
      BY <3>3 DEF Scan, Write, Txns
    <3> QED
      BY <1>4, <3>1, <3>2, <3>3
  <2>3. Dated(j)
    BY <1>0
  <2> QED
    BY <2>1, <2>2, <2>3 DEF InStep, Step
<1>5. ASSUME NEW j \in Jobs, Fails(j) PROVE Dated(j)'
  BY <1>5, FailsFrame
<1>6. ASSUME NEW j \in Jobs, Between(j) \/ Ends(j) \/ Abandon(j) PROVE Dated(j)'
  <2>1. CASE Between(j)
    BY <2>1, BetweenFrame
  <2>2. CASE Ends(j)
    BY <2>2, EndsFrame DEF InStep
  <2>3. CASE Abandon(j)
    BY <2>3, AbandonFrame DEF InStep
  <2> QED
    BY <1>6, <2>1, <2>2, <2>3
<1>7. ASSUME NEW j \in Jobs, OpenLog(j) PROVE Dated(j)'
  BY <1>7, IdleFrame
<1>8. CASE NextDay \/ UNCHANGED vars
  BY <1>8, <1>0 DEF NextDay, vars, jobVars, InStep, Step
<1>9. ASSUME NEW j \in Jobs, Inside(j) \/ Between(j) \/ OpenLog(j) \/ Ends(j) \/ Abandon(j)
      PROVE  Dated(j)'
  BY <1>2, <1>3, <1>4, <1>5, <1>6, <1>7, <1>9, InsideCases DEF Early
<1> HIDE DEF Dated
<1>10. CASE \E j \in Jobs : Inside(j) \/ Between(j) \/ OpenLog(j) \/ Ends(j) \/ Abandon(j)
  BY <1>0, <1>1, <1>9, <1>10
<1> QED
  BY <1>8, <1>10, NextCases

\* The job-by-job content of HeldRows and WindowHeld.
Holds(j) ==
  /\ pc[j] # "failing" /\ ~Replacing(j) => txn[j].seen = {} /\ txn[j].gone = {}
  /\ Replacing(j) => \A s \in txn[j].seen \cup txn[j].gone : InTarget(j, s)
  /\ pc[j] = "write" => txn[j].gone = {}
  /\ pc[j] = "scan" => Step(j) \in WindowSteps

HoldsAll(j) ==
  Replacing(j) /\ <<Step(j), acct[j]>> \notin clash =>
    {s \in snaps : InTarget(j, s)} =
      IF pc[j] = "write" THEN txn[j].seen ELSE txn[j].gone

\* A job that is not moving keeps what it holds.
LEMMA HoldsFrame ==
  ASSUME NEW i, Holds(i), pc'[i] = pc[i], plan'[i] = plan[i], txn'[i] = txn[i],
         acct'[i] = acct[i], win'[i] = win[i]
  PROVE  Holds(i)'
BY DEF Holds, Replacing, InTarget, Step

LEMMA HeldRowsStep ==
  ASSUME Typed, HeldRows, [Next]_vars
  PROVE  HeldRows'
<1> USE DEF Typed, TypeOK
<1>0. (HeldRows <=> \A i \in Jobs : Holds(i)) /\ (HeldRows' <=> \A i \in Jobs : Holds(i)')
  BY DEF HeldRows, Holds
<1>1. ASSUME NEW j \in Jobs, NEW i \in Jobs \ {j},
             Inside(j) \/ Between(j) \/ OpenLog(j) \/ Ends(j) \/ Abandon(j)
      PROVE  Holds(i)'
  <2>1. /\ pc'[i] = pc[i] /\ plan'[i] = plan[i] /\ txn'[i] = txn[i]
        /\ acct'[i] = acct[i] /\ win'[i] = win[i]
    BY <1>1, InsideFrame, IdleFrame
  <2> QED
    BY <1>0, <2>1, HoldsFrame
<1>2. ASSUME NEW j \in Jobs, Early(j) PROVE Holds(j)'
  <2>1. txn'[j].seen = {} /\ txn'[j].gone = {} /\ ~Replacing(j)'
    BY <1>0, <1>2, EarlyFrame DEF Holds
  <2> QED
    BY <1>2, <2>1, EarlyFrame DEF Holds
<1>3. ASSUME NEW j \in Jobs, Fails(j) PROVE Holds(j)'
  BY <1>3, FailsFrame DEF Holds
<1>4. ASSUME NEW j \in Jobs, Scan(j) PROVE Holds(j)'
  <2>1. txn[j].gone = {}
    BY <1>0, <1>4 DEF Holds, Replacing, Scan
  <2>2. pc'[j] = "write" /\ UNCHANGED <<plan, acct, win>>
    BY <1>4 DEF Scan
  <2>3. txn'[j].gone = txn[j].gone /\ txn'[j].seen = {s \in snaps : InTarget(j, s)}
    BY <1>4 DEF Scan, Txns
  <2>4. Replacing(j)'
    BY <1>0, <1>4, <2>2 DEF Holds, Scan, Replacing, Step
  <2>5. \A s \in txn'[j].seen : InTarget(j, s)'
    BY <2>2, <2>3 DEF InTarget, Step
  <2> QED
    BY <2>1, <2>2, <2>3, <2>4, <2>5 DEF Holds
<1>5. ASSUME NEW j \in Jobs, Write(j) PROVE Holds(j)'
  <2>1. pc[j] = "write" /\ pc'[j] = "commit" /\ UNCHANGED <<plan, acct, win>>
    BY <1>5 DEF Write
  <2>2. txn'[j].gone = txn[j].seen \cap snaps /\ txn'[j].seen = txn[j].seen
    BY <1>5 DEF Write, Txns
  <2>3. Replacing(j)' <=> Replacing(j)
    BY <2>1 DEF Replacing, Step
  <2>4. \A s \in txn[j].seen : InTarget(j, s)' <=> InTarget(j, s)
    BY <2>1 DEF InTarget, Step
  <2>5. Holds(j)
    BY <1>0
  <2> QED
    BY <2>1, <2>2, <2>3, <2>4, <2>5 DEF Holds
<1>6. ASSUME NEW j \in Jobs, Between(j) \/ OpenLog(j) PROVE Holds(j)'
  <2>1. ~Replacing(j) /\ ~Replacing(j)' /\ pc[j] # "failing" /\ UNCHANGED txn
    BY <1>6, BetweenFrame, IdleFrame DEF InStep, Replacing
  <2>2. pc'[j] \notin {"write", "scan"}
    BY <1>6, BetweenFrame, IdleFrame DEF InStep
  <2> QED
    BY <1>0, <2>1, <2>2 DEF Holds
<1>7. ASSUME NEW j \in Jobs, Ends(j) \/ Abandon(j) PROVE Holds(j)'
  <2>1. txn'[j] = NoTxn /\ ~Replacing(j)' /\ pc'[j] \notin {"write", "scan"}
    <3>1. CASE Ends(j)
      <4>1. txn' = [txn EXCEPT ![j] = NoTxn] /\ pc' = [pc EXCEPT ![j] = "next"]
        BY <3>1, EndsFrame
      <4> QED
        BY <3>1, <4>1, IdleFrame
    <3>2. CASE Abandon(j)
      <4>1. txn' = [txn EXCEPT ![j] = NoTxn] /\ pc' = [pc EXCEPT ![j] = "idle"]
        BY <3>2, AbandonFrame
      <4> QED
        BY <3>2, <4>1, IdleFrame
    <3> QED
      BY <1>7, <3>1, <3>2
  <2> QED
    BY <2>1 DEF Holds, NoTxn
<1>8. CASE NextDay \/ UNCHANGED vars
  <2>1. UNCHANGED <<pc, plan, txn, acct, win>>
    BY <1>8 DEF NextDay, vars, jobVars
  <2> QED
    BY <1>0, <2>1, HoldsFrame
<1>9. ASSUME NEW j \in Jobs, Inside(j) \/ Between(j) \/ OpenLog(j) \/ Ends(j) \/ Abandon(j)
      PROVE  Holds(j)'
  BY <1>2, <1>3, <1>4, <1>5, <1>6, <1>7, <1>9, InsideCases
<1>10. CASE \E j \in Jobs : Inside(j) \/ Between(j) \/ OpenLog(j) \/ Ends(j) \/ Abandon(j)
  BY <1>0, <1>1, <1>9, <1>10
<1> QED
  BY <1>8, <1>10, NextCases

\* A row that a replacing job of one pair holds, or is about to insert, is in
\* no other job's target, as long as their windows are apart.
LEMMA ApartTargets ==
  ASSUME Typed, NEW i \in Jobs, NEW j \in Jobs, NEW s,
         InTarget(i, s), InTarget(j, s)
  PROVE  Step(i) = Step(j) /\ acct[i] = acct[j] /\ Overlap(win[i], win[j])
<1>1. win[i] \in Windows /\ win[j] \in Windows
  BY DEF Typed, TypeOK
<1>2. s.day \in win[i].start .. win[i].end /\ s.day \in win[j].start .. win[j].end
  BY DEF InTarget
<1> QED
  BY <1>1, <1>2 DEF InTarget, Overlap, Windows

\* What a committing window step removes and adds is all in its target.
LEMMA CommitTargets ==
  ASSUME Typed, RowsInWindow, HeldRows, NEW j \in Jobs, Commit(j)
  PROVE  /\ txn[j].gone # {} => Replacing(j)
         /\ \A s \in txn[j].gone : InTarget(j, s)
         /\ \A s \in Fresh(j) : s.step \in WindowSteps => Replacing(j) /\ InTarget(j, s)
<1>1. pc[j] = "commit" /\ InStep(j)
  BY DEF Commit, InStep
<1>2. (txn[j].gone # {} => Replacing(j)) /\ \A s \in txn[j].gone : InTarget(j, s)
  BY <1>1 DEF HeldRows
<1>3. ASSUME NEW s \in Fresh(j), s.step \in WindowSteps
      PROVE  Replacing(j) /\ InTarget(j, s)
  <2>1. PICK row \in txn[j].rows :
          s = [step |-> Step(j), acct |-> acct[j], id |-> row.id, day |-> row.day,
               log |-> LogId(j)]
    BY DEF Fresh
  <2>2. Step(j) \in WindowSteps
    BY <1>3, <2>1
  <2>3. row.day \in win[j].start .. win[j].end
    BY <1>1, <2>2 DEF RowsInWindow
  <2> QED
    BY <1>1, <2>1, <2>2, <2>3 DEF Replacing, InTarget
<1> QED
  BY <1>2, <1>3

LEMMA WindowsApartStep ==
  ASSUME Typed, HeldRows, WindowsApart, [Next]_vars
  PROVE  WindowsApart'
<1> USE DEF Typed, TypeOK
<1>1. CASE UNCHANGED <<plan, acct, win, clash>>
           /\ \A i \in Jobs : Replacing(i)' => Replacing(i)
  BY <1>1 DEF WindowsApart, Step
<1>2. ASSUME NEW j \in Jobs, Scan(j) PROVE WindowsApart'
  <2>1. UNCHANGED <<plan, acct, win>> /\ clash \subseteq clash'
    BY <1>2 DEF Scan
  <2>2. \A i \in Jobs \ {j} : Replacing(i)' => Replacing(i)
    BY <1>2 DEF Scan, Replacing, Step
  <2>3. \A i \in Jobs \ {j} :
          Replacing(i) /\ Step(i) = Step(j) /\ acct[i] = acct[j] /\ Overlap(win[i], win[j])
          => <<Step(j), acct[j]>> \in clash'
    BY <1>2 DEF Scan
  <2>4. \A i \in Jobs \ {j} : Overlap(win[i], win[j]) <=> Overlap(win[j], win[i])
    BY DEF Overlap
  <2> SUFFICES ASSUME NEW i \in Jobs, NEW k \in Jobs, i # k,
                      Replacing(i)', Replacing(k)', Step(i) = Step(k), acct[i] = acct[k],
                      <<Step(k), acct[k]>> \notin clash'
               PROVE  ~Overlap(win[i], win[k])
    BY <2>1 DEF WindowsApart, Step
  <2>5. CASE k = j
    BY <2>2, <2>3, <2>5
  <2>6. CASE i = j
    BY <2>2, <2>3, <2>4, <2>6
  <2>7. CASE i # j /\ k # j
    BY <2>1, <2>2, <2>7 DEF WindowsApart
  <2> QED
    BY <2>5, <2>6, <2>7
<1>3. ASSUME NEW j \in Jobs, Early(j) \/ Fails(j) \/ Write(j) PROVE WindowsApart'
  <2>1. Inside(j) /\ UNCHANGED <<plan, acct, win>>
    BY <1>3, InsideFrame DEF Inside, Early, Fails
  <2>2. UNCHANGED clash
    BY <1>3, EarlyFrame, FailsFrame DEF Write, histVars
  <2>3. \A i \in Jobs \ {j} : Replacing(i)' => Replacing(i)
    BY <2>1, InsideFrame DEF Replacing, Step
  <2>4. Replacing(j)' => Replacing(j)
    BY <1>3, <2>1, EarlyFrame, FailsFrame DEF Write, Replacing, Step
  <2> QED
    BY <1>1, <2>1, <2>2, <2>3, <2>4
<1>4. ASSUME NEW j \in Jobs, Between(j) \/ OpenLog(j) \/ Ends(j) \/ Abandon(j)
      PROVE  WindowsApart'
  <2>1. ~Replacing(j)' /\ UNCHANGED clash
    BY <1>4, IdleFrame
  <2>2. \A i \in Jobs \ {j} : /\ pc'[i] = pc[i] /\ plan'[i] = plan[i]
                               /\ acct'[i] = acct[i] /\ win'[i] = win[i]
    BY <1>4, IdleFrame
  <2> QED
    BY <2>1, <2>2 DEF WindowsApart, Replacing, Step
<1>5. CASE NextDay \/ UNCHANGED vars
  BY <1>5 DEF NextDay, vars, jobVars, histVars, WindowsApart, Replacing, Step
<1> QED
  BY <1>2, <1>3, <1>4, <1>5, NextCases, InsideCases

LEMMA WindowHeldStep ==
  ASSUME Typed, RowsInWindow, HeldRows, WindowsApart, WindowHeld, [Next]_vars
  PROVE  WindowHeld'
<1> USE DEF Typed, TypeOK
<1>0. (WindowHeld <=> \A i \in Jobs : HoldsAll(i)) /\ (WindowHeld' <=> \A i \in Jobs : HoldsAll(i)')
  BY DEF WindowHeld, HoldsAll
<1>1. ASSUME NEW i \in Jobs, pc'[i] = pc[i], plan'[i] = plan[i], txn'[i] = txn[i],
             acct'[i] = acct[i], win'[i] = win[i], clash \subseteq clash',
             Replacing(i) /\ <<Step(i), acct[i]>> \notin clash =>
               {s \in snaps' : InTarget(i, s)} = {s \in snaps : InTarget(i, s)}
      PROVE  HoldsAll(i)'
  <2>1. HoldsAll(i)
    BY <1>0
  <2>2. (Replacing(i)' <=> Replacing(i)) /\ Step(i)' = Step(i)
    BY <1>1 DEF Replacing, Step
  <2>3. {s \in snaps' : InTarget(i, s)'} = {s \in snaps' : InTarget(i, s)}
    BY <1>1 DEF InTarget, Step
  <2> QED
    BY <1>1, <2>1, <2>2, <2>3 DEF HoldsAll
<1>2. ASSUME NEW j \in Jobs, Early(j) \/ Fails(j) PROVE WindowHeld'
  <2>1. Inside(j) /\ UNCHANGED <<plan, acct, win, snaps, clash>> /\ ~Replacing(j)'
    BY <1>2, InsideFrame, EarlyFrame, FailsFrame DEF Inside, Early, Fails
  <2>2. \A i \in Jobs \ {j} : pc'[i] = pc[i] /\ txn'[i] = txn[i]
    BY <2>1, InsideFrame
  <2>3. HoldsAll(j)'
    BY <2>1 DEF HoldsAll
  <2> QED
    BY <1>0, <1>1, <2>1, <2>2, <2>3
<1>3. ASSUME NEW j \in Jobs, Scan(j) PROVE WindowHeld'
  <2>1. Inside(j) /\ UNCHANGED <<plan, acct, win, snaps>> /\ clash \subseteq clash'
    BY <1>3, InsideFrame DEF Inside, Scan
  <2>2. \A i \in Jobs \ {j} : pc'[i] = pc[i] /\ txn'[i] = txn[i]
    BY <2>1, InsideFrame
  <2>3. pc'[j] = "write" /\ txn'[j].seen = {s \in snaps : InTarget(j, s)}
    BY <1>3 DEF Scan, Txns
  <2>4. {s \in snaps' : InTarget(j, s)'} = {s \in snaps : InTarget(j, s)}
    BY <2>1 DEF InTarget, Step
  <2>5. HoldsAll(j)'
    BY <2>3, <2>4 DEF HoldsAll
  <2> QED
    BY <1>0, <1>1, <2>1, <2>2, <2>5
<1>4. ASSUME NEW j \in Jobs, Write(j) PROVE WindowHeld'
  <2>1. Inside(j) /\ UNCHANGED <<plan, acct, win, snaps, clash>>
    BY <1>4, InsideFrame DEF Inside, Write, histVars
  <2>2. \A i \in Jobs \ {j} : pc'[i] = pc[i] /\ txn'[i] = txn[i]
    BY <2>1, InsideFrame
  <2>3. /\ pc[j] = "write" /\ pc'[j] = "commit"
        /\ txn'[j].gone = txn[j].seen \cap snaps
    BY <1>4 DEF Write, Txns
  <2>4. HoldsAll(j) /\ (Replacing(j)' <=> Replacing(j)) /\ Step(j)' = Step(j)
    BY <1>0, <2>1, <2>3 DEF Replacing, Step
  <2>5. {s \in snaps' : InTarget(j, s)'} = {s \in snaps : InTarget(j, s)}
    BY <2>1 DEF InTarget, Step
  <2>6. HoldsAll(j)'
    BY <2>1, <2>3, <2>4, <2>5 DEF HoldsAll
  <2> QED
    BY <1>0, <1>1, <2>1, <2>2, <2>6
<1>5. ASSUME NEW j \in Jobs, Commit(j) PROVE WindowHeld'
  <2>1. ~Replacing(j)' /\ UNCHANGED clash
    BY <1>5, IdleFrame DEF Ends
  <2>2. ASSUME NEW i \in Jobs \ {j} PROVE HoldsAll(i)'
    <3>1. /\ pc'[i] = pc[i] /\ plan'[i] = plan[i] /\ txn'[i] = txn[i]
          /\ acct'[i] = acct[i] /\ win'[i] = win[i]
      BY <1>5, IdleFrame DEF Ends
    <3>2. ASSUME Replacing(i), <<Step(i), acct[i]>> \notin clash, NEW s, InTarget(i, s)
          PROVE  s \notin txn[j].gone /\ s \notin Fresh(j)
      <4>1. s.step \in WindowSteps
        BY <3>2 DEF Replacing, InTarget
      <4>2. SUFFICES ASSUME Replacing(j), InTarget(j, s) PROVE FALSE
        BY <1>5, <4>1, CommitTargets
      <4>3. Step(i) = Step(j) /\ acct[i] = acct[j] /\ Overlap(win[i], win[j])
        BY <3>2, <4>2, ApartTargets
      <4> QED
        BY <3>2, <4>2, <4>3 DEF WindowsApart
    <3>3. snaps' = (snaps \ txn[j].gone) \cup Fresh(j)
      BY <1>5 DEF Commit
    <3>4. Replacing(i) /\ <<Step(i), acct[i]>> \notin clash =>
            {s \in snaps' : InTarget(i, s)} = {s \in snaps : InTarget(i, s)}
      BY <3>2, <3>3
    <3> QED
      BY <1>1, <2>1, <3>1, <3>4
  <2>3. HoldsAll(j)'
    BY <2>1 DEF HoldsAll
  <2> QED
    BY <1>0, <2>2, <2>3
<1>6. ASSUME NEW j \in Jobs, Between(j) \/ OpenLog(j) \/ MarkFailed(j) \/ Abandon(j)
      PROVE  WindowHeld'
  <2>1. ~Replacing(j)' /\ UNCHANGED clash
    BY <1>6, IdleFrame DEF Ends
  <2>2. UNCHANGED snaps
    BY <1>6, BetweenFrame, IdleFrame DEF MarkFailed, Abandon, dbVars
  <2>3. \A i \in Jobs \ {j} : /\ pc'[i] = pc[i] /\ plan'[i] = plan[i] /\ txn'[i] = txn[i]
                               /\ acct'[i] = acct[i] /\ win'[i] = win[i]
    BY <1>6, IdleFrame DEF Ends
  <2>4. HoldsAll(j)'
    BY <2>1 DEF HoldsAll
  <2> QED
    BY <1>0, <1>1, <2>1, <2>2, <2>3, <2>4
<1>7. CASE NextDay \/ UNCHANGED vars
  <2>1. UNCHANGED <<pc, plan, txn, acct, win, snaps, clash>>
    BY <1>7 DEF NextDay, vars, jobVars, histVars, dbVars
  <2> QED
    BY <1>0, <1>1, <2>1
<1> QED
  BY <1>2, <1>3, <1>4, <1>5, <1>6, <1>7, NextCases, InsideCases DEF Ends

LEMMA OneRowStep ==
  ASSUME Typed, RowsInWindow, HeldRows, WindowHeld, OneRowUnlessClash, [Next]_vars
  PROVE  OneRowUnlessClash'
<1> USE DEF Typed, TypeOK
<1>1. CASE UNCHANGED snaps /\ clash \subseteq clash'
  BY <1>1 DEF OneRowUnlessClash, SameEntityDay
<1>2. ASSUME NEW j \in Jobs, Commit(j) PROVE OneRowUnlessClash'
  <2>1. clash' = clash /\ snaps' = (snaps \ txn[j].gone) \cup Fresh(j)
    BY <1>2 DEF Commit, histVars
  <2>2. ASSUME NEW r \in Fresh(j), NEW s \in snaps \ txn[j].gone,
               r.step \in WindowSteps, SameEntityDay(r, s), <<r.step, r.acct>> \notin clash
        PROVE  FALSE
    <3>1. Replacing(j) /\ InTarget(j, r)
      BY <1>2, <2>2, CommitTargets
    <3>2. InTarget(j, s)
      BY <2>2, <3>1 DEF InTarget, SameEntityDay
    <3>3. pc[j] = "commit" /\ <<Step(j), acct[j]>> \notin clash
      BY <1>2, <2>2, <3>1 DEF Commit, InTarget
    <3>4. s \in txn[j].gone
      BY <3>1, <3>2, <3>3 DEF WindowHeld
    <3> QED
      BY <2>2, <3>4
  <2>3. ASSUME NEW r \in Fresh(j), NEW s \in Fresh(j), SameEntityDay(r, s)
        PROVE  r = s
    BY <2>3 DEF Fresh, SameEntityDay
  <2> SUFFICES ASSUME NEW r \in snaps', NEW s \in snaps', r.step \in WindowSteps,
                      SameEntityDay(r, s), <<r.step, r.acct>> \notin clash
               PROVE  r = s
    BY <2>1 DEF OneRowUnlessClash, SameEntityDay
  <2>4. SameEntityDay(s, r) /\ s.step = r.step /\ s.acct = r.acct
    BY DEF SameEntityDay
  <2>5. CASE r \in Fresh(j) /\ s \in Fresh(j)
    BY <2>3, <2>5
  <2>6. CASE r \in Fresh(j) /\ s \notin Fresh(j)
    BY <2>1, <2>2, <2>6
  <2>7. CASE r \notin Fresh(j) /\ s \in Fresh(j)
    BY <2>1, <2>2, <2>4, <2>7
  <2>8. CASE r \notin Fresh(j) /\ s \notin Fresh(j)
    BY <2>1, <2>8 DEF OneRowUnlessClash
  <2> QED
    BY <2>5, <2>6, <2>7, <2>8
<1>3. ASSUME NEW j \in Jobs, Inside(j) PROVE OneRowUnlessClash'
  <2>1. UNCHANGED snaps
    BY <1>3, InsideFrame
  <2>2. clash \subseteq clash'
    BY <1>3, InsideCases, EarlyFrame, FailsFrame DEF Scan, Write, histVars
  <2> QED
    BY <1>1, <2>1, <2>2
<1>4. ASSUME NEW j \in Jobs, Between(j) \/ OpenLog(j) \/ MarkFailed(j) \/ Abandon(j)
      PROVE  OneRowUnlessClash'
  <2>1. UNCHANGED snaps
    BY <1>4, BetweenFrame, IdleFrame DEF MarkFailed, Abandon, dbVars
  <2>2. UNCHANGED clash
    BY <1>4, IdleFrame DEF Ends
  <2> QED
    BY <1>1, <2>1, <2>2
<1>5. CASE NextDay \/ UNCHANGED vars
  BY <1>1, <1>5 DEF NextDay, vars, histVars, dbVars
<1> QED
  BY <1>2, <1>3, <1>4, <1>5, NextCases DEF Ends

\* Re-syncing never leaves two rows for one table, account, entity and day,
\* unless two transactions replaced overlapping windows of them at once.
THEOREM OneRowHolds == Spec => []OneRowUnlessClash
<1>1. Init => SyncInv
  BY InitInv
<1>2. SyncInv /\ [Next]_vars => SyncInv'
  BY TypeStep, StepLoggedStep, LineageStep, RowsInWindowStep, HeldRowsStep,
     WindowsApartStep, WindowHeldStep, OneRowStep DEF SyncInv, Typed
<1>3. SyncInv => OneRowUnlessClash
  BY DEF SyncInv
<1> QED
  BY <1>1, <1>2, <1>3, PTL DEF Spec

\* One job never meets another one.
LEMMA NoClashStep ==
  ASSUME \A i, j \in Jobs : i = j, clash = {}, [Next]_vars
  PROVE  clash' = {}
<1>1. ASSUME NEW j \in Jobs, Scan(j) PROVE clash' = {}
  <2>1. Jobs \ {j} = {}
    OBVIOUS
  <2> QED
    BY <1>1, <2>1 DEF Scan
<1>2. ASSUME NEW j \in Jobs, Inside(j), ~Scan(j) PROVE clash' = {}
  BY <1>2 DEF Inside, Fetch, MapRows, SelectRow, InsertRow, Write, DeadlockVictim,
              StepFails, histVars
<1>3. ASSUME NEW j \in Jobs, Between(j) \/ OpenLog(j) \/ Ends(j) \/ Abandon(j)
      PROVE  clash' = {}
  BY <1>3 DEF Between, Begin, CreateAccount, PlanAccounts, NextAccount, Finish, OpenLog,
              Ends, Commit, MarkFailed, Abandon, histVars
<1>4. CASE NextDay \/ UNCHANGED vars
  BY <1>4 DEF NextDay, vars, histVars
<1> QED
  BY <1>1, <1>2, <1>3, <1>4, NextCases

\* With one thread at a time, replace_window keeps its promise: exactly one row
\* per entity and day, whatever is re-synced, fails or is killed.
THEOREM SerialOneRow ==
  ASSUME \A i, j \in Jobs : i = j
  PROVE  Spec => []OneRowPerEntityDay
<1>1. Init => clash = {}
  BY DEF Init
<1>2. clash = {} /\ [Next]_vars => (clash = {})'
  BY NoClashStep
<1>3. OneRowUnlessClash /\ clash = {} => OneRowPerEntityDay
  BY DEF OneRowUnlessClash, OneRowPerEntityDay
<1> QED
  BY <1>1, <1>2, <1>3, OneRowHolds, PTL DEF Spec

-----------------------------------------------------------------------------
(* What invocations report and leave alone.                                *)

LEMMA SyncStep == SyncInv /\ [Next]_vars => SyncInv'
  BY TypeStep, StepLoggedStep, LineageStep, RowsInWindowStep, HeldRowsStep,
     WindowsApartStep, WindowHeldStep, OneRowStep DEF SyncInv, Typed

\* How the end of a step changes the log: its last row, which was running, ends.
LEMMA EndedRow ==
  ASSUME Typed, NEW j \in Jobs, InStep(j), NEW status \in Final, Close(j, status)
  PROVE  /\ Len(logs[j]) \in Nat /\ Len(logs[j]) >= 1
         /\ DOMAIN logs' = Jobs
         /\ \A i \in Jobs \ {j} : logs'[i] = logs[i]
         /\ DOMAIN logs'[j] = DOMAIN logs[j] /\ Len(logs'[j]) = Len(logs[j])
         /\ logs[j][Len(logs[j])].status = "running"
         /\ logs'[j][Len(logs[j])].status = status
         /\ \A n \in DOMAIN logs[j] \ {Len(logs[j])} : logs'[j][n] = logs[j][n]
<1> USE DEF Typed, TypeOK
<1>1. logs' = [logs EXCEPT ![j] =
                 [logs[j] EXCEPT ![Len(logs[j])] =
                    [logs[j][Len(logs[j])] EXCEPT !.status = status]]]
  BY DEF Close
<1>2. logs[j] \in Seq(LogRows) /\ logs[j] # <<>>
  BY DEF StepLogged
<1>3. /\ Len(logs[j]) \in Nat /\ Len(logs[j]) >= 1
      /\ DOMAIN logs[j] = 1..Len(logs[j])
  BY <1>2, EmptySeq, LenProperties
<1>4. logs'[j] = [logs[j] EXCEPT ![Len(logs[j])] =
                    [logs[j][Len(logs[j])] EXCEPT !.status = status]]
  BY <1>1
<1>5. logs' \in [Jobs -> Seq(LogRows)]
  BY CloseType
<1>6. logs[j][Len(logs[j])] =
        [step |-> Step(j), acct |-> acct[j], status |-> "running"]
  BY DEF StepLogged
<1> QED
  BY <1>1, <1>2, <1>3, <1>4, <1>5, <1>6, LenProperties

\* A step ends with one of the final statuses.
LEMMA EndsClose ==
  ASSUME Typed, NEW j \in Jobs, Ends(j)
  PROVE  InStep(j) /\ \E status \in Final : Close(j, status)
<1>1. CASE Commit(j)
  BY <1>1 DEF Commit, InStep, Final
<1>2. CASE MarkFailed(j)
  BY <1>2 DEF MarkFailed, InStep, Final
<1> QED
  BY <1>1, <1>2 DEF Ends

\* The other steps add a log row or leave the log alone.
LEMMA LogFrame ==
  ASSUME Typed, NEW j \in Jobs, Inside(j) \/ Between(j) \/ Abandon(j)
  PROVE  UNCHANGED <<snaps, logs>>
  BY InsideFrame, BetweenFrame DEF Abandon, dbVars

LEMMA OpenedRow ==
  ASSUME Typed, NEW j \in Jobs, OpenLog(j)
  PROVE  /\ DOMAIN logs' = Jobs
         /\ \A i \in Jobs \ {j} : logs'[i] = logs[i]
         /\ Len(logs[j]) \in Nat /\ Len(logs'[j]) = Len(logs[j]) + 1
         /\ \A n \in 1..Len(logs[j]) : logs'[j][n] = logs[j][n]
         /\ DOMAIN logs[j] = 1..Len(logs[j]) /\ DOMAIN logs'[j] = 1..Len(logs[j]) + 1
         /\ snaps' = snaps
<1> USE DEF Typed, TypeOK
<1> DEFINE new == [step |-> Step(j), acct |-> acct[j], status |-> "running"]
<1>1. logs' = [logs EXCEPT ![j] = Append(logs[j], new)]
  BY DEF OpenLog
<1>2. logs[j] \in Seq(LogRows) /\ logs'[j] = Append(logs[j], new)
  BY <1>1
<1> HIDE DEF new
<1> QED
  BY <1>1, <1>2 DEF OpenLog

-----------------------------------------------------------------------------
\* Log rows are never withdrawn, and one that has ended never changes again: a step closes
\* the row it opened, the last of its job, whatever fails, restarts or runs beside it.
THEOREM LogRowsFinal == Spec => LogsFinal
<1>1. Init => Typed
  BY InitInv DEF SyncInv, Typed
<1>2. Typed /\ [Next]_vars => Typed'
  BY TypeStep, StepLoggedStep DEF Typed
<1>3. Typed /\ [Next]_vars =>
        [\A j \in Jobs : \A n \in DOMAIN logs[j] :
           /\ n \in DOMAIN logs'[j]
           /\ logs[j][n].status \in Final => logs'[j][n] = logs[j][n]]_logs
  <2> SUFFICES ASSUME Typed, [Next]_vars, NEW i \in Jobs, NEW n \in DOMAIN logs[i]
               PROVE  /\ n \in DOMAIN logs'[i]
                      /\ logs[i][n].status \in Final => logs'[i][n] = logs[i][n]
    OBVIOUS
  <2>1. ASSUME NEW j \in Jobs, Inside(j) \/ Between(j) \/ Abandon(j)
        PROVE  logs'[i] = logs[i]
    BY <2>1, LogFrame
  <2>2. ASSUME NEW j \in Jobs, OpenLog(j)
        PROVE  n \in DOMAIN logs'[i] /\ logs'[i][n] = logs[i][n]
    <3>1. CASE i # j
      BY <2>2, <3>1, OpenedRow
    <3>2. CASE i = j
      BY <2>2, <3>2, OpenedRow
    <3> QED
      BY <3>1, <3>2
  <2>3. ASSUME NEW j \in Jobs, Ends(j)
        PROVE  /\ n \in DOMAIN logs'[i]
               /\ logs[i][n].status \in Final => logs'[i][n] = logs[i][n]
    <3>1. PICK status \in Final : Close(j, status) /\ InStep(j)
      BY <2>3, EndsClose
    <3>2. /\ \A k \in Jobs \ {j} : logs'[k] = logs[k]
          /\ DOMAIN logs'[j] = DOMAIN logs[j]
          /\ logs[j][Len(logs[j])].status = "running"
          /\ \A m \in DOMAIN logs[j] \ {Len(logs[j])} : logs'[j][m] = logs[j][m]
      BY <3>1, EndedRow
    <3> QED
      BY <3>2 DEF Final
  <2>4. CASE NextDay \/ UNCHANGED vars
    BY <2>4 DEF NextDay, vars, dbVars
  <2> QED
    BY <2>1, <2>2, <2>3, <2>4, NextCases
<1> QED
  BY <1>1, <1>2, <1>3, PTL DEF Spec, LogsFinal

\* A snapshot row goes only when a window step of its own table and account commits over
\* its day: a DELETE is held to the account, the table and the window of its step.
THEOREM RemovalsBounded == Spec => RemovedOnlyByItsWindow
<1>1. SyncInv /\ [Next]_vars =>
        [\A s \in snaps \ snaps' :
           /\ s.step \in WindowSteps
           /\ \E j \in Jobs : pc[j] = "commit" /\ InTarget(j, s)]_snaps
  <2> SUFFICES ASSUME SyncInv, [Next]_vars, NEW s \in snaps \ snaps'
               PROVE  /\ s.step \in WindowSteps
                      /\ \E j \in Jobs : pc[j] = "commit" /\ InTarget(j, s)
    OBVIOUS
  <2>0. Typed
    BY DEF SyncInv, Typed
  <2>1. ASSUME NEW j \in Jobs, Commit(j)
        PROVE  /\ s.step \in WindowSteps
               /\ \E i \in Jobs : pc[i] = "commit" /\ InTarget(i, s)
    <3>1. pc[j] = "commit" /\ s \in txn[j].gone
      BY <2>1 DEF Commit
    <3>2. Replacing(j) /\ InTarget(j, s)
      BY <3>1 DEF SyncInv, HeldRows
    <3> QED
      BY <3>1, <3>2 DEF Replacing, InTarget
  <2>2. ASSUME NEW j \in Jobs,
               Inside(j) \/ Between(j) \/ Abandon(j) \/ OpenLog(j) \/ MarkFailed(j)
        PROVE  FALSE
    BY <2>0, <2>2, LogFrame, OpenedRow DEF MarkFailed
  <2>3. CASE NextDay \/ UNCHANGED vars
    BY <2>3 DEF NextDay, vars, dbVars
  <2> QED
    BY <2>1, <2>2, <2>3, NextCases DEF Ends
<1> QED
  BY <1>1, InitInv, SyncStep, PTL DEF Spec, RemovedOnlyByItsWindow

-----------------------------------------------------------------------------
(* The status of an invocation.                                            *)

\* The log rows of the invocation that have been closed.
Closed(j) == first[j] + 1 .. (IF InStep(j) THEN Len(logs[j]) - 1 ELSE Len(logs[j]))

\* The inductive invariant of ResultHonest: inside a step the row being worked on does
\* not count yet.
Honest(j) ==
  pc[j] # "idle" =>
    /\ first[j] <= Len(logs[j])
    /\ InStep(j) => first[j] < Len(logs[j])
    /\ result[j] = "success" <=> \A n \in Closed(j) : logs[j][n].status = "success"

\* Jobs that do not move stay honest.
LEMMA HonestFrame ==
  ASSUME NEW i, Honest(i), pc'[i] = pc[i], first'[i] = first[i], result'[i] = result[i],
         logs'[i] = logs[i]
  PROVE  Honest(i)'
  BY DEF Honest, Closed, InStep

\* Inside a step a job stays inside it.
LEMMA InsideStays ==
  ASSUME Typed, NEW j \in Jobs, Inside(j)
  PROVE  \A i \in Jobs : InStep(i)' = InStep(i) /\ (pc'[i] = "idle" <=> pc[i] = "idle")
<1> USE DEF Typed, TypeOK
<1>1. \A i \in Jobs \ {j} : pc'[i] = pc[i]
  BY InsideFrame
<1>2. InStep(j) /\ pc'[j] \notin {"idle", "next"}
  <2>1. InStep(j) /\ AfterUpserts(j) \in {"scan", "write", "commit"}
    BY InsideFrame DEF AfterUpserts
  <2>2. CASE Fetch(j) \/ Scan(j) \/ Write(j) \/ DeadlockVictim(j) \/ StepFails(j)
    BY <2>1, <2>2 DEF Fetch, Scan, Write, DeadlockVictim, StepFails
  <2>3. CASE MapRows(j)
    <3>1. pc'[j] \in {AfterUpserts(j), "select"}
      BY <2>3 DEF MapRows
    <3> QED
      BY <2>1, <3>1
  <2>4. CASE SelectRow(j)
    <3>1. pc'[j] \in {AfterUpserts(j), "select", "insert"}
      BY <2>4 DEF SelectRow
    <3> QED
      BY <2>1, <3>1
  <2>5. CASE InsertRow(j)
    <3>1. pc'[j] \in {AfterUpserts(j), "select", "failing"}
      BY <2>5 DEF InsertRow
    <3> QED
      BY <2>1, <3>1
  <2> QED
    BY <2>1, <2>2, <2>3, <2>4, <2>5 DEF Inside
<1> QED
  BY <1>1, <1>2 DEF InStep

LEMMA HonestStep ==
  ASSUME Typed, \A i \in Jobs : Honest(i), [Next]_vars
  PROVE  \A i \in Jobs : Honest(i)'
<1> USE DEF Typed, TypeOK
<1>1. ASSUME NEW j \in Jobs, Inside(j) PROVE \A i \in Jobs : Honest(i)'
  <2>1. UNCHANGED <<first, result, logs>>
    BY <1>1 DEF Inside, Fetch, MapRows, SelectRow, InsertRow, Scan, Write, DeadlockVictim,
                StepFails, dbVars
  <2>2. \A i \in Jobs : InStep(i)' = InStep(i) /\ (pc'[i] = "idle" <=> pc[i] = "idle")
    BY <1>1, InsideStays
  <2> QED
    BY <2>1, <2>2 DEF Honest, Closed
<1>2. ASSUME NEW j \in Jobs, Begin(j) PROVE \A i \in Jobs : Honest(i)'
  <2>1. /\ first'[j] = Len(logs[j]) /\ result'[j] = "success" /\ pc'[j] = "next"
        /\ UNCHANGED logs
        /\ \A i \in Jobs \ {j} : /\ pc'[i] = pc[i] /\ first'[i] = first[i]
                                 /\ result'[i] = result[i]
    BY <1>2 DEF Begin, dbVars
  <2>2. Honest(j)'
    <3>1. Len(logs[j]) \in Nat
      BY LenProperties
    <3> QED
      BY <2>1, <3>1 DEF Honest, Closed, InStep
  <2> QED
    BY <2>1, <2>2, HonestFrame
<1>3. ASSUME NEW j \in Jobs, CreateAccount(j) \/ PlanAccounts(j) \/ NextAccount(j)
      PROVE  \A i \in Jobs : Honest(i)'
  <2>1. UNCHANGED <<pc, first, result, logs>>
    BY <1>3 DEF CreateAccount, PlanAccounts, NextAccount, dbVars, jobVars
  <2> QED
    BY <2>1, HonestFrame
<1>4. ASSUME NEW j \in Jobs, Finish(j) \/ Abandon(j) PROVE \A i \in Jobs : Honest(i)'
  <2>1. pc' = [pc EXCEPT ![j] = "idle"] /\ UNCHANGED <<first, result, logs>>
    BY <1>4 DEF Finish, Abandon, dbVars
  <2>2. Honest(j)'
    BY <2>1 DEF Honest
  <2> QED
    BY <2>1, <2>2, HonestFrame
<1>5. ASSUME NEW j \in Jobs, OpenLog(j) PROVE \A i \in Jobs : Honest(i)'
  <2>1. /\ pc[j] = "next" /\ pc'[j] = "fetch" /\ UNCHANGED <<first, result>>
        /\ \A i \in Jobs \ {j} : pc'[i] = pc[i] /\ logs'[i] = logs[i]
        /\ Len(logs[j]) \in Nat /\ Len(logs'[j]) = Len(logs[j]) + 1
        /\ \A n \in 1..Len(logs[j]) : logs'[j][n] = logs[j][n]
    BY <1>5, OpenedRow DEF OpenLog
  <2>2. Honest(j)'
    <3>1. Closed(j)' = Closed(j)
      BY <2>1 DEF Closed, InStep
    <3>2. first[j] \in Nat /\ Honest(j)
      OBVIOUS
    <3>3. Closed(j) \subseteq 1..Len(logs[j])
      BY <2>1, <3>2 DEF Closed, InStep
    <3>4. /\ first[j] <= Len(logs[j])
          /\ result[j] = "success" <=> \A n \in Closed(j) : logs[j][n].status = "success"
      BY <2>1, <3>2 DEF Honest
    <3>5. result'[j] = "success" <=> \A n \in Closed(j)' : logs'[j][n].status = "success"
      BY <2>1, <3>1, <3>3, <3>4
    <3>6. first'[j] <= Len(logs'[j]) /\ first'[j] < Len(logs'[j])
      BY <2>1, <3>2, <3>4
    <3> QED
      BY <3>5, <3>6 DEF Honest
  <2> QED
    BY <2>1, <2>2, HonestFrame
<1>6. ASSUME NEW j \in Jobs, Ends(j) PROVE \A i \in Jobs : Honest(i)'
  <2>1. PICK status \in Final : Close(j, status) /\ InStep(j)
    BY <1>6, EndsClose
  <2>2. /\ Len(logs[j]) \in Nat /\ Len(logs[j]) >= 1
        /\ \A i \in Jobs \ {j} : logs'[i] = logs[i]
        /\ Len(logs'[j]) = Len(logs[j])
        /\ logs'[j][Len(logs[j])].status = status
        /\ \A n \in DOMAIN logs[j] \ {Len(logs[j])} : logs'[j][n] = logs[j][n]
    BY <2>1, EndedRow
  <2>3. /\ pc'[j] = "next" /\ result'[j] = Absorb(result[j], status) /\ first' = first
        /\ \A i \in Jobs \ {j} : pc'[i] = pc[i] /\ result'[i] = result[i]
    BY <2>1 DEF Close
  <2>4. result'[j] = "success" <=> result[j] = "success" /\ status = "success"
    BY <2>3 DEF Absorb, Final
  <2>5. Closed(j)' = Closed(j) \cup {Len(logs[j])} /\ Len(logs[j]) \notin Closed(j)
    <3>1. first[j] \in Nat /\ first[j] < Len(logs[j])
      BY <2>1 DEF Honest, InStep
    <3>2. Closed(j)' = first[j] + 1 .. Len(logs[j])
      BY <2>2, <2>3 DEF Closed, InStep
    <3>3. Closed(j) = first[j] + 1 .. Len(logs[j]) - 1
      BY <2>1 DEF Closed
    <3> QED
      BY <2>2, <3>1, <3>2, <3>3
  <2>6. \A n \in Closed(j) : logs'[j][n] = logs[j][n]
    <3>1. DOMAIN logs[j] = 1..Len(logs[j]) /\ first[j] \in Nat
      BY LenProperties
    <3>2. Closed(j) \subseteq DOMAIN logs[j] \ {Len(logs[j])}
      BY <2>1, <2>2, <3>1 DEF Closed
    <3> QED
      BY <2>2, <3>2
  <2>7. Honest(j)'
    <3>1. /\ result[j] = "success" <=> \A n \in Closed(j) : logs[j][n].status = "success"
          /\ first[j] <= Len(logs[j])
      BY <2>1 DEF Honest, InStep
    <3>2. result'[j] = "success" <=> \A n \in Closed(j)' : logs'[j][n].status = "success"
      BY <2>2, <2>4, <2>5, <2>6, <3>1
    <3> QED
      BY <2>2, <2>3, <3>1, <3>2 DEF Honest, InStep
  <2> QED
    BY <2>2, <2>3, <2>7, HonestFrame
<1>7. CASE NextDay \/ UNCHANGED vars
  BY <1>7, HonestFrame DEF NextDay, vars, dbVars, jobVars
<1> QED
  BY <1>1, <1>2, <1>3, <1>4, <1>5, <1>6, <1>7, NextCases DEF Between

\* An invocation reports success exactly when every step it ran ended in success: a failed
\* or partial step, also of an earlier account, is never forgotten by _Aggregate.
THEOREM ReportsHonest == Spec => []ResultHonest
<1> DEFINE Inv == \A i \in Jobs : Honest(i)
<1>1. Init => Inv
  BY DEF Init, Honest
<1>2. Typed /\ Inv /\ [Next]_vars => Inv'
  BY HonestStep
<1>3. Inv => ResultHonest
  BY DEF Honest, Closed, InStep, ResultHonest
<1> HIDE DEF Inv
<1> QED
  BY <1>1, <1>2, <1>3, Typing, PTL DEF Spec, Typed

-----------------------------------------------------------------------------
(* Parents.                                                                *)

\* What the lookups of a step found is still there when it writes.
Resolved(j) ==
  InStep(j) /\ pc[j] \notin {"fetch", "map", "failing"} =>
    \A row \in txn[j].rows : \A t \in Needs(Step(j)) : Key(j, row) \in dims[t]

\* After its lookups a step keeps the rows it will write.
LEMMA RowsKept ==
  ASSUME Typed, NEW j \in Jobs, SelectRow(j) \/ InsertRow(j) \/ Scan(j) \/ Write(j)
  PROVE  txn'[j].rows = txn[j].rows
<1> USE DEF Typed, TypeOK
<1>1. CASE SelectRow(j)
  <2> PICK row \in txn[j].todo : \/ txn' = [txn EXCEPT ![j].todo = @ \ {row}]
                                 \/ txn' = [txn EXCEPT ![j].missing = {row}]
    BY <1>1 DEF SelectRow
  <2> QED
    BY DEF Txns
<1>2. CASE InsertRow(j)
  <2> PICK row \in txn[j].missing :
        \/ UNCHANGED txn
        \/ txn' = [txn EXCEPT ![j].todo = @ \ {row}, ![j].missing = {},
                              ![j].made = @ \cup {Key(j, row)}]
    BY <1>2 DEF InsertRow
  <2>1. CASE txn' = [txn EXCEPT ![j].todo = @ \ {row}, ![j].missing = {},
                                ![j].made = @ \cup {Key(j, row)}]
    <3>1. txn'[j] = [txn[j] EXCEPT !.todo = @ \ {row}, !.missing = {},
                                   !.made = @ \cup {Key(j, row)}]
      BY <2>1
    <3> QED
      BY <3>1 DEF Txns
  <2> QED
    BY <2>1
<1>3. CASE Scan(j) \/ Write(j)
  BY <1>3 DEF Scan, Write, Txns
<1> QED
  BY <1>1, <1>2, <1>3

\* Dimension rows are never removed.
LEMMA DimsGrow ==
  ASSUME Typed, [Next]_vars, NEW t \in DimTables
  PROVE  dims[t] \subseteq dims'[t]
<1> USE DEF Typed, TypeOK
<1>1. ASSUME NEW j \in Jobs, Inside(j) \/ OpenLog(j) \/ Abandon(j) \/ MarkFailed(j)
      PROVE  dims' = dims
  BY <1>1, InsideFrame DEF OpenLog, Abandon, MarkFailed, dbVars
<1>2. ASSUME NEW j \in Jobs, Between(j) PROVE dims[t] \subseteq dims'[t]
  BY <1>2 DEF Between, Begin, CreateAccount, PlanAccounts, NextAccount, Finish, dbVars
<1>3. ASSUME NEW j \in Jobs, Commit(j) PROVE dims[t] \subseteq dims'[t]
  BY <1>3 DEF Commit
<1>4. CASE NextDay \/ UNCHANGED vars
  BY <1>4 DEF NextDay, vars, dbVars
<1> QED
  BY <1>1, <1>2, <1>3, <1>4, NextCases DEF Ends

LEMMA NeedsTables == \A step \in Steps : Needs(step) \subseteq DimTables
  BY DEF Needs, DimTables, DimSteps

\* A job that keeps its rows keeps them resolved.
LEMMA ResolvedFrame ==
  ASSUME Typed, [Next]_vars, NEW i \in Jobs, Resolved(i), StepLogged',
         plan'[i] = plan[i], acct'[i] = acct[i], txn'[i].rows = txn[i].rows,
         pc'[i] \in {"idle", "next", "fetch", "map", "failing"}
           \/ pc[i] \notin {"idle", "next", "fetch", "map", "failing"}
  PROVE  Resolved(i)'
<1> SUFFICES ASSUME InStep(i)', pc'[i] \notin {"fetch", "map", "failing"},
                    NEW row \in txn[i].rows, NEW t \in Needs(Step(i))
             PROVE  <<acct[i], row.id>> \in dims'[t]
  BY DEF Resolved, Step, Key
<1>1. <<acct[i], row.id>> \in dims[t] /\ InStep(i)
  BY DEF Resolved, InStep, Key
<1>2. Step(i) \in Steps
  BY <1>1 DEF Typed, StepLogged
<1> QED
  BY <1>1, <1>2, NeedsTables, DimsGrow

LEMMA ResolvedStep ==
  ASSUME Typed, \A i \in Jobs : Resolved(i), [Next]_vars, StepLogged'
  PROVE  \A i \in Jobs : Resolved(i)'
<1> USE DEF Typed, TypeOK
<1>1. ASSUME NEW j \in Jobs, NEW i \in Jobs \ {j},
             Inside(j) \/ Between(j) \/ OpenLog(j) \/ Ends(j) \/ Abandon(j)
      PROVE  Resolved(i)'
  <2>1. /\ pc'[i] = pc[i] /\ plan'[i] = plan[i] /\ txn'[i] = txn[i] /\ acct'[i] = acct[i]
    BY <1>1, InsideFrame, IdleFrame
  <2>2. Resolved(i)
    OBVIOUS
  <2> QED
    BY <2>1, <2>2, ResolvedFrame DEF Resolved, InStep, Phases
<1>2. ASSUME NEW j \in Jobs, Fetch(j) \/ Fails(j) PROVE Resolved(j)'
  BY <1>2, FailsFrame DEF Fetch, Resolved
<1>3. ASSUME NEW j \in Jobs, MapRows(j) PROVE Resolved(j)'
  <2> DEFINE usable == {row \in txn[j].rows : Usable(j, row)}
             dated  == IF Step(j) \in AppendSteps
                         THEN {[row EXCEPT !.day = today] : row \in usable} ELSE usable
  <2>1. UNCHANGED <<dims, plan, acct>>
    BY <1>3 DEF MapRows, dbVars
  <2>2. PICK b, c : txn' = [txn EXCEPT ![j].rows = dated, ![j].todo = b, ![j].skipped = c]
    BY <1>3 DEF MapRows
  <2>3. txn[j] \in Txns /\ txn[j].rows \subseteq Rows
    BY DEF Txns
  <2>4. \A row \in dated : \A t \in Needs(Step(j)) : <<acct[j], row.id>> \in dims[t]
    BY <2>3 DEF Usable, Key, Rows
  <2> HIDE DEF dated
  <2>5. txn'[j].rows = dated
    <3>1. txn'[j] = [txn[j] EXCEPT !.rows = dated, !.todo = b, !.skipped = c]
      BY <2>2
    <3> QED
      BY <2>3, <3>1 DEF Txns
  <2> QED
    BY <2>1, <2>4, <2>5 DEF Resolved, Step, Key
<1>4. ASSUME NEW j \in Jobs, SelectRow(j) \/ InsertRow(j) \/ Scan(j) \/ Write(j)
      PROVE  Resolved(j)'
  <2>1. pc[j] \in {"select", "insert", "scan", "write"} /\ UNCHANGED <<plan, acct>>
    BY <1>4 DEF SelectRow, InsertRow, Scan, Write
  <2>2. txn'[j].rows = txn[j].rows
    BY <1>4, RowsKept
  <2> QED
    BY <2>1, <2>2, ResolvedFrame
<1>5. ASSUME NEW j \in Jobs, Between(j) \/ OpenLog(j) \/ Ends(j) \/ Abandon(j)
      PROVE  Resolved(j)'
  <2>1. pc'[j] \in {"idle", "next", "fetch"}
    <3>1. CASE Between(j)
      BY <3>1, BetweenFrame DEF InStep
    <3>2. CASE OpenLog(j)
      BY <3>2, IdleFrame
    <3>3. CASE Ends(j)
      BY <3>3, EndsFrame
    <3>4. CASE Abandon(j)
      BY <3>4, AbandonFrame
    <3> QED
      BY <1>5, <3>1, <3>2, <3>3, <3>4
  <2> QED
    BY <2>1 DEF Resolved, InStep
<1>6. CASE NextDay \/ UNCHANGED vars
  <2>1. UNCHANGED <<dims, pc, plan, acct, txn>>
    BY <1>6 DEF NextDay, vars, dbVars, jobVars
  <2> QED
    BY <2>1 DEF Resolved, InStep, Step, Key
<1>7. ASSUME NEW j \in Jobs, Inside(j) \/ Between(j) \/ OpenLog(j) \/ Ends(j) \/ Abandon(j)
      PROVE  Resolved(j)'
  BY <1>2, <1>3, <1>4, <1>5, <1>7, InsideCases DEF Early
<1> QED
  BY <1>1, <1>6, <1>7, NextCases

LEMMA ParentsStep ==
  ASSUME Typed, \A i \in Jobs : Resolved(i), ParentsKnown, [Next]_vars
  PROVE  ParentsKnown'
<1> USE DEF Typed, TypeOK
<1>1. ASSUME NEW s \in snaps, s \in snaps', NEW t \in Needs(s.step)
      PROVE  <<s.acct, s.id>> \in dims'[t]
  <2>1. s.step \in Steps
    BY DEF SnapRows, Steps, SnapSteps
  <2> QED
    BY <2>1, NeedsTables, DimsGrow DEF ParentsKnown
<1>2. ASSUME NEW j \in Jobs, Commit(j), NEW s \in Fresh(j), NEW t \in Needs(s.step)
      PROVE  <<s.acct, s.id>> \in dims'[t]
  <2>1. PICK row \in txn[j].rows : s.step = Step(j) /\ s.acct = acct[j] /\ s.id = row.id
    <3> DEFINE rows == IF Step(j) \in SnapSteps THEN txn[j].rows ELSE {}
    <3>1. PICK row \in rows :
            s = [step |-> Step(j), acct |-> acct[j], id |-> row.id, day |-> row.day,
                 log |-> LogId(j)]
      BY <1>2 DEF Fresh
    <3>2. s.step = Step(j) /\ s.acct = acct[j] /\ s.id = row.id
      BY <3>1
    <3>3. row \in txn[j].rows
      BY <3>1
    <3> QED
      BY <3>2, <3>3
  <2>2. InStep(j) /\ pc[j] = "commit"
    BY <1>2 DEF Commit, InStep
  <2>3. <<s.acct, s.id>> \in dims[t]
    BY <1>2, <2>1, <2>2 DEF Resolved, Key
  <2>4. Step(j) \in Steps
    BY <2>2 DEF StepLogged
  <2> QED
    BY <1>2, <2>1, <2>3, <2>4, NeedsTables, DimsGrow
<1>3. ASSUME NEW j \in Jobs, Commit(j) PROVE ParentsKnown'
  <2>1. snaps' \subseteq snaps \cup Fresh(j)
    BY <1>3 DEF Commit
  <2> QED
    BY <1>1, <1>2, <1>3, <2>1 DEF ParentsKnown
<1>4. ASSUME NEW j \in Jobs,
             Inside(j) \/ Between(j) \/ Abandon(j) \/ OpenLog(j) \/ MarkFailed(j)
      PROVE  ParentsKnown'
  <2>1. snaps' = snaps
    BY <1>4, LogFrame, OpenedRow DEF MarkFailed
  <2> QED
    BY <1>1, <2>1 DEF ParentsKnown
<1>5. CASE NextDay \/ UNCHANGED vars
  BY <1>5 DEF NextDay, vars, dbVars, ParentsKnown
<1> QED
  BY <1>3, <1>4, <1>5, NextCases DEF Ends

\* Every snapshot row points at dimension rows that exist: what google_id_to_pk looked up
\* before other jobs committed still holds when the step commits, for the committed
\* dimension tables only grow.
THEOREM ParentsStay == Spec => []ParentsKnown
<1> DEFINE Inv == Typed /\ (\A i \in Jobs : Resolved(i)) /\ ParentsKnown
<1>1. Init => Inv
  BY InitInv DEF SyncInv, Typed, Init, Resolved, InStep, ParentsKnown
<1>2. Inv /\ [Next]_vars => Inv'
  <2> SUFFICES ASSUME Inv, [Next]_vars PROVE Inv'
    OBVIOUS
  <2>1. Typed'
    BY TypeStep, StepLoggedStep DEF Typed
  <2>2. \A i \in Jobs : Resolved(i)'
    BY <2>1, ResolvedStep DEF Typed
  <2> QED
    BY <2>1, <2>2, ParentsStep
<1>3. Inv => ParentsKnown
  OBVIOUS
<1> HIDE DEF Inv
<1> QED
  BY <1>1, <1>2, <1>3, PTL DEF Spec

-----------------------------------------------------------------------------
(* The order of a full sync.                                               *)

\* The steps of a full sync, written out.
FullPlan == StepsFor("all", FALSE)

LEMMA FullPlanOrder ==
  /\ Len(FullPlan) = 14
  /\ FullPlan[1] = "budgets" /\ FullPlan[2] = "budget_snapshots"
  /\ FullPlan[3] = "campaigns" /\ FullPlan[4] = "campaign_snapshots"
  /\ FullPlan[5] = "campaign_device_snapshots"
  /\ FullPlan[6] = "campaign_geo_snapshots"
  /\ FullPlan[7] = "ad_groups" /\ FullPlan[8] = "ad_group_snapshots"
  /\ FullPlan[9] = "keywords" /\ FullPlan[10] = "keyword_snapshots"
  /\ FullPlan[11] = "ads" /\ FullPlan[12] = "ad_snapshots"
  /\ FullPlan[13] = "search_terms" /\ FullPlan[14] = "recommendations"
<1>1. \A name : Build(name, FALSE) = Dims(name) \o Snaps(name)
  BY DEF Build
<1>2. /\ Dims("budgets") = <<"budgets">> /\ Dims("campaigns") = <<"campaigns">>
      /\ Dims("ad_groups") = <<"ad_groups">> /\ Dims("keywords") = <<"keywords">>
      /\ Dims("ads") = <<"ads">> /\ Dims("search_terms") = <<>>
      /\ Dims("recommendations") = <<>>
  BY DEF Dims, DimSteps
<1>3. /\ Snaps("budgets") = <<"budget_snapshots">>
      /\ Snaps("campaigns") = <<"campaign_snapshots", "campaign_device_snapshots",
                                "campaign_geo_snapshots">>
      /\ Snaps("ad_groups") = <<"ad_group_snapshots">>
      /\ Snaps("keywords") = <<"keyword_snapshots">>
      /\ Snaps("ads") = <<"ad_snapshots">>
      /\ Snaps("search_terms") = <<"search_terms">>
      /\ Snaps("recommendations") = <<"recommendations">>
  BY DEF Snaps
<1>4. FullPlan =
        (<<"budgets">> \o <<"budget_snapshots">>)
          \o (<<"campaigns">> \o <<"campaign_snapshots", "campaign_device_snapshots",
                                   "campaign_geo_snapshots">>)
          \o (<<"ad_groups">> \o <<"ad_group_snapshots">>)
          \o (<<"keywords">> \o <<"keyword_snapshots">>)
          \o (<<"ads">> \o <<"ad_snapshots">>)
          \o (<<>> \o <<"search_terms">>) \o (<<>> \o <<"recommendations">>)
  BY <1>1, <1>2, <1>3 DEF FullPlan, StepsFor
<1> QED
  BY <1>4

\* Each parent table of a step comes before it.
LEMMA FullPlanParents ==
  \A d \in 0..13 : \A t \in Needs(FullPlan[d + 1]) : \E k \in 1..d : FullPlan[k] = t
<1>2. ASSUME NEW d \in 0..13, NEW t \in Needs(FullPlan[d + 1])
      PROVE  \E k \in 1..d : FullPlan[k] = t
  <2> DEFINE step == FullPlan[d + 1]
  <2>1. \/ step \in {"budgets", "campaigns", "recommendations"}
        \/ step = "budget_snapshots" /\ d > 0
        \/ /\ step \in {"ad_groups", "campaign_snapshots", "campaign_device_snapshots",
                        "campaign_geo_snapshots"}
           /\ d > 2
        \/ step \in {"keywords", "ads", "ad_group_snapshots", "search_terms"} /\ d > 6
        \/ step = "keyword_snapshots" /\ d > 8
        \/ step = "ad_snapshots" /\ d > 10
    BY FullPlanOrder
  <2>2. t \in Needs(step)
    BY <1>2
  <2> HIDE DEF step
  <2>3. \/ t = "budgets" /\ d > 0 /\ step = "budget_snapshots"
        \/ t = "campaigns" /\ d > 2
        \/ t = "ad_groups" /\ d > 6
        \/ t = "keywords" /\ d > 8
        \/ t = "ads" /\ d > 10
    BY <2>1, <2>2 DEF Needs
  <2> QED
    BY <2>3, FullPlanOrder
<1> QED
  BY <1>2

\* The steps of an opening plan: account discovery and target resolution.
Preliminary == {"accounts", "resolve"}

\* Job j has synced table t for the account it is working on, in this invocation.
Synced(j, t) ==
  \E n \in Closed(j) : logs[j][n].step = t /\ logs[j][n].acct = acct[j]

\* The inductive invariant of ParentsSyncedFirst: in a full sync the steps left are the
\* preliminary ones, or those of the full plan after the first d, which were synced.
Ordered(j) ==
  pc[j] # "idle" /\ req[j].entity = "all" /\ ~req[j].backfill =>
    \/ \A k \in 1..Len(plan[j]) : plan[j][k] \in Preliminary
    \/ \E d \in 0..14 :
         /\ Len(plan[j]) = 14 - d
         /\ \A k \in 1..Len(plan[j]) : plan[j][k] = FullPlan[d + k]
         /\ \A k \in 1..d : Synced(j, FullPlan[k])

LEMMA OrderedInit == Init => \A j \in Jobs : Ordered(j)
  BY DEF Init, Ordered

\* Jobs that do not move, or move inside a step, stay ordered.
LEMMA OrderedFrame ==
  ASSUME NEW i, Ordered(i), InStep(i)' = InStep(i), pc'[i] # "idle" => pc[i] # "idle",
         UNCHANGED <<req[i], acct[i], plan[i], logs[i], first[i]>>
  PROVE  Ordered(i)'
  BY DEF Ordered, Synced, Closed

\* Opening a log row and closing it keep what was synced, closing adds the step.
LEMMA SyncedKept ==
  ASSUME Typed, NEW j \in Jobs, Honest(j), OpenLog(j) \/ Ends(j), NEW t, Synced(j, t)
  PROVE  Synced(j, t)'
<1>1. PICK n \in Closed(j) : logs[j][n].step = t /\ logs[j][n].acct = acct[j]
  BY DEF Synced
<1>2. first[j] \in Nat /\ Len(logs[j]) \in Nat /\ DOMAIN logs[j] = 1..Len(logs[j])
  BY LenProperties DEF Typed, TypeOK
<1>3. CASE OpenLog(j)
  <2>1. pc[j] = "next" /\ pc'[j] = "fetch" /\ UNCHANGED <<first, acct>>
    BY <1>3 DEF OpenLog, Typed, TypeOK
  <2>2. Len(logs'[j]) = Len(logs[j]) + 1 /\ \A m \in 1..Len(logs[j]) : logs'[j][m] = logs[j][m]
    BY <1>3, OpenedRow
  <2>3. Closed(j)' = Closed(j) /\ n \in 1..Len(logs[j])
    BY <1>1, <1>2, <2>1, <2>2 DEF Closed, InStep
  <2>4. logs'[j][n] = logs[j][n]
    BY <2>2, <2>3
  <2> QED
    BY <1>1, <2>1, <2>3, <2>4 DEF Synced
<1>4. CASE Ends(j)
  <2>1. PICK status \in Final : Close(j, status) /\ InStep(j)
    BY <1>4, EndsClose DEF Typed
  <2>2. pc'[j] = "next" /\ UNCHANGED <<first, acct>>
    BY <2>1 DEF Close, Typed, TypeOK
  <2>3. n \in first[j] + 1 .. Len(logs[j]) - 1
    BY <1>1, <2>1 DEF Closed
  <2>4. /\ Len(logs'[j]) = Len(logs[j])
        /\ \A m \in DOMAIN logs[j] \ {Len(logs[j])} : logs'[j][m] = logs[j][m]
    BY <2>1, EndedRow
  <2>5. n \in DOMAIN logs[j] \ {Len(logs[j])}
    BY <1>2, <2>3
  <2>6. logs'[j][n] = logs[j][n]
    BY <2>4, <2>5
  <2>7. n \in Closed(j)'
    BY <1>2, <2>2, <2>3, <2>4 DEF Closed, InStep
  <2> QED
    BY <1>1, <2>2, <2>6, <2>7 DEF Synced
<1> QED
  BY <1>3, <1>4

LEMMA SyncedAdded ==
  ASSUME Typed, NEW j \in Jobs, Honest(j), Ends(j), NEW t, t = Step(j)
  PROVE  Synced(j, t)'
<1> USE DEF Typed, TypeOK
<1>1. PICK status \in Final : Close(j, status) /\ InStep(j)
  BY EndsClose
<1>2. /\ logs[j][Len(logs[j])] =
           [step |-> Step(j), acct |-> acct[j], status |-> "running"]
      /\ first[j] \in Nat /\ first[j] < Len(logs[j]) /\ Len(logs[j]) \in Nat
  BY <1>1, LenProperties DEF StepLogged, Honest, InStep
<1>3. /\ logs'[j][Len(logs[j])].step = Step(j)
      /\ logs'[j][Len(logs[j])].acct = acct[j]
  <2> DEFINE n == Len(logs[j])
  <2>1. n \in DOMAIN logs[j]
    BY <1>2, LenProperties
  <2>2. logs' = [logs EXCEPT ![j] = [logs[j] EXCEPT ![n] =
                                       [logs[j][n] EXCEPT !.status = status]]]
    BY <1>1 DEF Close
  <2>3. logs'[j][n] = [logs[j][n] EXCEPT !.status = status]
    BY <2>1, <2>2
  <2> QED
    BY <1>2, <2>3
<1>4. Len(logs'[j]) = Len(logs[j]) /\ pc'[j] = "next" /\ UNCHANGED <<first, acct>>
  BY <1>1, EndedRow DEF Close
<1>5. Len(logs[j]) \in Closed(j)'
  BY <1>2, <1>4 DEF Closed, InStep
<1> QED
  BY <1>3, <1>4, <1>5 DEF Synced

LEMMA OrderedStep ==
  ASSUME Typed, \A i \in Jobs : Honest(i) /\ Ordered(i), [Next]_vars
  PROVE  \A i \in Jobs : Ordered(i)'
<1> USE DEF Typed, TypeOK
<1>1. ASSUME NEW j \in Jobs, Inside(j) PROVE \A i \in Jobs : Ordered(i)'
  <2>1. \A i \in Jobs : UNCHANGED <<req[i], acct[i], plan[i], logs[i], first[i]>>
    BY <1>1 DEF Inside, Fetch, MapRows, SelectRow, InsertRow, Scan, Write, DeadlockVictim,
                StepFails, dbVars
  <2>2. \A i \in Jobs : InStep(i)' = InStep(i) /\ (pc'[i] # "idle" => pc[i] # "idle")
    BY <1>1, InsideStays
  <2> QED
    BY <2>1, <2>2, OrderedFrame
<1>2. ASSUME NEW j \in Jobs, Between(j) \/ OpenLog(j) \/ Ends(j) \/ Abandon(j),
             NEW i \in Jobs \ {j}
      PROVE  Ordered(i)'
  <2>1. pc'[i] = pc[i] /\ acct'[i] = acct[i] /\ plan'[i] = plan[i]
    BY <1>2, IdleFrame
  <2>2. req'[i] = req[i] /\ first'[i] = first[i]
    BY <1>2 DEF Between, Begin, CreateAccount, PlanAccounts, NextAccount, Finish, OpenLog,
                Ends, Commit, MarkFailed, Close, Abandon, jobVars
  <2>3. logs'[i] = logs[i]
    <3>1. CASE Between(j) \/ Abandon(j)
      BY <3>1, LogFrame
    <3>2. CASE OpenLog(j)
      BY <3>2, OpenedRow
    <3>3. CASE Ends(j)
      BY <3>3, EndsClose, EndedRow
    <3> QED
      BY <1>2, <3>1, <3>2, <3>3
  <2> QED
    BY <2>1, <2>2, <2>3, OrderedFrame DEF InStep
<1>3. ASSUME NEW j \in Jobs, Begin(j) PROVE Ordered(j)'
  <2>1. PICK r \in Requests : plan' = [plan EXCEPT ![j] = OpeningPlan(r)]
    BY <1>3 DEF Begin
  <2>2. \A k \in 1..Len(OpeningPlan(r)) : OpeningPlan(r)[k] \in Preliminary
    BY DEF OpeningPlan, Preliminary
  <2> QED
    BY <2>1, <2>2 DEF Ordered
<1>4. ASSUME NEW j \in Jobs, CreateAccount(j) PROVE Ordered(j)'
  BY <1>4, OrderedFrame DEF CreateAccount, jobVars, InStep
<1>5. ASSUME NEW j \in Jobs, PlanAccounts(j) PROVE Ordered(j)'
  <2>1. plan'[j] = <<>>
    BY <1>5 DEF PlanAccounts
  <2> QED
    BY <2>1 DEF Ordered
<1>6. ASSUME NEW j \in Jobs, NextAccount(j) PROVE Ordered(j)'
  <2>1. req' = req /\ plan'[j] = StepsFor(req[j].entity, req[j].backfill)
    BY <1>6 DEF NextAccount
  <2>2. req[j].backfill \in BOOLEAN
    BY RequestsAssumption DEF RequestType
  <2>3. CASE req[j].entity = "all" /\ ~req[j].backfill
    <3>1. plan'[j] = FullPlan
      BY <2>1, <2>2, <2>3 DEF FullPlan
    <3>2. \A k \in 1..Len(FullPlan) : FullPlan[k] = FullPlan[0 + k]
      BY FullPlanOrder
    <3> QED
      BY <3>1, <3>2, FullPlanOrder DEF Ordered
  <2> QED
    BY <2>1, <2>3 DEF Ordered
<1>7. ASSUME NEW j \in Jobs, Finish(j) \/ Abandon(j) PROVE Ordered(j)'
  BY <1>7 DEF Finish, Abandon, Ordered
<1>8. ASSUME NEW j \in Jobs, OpenLog(j) PROVE Ordered(j)'
  <2>1. pc[j] # "idle" /\ UNCHANGED <<req, acct, plan>>
    BY <1>8 DEF OpenLog
  <2>2. \A t : Synced(j, t) => Synced(j, t)'
    BY <1>8, SyncedKept
  <2> QED
    BY <2>1, <2>2 DEF Ordered
<1>9. ASSUME NEW j \in Jobs, Ends(j) PROVE Ordered(j)'
  <2>1. /\ pc[j] # "idle" /\ plan[j] # <<>> /\ plan[j] \in Seq(Steps \cup {"resolve"})
        /\ plan'[j] = Tail(plan[j]) /\ acct' = acct /\ req' = req
    <3>1. InStep(j) /\ plan'[j] = Tail(plan[j]) /\ acct' = acct
      BY <1>9, EndsFrame
    <3>2. req' = req
      BY <1>9, EndsClose DEF Close
    <3> QED
      BY <3>1, <3>2 DEF StepLogged, InStep
  <2>2. \A t : Synced(j, t) => Synced(j, t)'
    BY <1>9, SyncedKept
  <2>3. \A t : t = plan[j][1] => Synced(j, t)'
    <3>1. Step(j) = plan[j][1]
      BY <2>1, HeadTailProperties DEF Step
    <3> QED
      BY <1>9, <3>1, SyncedAdded
  <2>4. /\ Len(plan[j]) \in Nat /\ Len(plan[j]) > 0 /\ Len(plan'[j]) = Len(plan[j]) - 1
        /\ \A k \in 1..Len(plan'[j]) : plan'[j][k] = plan[j][k + 1]
    BY <2>1
  <2> SUFFICES ASSUME req[j].entity = "all", ~req[j].backfill
               PROVE  \/ \A k \in 1..Len(plan'[j]) : plan'[j][k] \in Preliminary
                      \/ \E d \in 0..14 :
                           /\ Len(plan'[j]) = 14 - d
                           /\ \A k \in 1..Len(plan'[j]) : plan'[j][k] = FullPlan[d + k]
                           /\ \A k \in 1..d : Synced(j, FullPlan[k])'
    BY <2>1 DEF Ordered
  <2>5. CASE \A k \in 1..Len(plan[j]) : plan[j][k] \in Preliminary
    <3>1. \A k \in 1..Len(plan'[j]) : k + 1 \in 1..Len(plan[j])
      BY <2>4
    <3> QED
      BY <2>4, <2>5, <3>1
  <2>6. ASSUME NEW d \in 0..14,
               Len(plan[j]) = 14 - d,
               \A k \in 1..Len(plan[j]) : plan[j][k] = FullPlan[d + k],
               \A k \in 1..d : Synced(j, FullPlan[k])
        PROVE  /\ d + 1 \in 0..14 /\ Len(plan'[j]) = 14 - (d + 1)
               /\ \A k \in 1..Len(plan'[j]) : plan'[j][k] = FullPlan[(d + 1) + k]
               /\ \A k \in 1..(d + 1) : Synced(j, FullPlan[k])'
    <3>1. d + 1 \in 0..14 /\ Len(plan'[j]) = 14 - (d + 1)
      BY <2>4, <2>6
    <3>2. \A k \in 1..Len(plan'[j]) : plan'[j][k] = FullPlan[(d + 1) + k]
      <4> SUFFICES ASSUME NEW k \in 1..Len(plan'[j]) PROVE plan'[j][k] = FullPlan[(d + 1) + k]
        OBVIOUS
      <4>1. plan'[j][k] = plan[j][k + 1] /\ k + 1 \in 1..Len(plan[j])
        BY <2>4
      <4>2. d + (k + 1) = (d + 1) + k
        OBVIOUS
      <4> QED
        BY <2>6, <4>1, <4>2
    <3>3. plan[j][1] = FullPlan[d + 1]
      BY <2>4, <2>6
    <3> QED
      <4>1. Synced(j, FullPlan[d + 1])'
        BY <2>3, <3>3
      <4>2. \A k \in 1..(d + 1) : k \in 1..d \/ k = d + 1
        OBVIOUS
      <4> QED
        BY <2>2, <2>6, <3>1, <3>2, <4>1, <4>2
  <2> QED
    BY <2>1, <2>5, <2>6 DEF Ordered
<1>10. CASE NextDay \/ UNCHANGED vars
  BY <1>10, OrderedFrame DEF NextDay, vars, dbVars, jobVars, InStep
<1> QED
  BY <1>1, <1>2, <1>3, <1>4, <1>5, <1>6, <1>7, <1>8, <1>9, <1>10, NextCases DEF Between

\* In a full sync every parent table has been synced, for the same account and in the same
\* invocation, before a step looks its rows up in it: the order of _steps_for, kept over
\* failed steps and over accounts.
THEOREM ParentsFirst == Spec => []ParentsSyncedFirst
<1> DEFINE Inv == \A i \in Jobs : Honest(i) /\ Ordered(i)
<1>1. Init => Inv
  BY OrderedInit DEF Init, Honest
<1>2. Typed /\ Inv /\ [Next]_vars => Inv'
  BY HonestStep, OrderedStep
<1>3. Typed /\ Inv => ParentsSyncedFirst
  <2> SUFFICES ASSUME Typed, NEW j \in Jobs, Ordered(j), pc[j] = "map",
                      req[j].entity = "all", ~req[j].backfill, NEW t \in Needs(Step(j))
               PROVE  Synced(j, t)
    BY DEF ParentsSyncedFirst, Synced, Closed, InStep
  <2>1. plan[j] # <<>> /\ plan[j] \in Seq(Steps \cup {"resolve"}) /\ Step(j) = plan[j][1]
    <3>1. plan[j] # <<>> /\ plan[j] \in Seq(Steps \cup {"resolve"})
      BY DEF Typed, TypeOK, StepLogged, InStep
    <3> QED
      BY <3>1, HeadTailProperties DEF Step
  <2>2. 1 \in 1..Len(plan[j])
    BY <2>1
  <2>3. CASE \A k \in 1..Len(plan[j]) : plan[j][k] \in Preliminary
    BY <2>1, <2>2, <2>3 DEF Preliminary, Needs
  <2>4. ASSUME NEW d \in 0..14, Len(plan[j]) = 14 - d,
               \A k \in 1..Len(plan[j]) : plan[j][k] = FullPlan[d + k],
               \A k \in 1..d : Synced(j, FullPlan[k])
        PROVE  Synced(j, t)
    <3>1. Step(j) = FullPlan[d + 1] /\ d \in 0..13
      BY <2>1, <2>2, <2>4
    <3> QED
      BY <2>4, <3>1, FullPlanParents
  <2> QED
    BY <2>3, <2>4 DEF Ordered
<1> HIDE DEF Inv
<1> QED
  BY <1>1, <1>2, <1>3, Typing, PTL DEF Spec, Typed

-----------------------------------------------------------------------------
(* One job at a time, as the readers of the snapshot tables see it.        *)

\* The windows lie inside the calendar of the ledger.
InCalendar ==
  /\ today \in FirstDay..LastDay
  /\ \A j \in Jobs : win[j].start \in 0..LastDay /\ win[j].end \in 0..LastDay

CalendarHolds ==
  /\ FirstDay \in 1..LastDay
  /\ \A r \in Requests :
       r.start \in 0..LastDay /\ r.end \in 0..LastDay /\ r.lookback <= FirstDay

LEMMA DefaultInCalendar ==
  ASSUME CalendarHolds, NEW day \in FirstDay..LastDay, NEW n \in Nat, n <= FirstDay
  PROVE  /\ DefaultWindow(day, n).start \in 0..LastDay
         /\ DefaultWindow(day, n).end \in 0..LastDay
  BY CalendarAssumption DEF DefaultWindow, CalendarHolds

LEMMA CalendarStep ==
  ASSUME CalendarHolds, Typed, InCalendar, [Next]_vars
  PROVE  InCalendar'
<1> USE DEF Typed, TypeOK
<1>1. ASSUME NEW j \in Jobs, PlanAccounts(j) PROVE InCalendar'
  <2> DEFINE w == IF req[j].backfill THEN [start |-> req[j].start, end |-> req[j].end]
                  ELSE DefaultWindow(today, req[j].lookback)
  <2>1. win' = [win EXCEPT ![j] = w] /\ today' = today
    BY <1>1 DEF PlanAccounts
  <2>2. /\ req[j] \in Requests /\ req[j].lookback \in Nat
    BY RequestsAssumption DEF RequestType
  <2>3. w.start \in 0..LastDay /\ w.end \in 0..LastDay
    <3>1. CASE req[j].backfill
      BY <2>2, <3>1 DEF CalendarHolds
    <3>2. CASE ~req[j].backfill
      BY <2>2, <3>2, DefaultInCalendar DEF CalendarHolds, InCalendar
    <3> QED
      BY <3>1, <3>2
  <2> HIDE DEF w
  <2> QED
    BY <2>1, <2>3 DEF InCalendar
<1>2. ASSUME NEW j \in Jobs,
             \/ Begin(j) \/ CreateAccount(j) \/ NextAccount(j) \/ Finish(j)
             \/ Inside(j) \/ OpenLog(j) \/ Ends(j) \/ Abandon(j)
      PROVE  UNCHANGED <<win, today>>
  <2>1. CASE Inside(j)
    BY <2>1, InsideFrame
  <2>2. CASE Ends(j)
    BY <2>2, EndsClose DEF Close
  <2> QED
    BY <1>2, <2>1, <2>2 DEF Begin, CreateAccount, NextAccount, Finish, OpenLog, Abandon, jobVars
<1>3. CASE NextDay
  BY <1>3, CalendarAssumption DEF NextDay, jobVars, InCalendar
<1>4. CASE UNCHANGED vars
  BY <1>4 DEF vars, jobVars, InCalendar
<1> QED
  BY <1>1, <1>2, <1>3, <1>4, NextCases DEF Between, InCalendar

\* A commit is one atomic replacement of a window, or adds rows and removes none.
LEMMA CommitMaps ==
  ASSUME SyncInv, clash = {}, InCalendar, NEW j \in Jobs, Commit(j)
  PROVE  Ledger!Replace(j) \/ Ledger!Add(j)
<1> USE DEF SyncInv, TypeOK
<1>1. /\ pc[j] = "commit" /\ InStep(j)
      /\ snaps' = (snaps \ txn[j].gone) \cup Fresh(j)
  BY DEF Commit, InStep
<1>2. /\ logs[j] # <<>> /\ Step(j) \in Steps
      /\ Ledger!Last(j) = [step |-> Step(j), acct |-> acct[j], status |-> "running"]
  BY <1>1 DEF StepLogged, Ledger!Last
<1>3. Ledger!End(j, {"success", "partial"})
  <2>1. PICK status \in {"success", "partial"} : Close(j, status)
    BY DEF Commit
  <2>2. Ledger!Last(j).status = "running" /\ logs[j] # <<>>
    BY <1>2
  <2>3. logs' = [logs EXCEPT ![j][Len(logs[j])].status = status]
    BY <2>1 DEF Close
  <2> QED
    BY <2>2, <2>3 DEF Ledger!End
<1>4. \A s \in Fresh(j) :
        /\ s.step = Step(j) /\ s.acct = acct[j] /\ s.log = <<j, Len(logs[j])>>
  BY DEF Fresh, LogId
<1>5. Fresh(j) \cap snaps = {}
  <2> SUFFICES ASSUME NEW s \in Fresh(j), s \in snaps PROVE FALSE
    OBVIOUS
  <2>1. s.log[1] = j /\ s.log[2] = Len(logs[j])
    BY <1>4
  <2>2. logs[j][Len(logs[j])].status \in {"success", "partial"}
    BY <2>1 DEF Lineage
  <2> QED
    BY <1>2, <2>2 DEF Ledger!Last
<1>6. Ledger!Added = Fresh(j)
  BY <1>1, <1>5 DEF Ledger!Added
<1>7. Ledger!Own(j)
  BY <1>2, <1>4, <1>6 DEF Ledger!Own
<1>8. CASE Step(j) \in WindowSteps
  <2> DEFINE from == win[j].start
             to   == win[j].end
  <2>1. txn[j].gone = {s \in snaps : InTarget(j, s)}
    BY <1>1, <1>8 DEF WindowHeld, Replacing
  <2>2. \A s : Ledger!InWindow(j, s, from, to) <=> InTarget(j, s)
    BY <1>2 DEF Ledger!InWindow, InTarget
  <2>3. snaps \cap snaps' = {s \in snaps : ~Ledger!InWindow(j, s, from, to)}
    BY <1>1, <1>5, <2>1, <2>2
  <2>4. \A s \in Fresh(j) : s.day \in from..to
    <3>1. \A row \in txn[j].rows : row.day \in from..to
      BY <1>1, <1>8 DEF RowsInWindow
    <3>2. Step(j) \in SnapSteps
      BY <1>8, StepKinds
    <3> QED
      BY <3>1, <3>2 DEF Fresh
  <2>5. \A s \in Ledger!Added : Ledger!InWindow(j, s, from, to)
    BY <1>4, <1>6, <2>2, <2>4 DEF InTarget
  <2>6. \A r, s \in Ledger!Added : r.id = s.id /\ r.day = s.day => r = s
    BY <1>6 DEF Fresh
  <2>7. from \in 0..LastDay /\ to \in 0..LastDay
    BY DEF InCalendar
  <2>8. Ledger!Last(j).step \in WindowSteps
    BY <1>2, <1>8
  <2> HIDE DEF from, to
  <2> QED
    BY <1>3, <1>7, <2>3, <2>5, <2>6, <2>7, <2>8 DEF Ledger!Replace
<1>9. CASE Step(j) \notin WindowSteps
  <2>1. txn[j].gone = {}
    BY <1>1, <1>9 DEF HeldRows, Replacing
  <2>2. Ledger!Last(j).step \notin WindowSteps /\ snaps \subseteq snaps'
    BY <1>1, <1>2, <1>9, <2>1
  <2> QED
    BY <1>3, <1>7, <2>2 DEF Ledger!Add
<1> QED
  BY <1>8, <1>9

LEMMA LedgerStep ==
  ASSUME SyncInv, clash = {}, InCalendar, [Next]_vars
  PROVE  [Ledger!Next]_<<snaps, logs>>
<1>0. Typed
  BY DEF SyncInv, Typed
<1>1. ASSUME NEW j \in Jobs, Inside(j) \/ Between(j) \/ Abandon(j)
      PROVE  UNCHANGED <<snaps, logs>>
  BY <1>0, <1>1, LogFrame
<1>2. ASSUME NEW j \in Jobs, OpenLog(j) PROVE Ledger!Open(j)
  <2>1. plan[j] # <<>> /\ plan[j] \in Seq(Steps \cup {"resolve"}) /\ Step(j) # "resolve"
    BY <1>0, <1>2 DEF OpenLog, Typed, TypeOK
  <2>2. Step(j) \in Steps /\ acct[j] \in Accounts
    BY <1>0, <2>1, HeadTailProperties DEF Step, Typed, TypeOK
  <2> QED
    BY <1>2, <2>2 DEF OpenLog, Ledger!Open
<1>3. ASSUME NEW j \in Jobs, MarkFailed(j) PROVE Ledger!Fail(j)
  <2>1. InStep(j) /\ Close(j, "failed") /\ snaps' = snaps
    BY <1>3 DEF MarkFailed, InStep
  <2>2. logs[j] # <<>> /\ logs[j][Len(logs[j])].status = "running"
    <3>1. logs[j] # <<>> /\ logs[j][Len(logs[j])] =
             [step |-> Step(j), acct |-> acct[j], status |-> "running"]
      BY <1>0, <2>1 DEF Typed, StepLogged
    <3> QED
      BY <3>1
  <2> QED
    BY <2>1, <2>2 DEF Close, Ledger!Fail, Ledger!End, Ledger!Last
<1>4. CASE NextDay \/ UNCHANGED vars
  BY <1>4 DEF NextDay, vars, dbVars
<1> QED
  BY <1>1, <1>2, <1>3, <1>4, CommitMaps, NextCases DEF Ends, Ledger!Next

\* With one job at a time the engine implements the ledger: to readers each step is one
\* atomic replacement of a window of one table and account, an addition, or nothing.
THEOREM SerialLedger ==
  ASSUME \A i, j \in Jobs : i = j, CalendarHolds
  PROVE  Spec => RefinesLedger
<1> DEFINE Inv == SyncInv /\ clash = {} /\ InCalendar
<1>1. Init => Inv
  <2>1. Init => clash = {}
    BY DEF Init
  <2>2. Init => InCalendar
    <3> SUFFICES ASSUME Init PROVE InCalendar
      OBVIOUS
    <3>1. FirstDay \in FirstDay..LastDay /\ 1 <= FirstDay
      BY CalendarAssumption DEF CalendarHolds
    <3> QED
      BY <3>1, DefaultInCalendar DEF Init, InCalendar
  <2> QED
    BY <2>1, <2>2, InitInv
<1>2. Inv /\ [Next]_vars => Inv'
  BY SyncStep, NoClashStep, CalendarStep DEF SyncInv, Typed
<1>3. Inv /\ [Next]_vars => [Ledger!Next]_<<snaps, logs>>
  BY LedgerStep
<1>4. Init => Ledger!Init
  BY DEF Init, Ledger!Init
<1> HIDE DEF Inv
<1> QED
  BY <1>1, <1>2, <1>3, <1>4, PTL DEF Spec, RefinesLedger, Ledger!Spec

=============================================================================
