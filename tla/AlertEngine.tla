---------------------------- MODULE AlertEngine ----------------------------
(***************************************************************************)
(* AlertsService and AlertRepository: requests that evaluate the alert     *)
(* conditions (of every account, or of one) and requests by which a        *)
(* manager sets the status of an alert, served by concurrent sessions.     *)
(*                                                                         *)
(* An alert is identified by its dedupe key <<account, signal>>.  A flush  *)
(* writes only the columns whose value differs from the one the session    *)
(* has loaded; a written row stays locked until its session ends.          *)
(***************************************************************************)
EXTENDS Naturals, FiniteSets

CONSTANTS
  Sessions,    \* threads that serve requests
  Accounts,    \* accounts with campaigns
  Nobody,      \* the account part of a key that names no account
  Signals,     \* conditions evaluated for a campaign of an account
  Scopes,      \* the scopes evaluated: accounts, or Nobody for all of them
  Patches,     \* the statuses managers set
  MaxChanges   \* bound: changes of a condition, and requests by managers

ASSUME NobodyAssumption  == Nobody \notin Accounts
ASSUME ScopesAssumption  == Scopes \subseteq Accounts \cup {Nobody}
ASSUME SignalsAssumption == {"spike", "sync"} \cap Signals = {}
ASSUME PatchesAssumption == Patches \subseteq {"open", "resolved", "dismissed"}
ASSUME BoundAssumption   == MaxChanges \in Nat

VARIABLES
  alerts,   \* alerts[k]: the committed alert of key k, or None
  cond,     \* the keys whose condition holds in the synced data
  pc,       \* pc[s]: where session s is
  scope,    \* scope[s]: the scope it evaluates
  todo,     \* todo[s]: keys found firing and not emitted yet
  active,   \* active[s]: active_keys
  cur,      \* cur[s]: the key whose row it has loaded, to write it next
  row,      \* row[s]: that row as loaded
  sweep,    \* sweep[s]: keys selected for auto-resolution and not written yet
  draft,    \* draft[s]: the rows it has written, uncommitted
  wish,     \* wish[s]: the status a manager sets
  changes,  \* history: changes of conditions and manager requests so far
  held,     \* history: held[s], the keys whose condition has held since s began
  muted     \* history: muted[s], the keys that are dismissed since s began

jobVars == <<pc, scope, todo, active, cur, row, sweep, draft, wish>>
vars    == <<alerts, cond, jobVars, changes, held, muted>>

-----------------------------------------------------------------------------
Statuses == {"open", "resolved", "dismissed"}
None     == [status |-> "none", stamped |-> FALSE]
\* stamped: resolved_at is set
Alerts   == [status: Statuses, stamped: BOOLEAN]

\* Campaign signals of an account, the spike of new search terms of an evaluated
\* scope, and the failure of the latest sync: its key names that sync, so every sync
\* that fails while it is the latest has an alert of its own.
CampaignKeys == Accounts \X Signals
SpikeKeys    == Scopes \X {"spike"}
SyncKeys     == {<<Nobody, "sync", id>> : id \in 1..MaxChanges}
Keys         == CampaignKeys \cup SpikeKeys \cup SyncKeys

NoKey  == <<Nobody, "none">>
Phases == {"idle", "emit", "save", "tail", "resolve", "patch"}

\* The campaign keys an evaluation of scope a looks at.
InScope(a) == {k \in CampaignKeys : a = Nobody \/ k[1] = a}

\* What session s sees of key k: its own write, else what is committed.
Seen(s, k) == IF k \in DOMAIN draft[s] THEN draft[s][k] ELSE alerts[k]

Dismissed(rows) == {k \in Keys : rows[k].status = "dismissed"}

Put(f, k, v) == [x \in DOMAIN f \cup {k} |-> IF x = k THEN v ELSE f[x]]

\* The sessions whose uncommitted write of key k makes session s wait.
Holders(s, k) == {r \in Sessions \ {s} : k \in DOMAIN draft[r]}

Init ==
  /\ alerts = [k \in Keys |-> None]
  /\ cond = {}
  /\ pc = [s \in Sessions |-> "idle"]
  /\ scope = [s \in Sessions |-> Nobody]
  /\ todo = [s \in Sessions |-> {}]
  /\ active = [s \in Sessions |-> {}]
  /\ cur = [s \in Sessions |-> NoKey]
  /\ row = [s \in Sessions |-> None]
  /\ sweep = [s \in Sessions |-> {}]
  /\ draft = [s \in Sessions |-> <<>>]
  /\ wish = [s \in Sessions |-> "open"]
  /\ changes = 0
  /\ held = [s \in Sessions |-> {}]
  /\ muted = [s \in Sessions |-> {}]

\* The session of s is closed: what it has not committed is rolled back.
End(s) ==
  /\ pc' = [pc EXCEPT ![s] = "idle"]
  /\ scope' = [scope EXCEPT ![s] = Nobody]
  /\ todo' = [todo EXCEPT ![s] = {}]
  /\ active' = [active EXCEPT ![s] = {}]
  /\ cur' = [cur EXCEPT ![s] = NoKey]
  /\ row' = [row EXCEPT ![s] = None]
  /\ sweep' = [sweep EXCEPT ![s] = {}]
  /\ draft' = [draft EXCEPT ![s] = <<>>]
  /\ wish' = [wish EXCEPT ![s] = "open"]
  /\ held' = [held EXCEPT ![s] = {}]
  /\ muted' = [r \in Sessions |->
                 IF r = s THEN {} ELSE muted[r] \cap Dismissed(alerts')]

-----------------------------------------------------------------------------
(* The evaluation.                                                         *)

\* CampaignAnalyzer.analyze: the campaign conditions of the scope are read.
Evaluate(s) ==
  /\ pc[s] = "idle"
  /\ \E a \in Scopes :
       /\ scope' = [scope EXCEPT ![s] = a]
       /\ todo' = [todo EXCEPT ![s] = cond \cap InScope(a)]
  /\ active' = [active EXCEPT ![s] = {}]
  /\ held' = [held EXCEPT ![s] = cond]
  /\ muted' = [muted EXCEPT ![s] = Dismissed(alerts)]
  /\ pc' = [pc EXCEPT ![s] = "emit"]
  /\ UNCHANGED <<alerts, cond, cur, row, sweep, draft, wish, changes>>

\* upsert_by_dedupe, the SELECT of the next firing key.
Emit(s) ==
  /\ pc[s] \in {"emit", "tail"}
  /\ \E k \in todo[s] :
       /\ cur' = [cur EXCEPT ![s] = k]
       /\ row' = [row EXCEPT ![s] = Seen(s, k)]
       /\ active' = [active EXCEPT ![s] = @ \cup {k}]
       /\ todo' = [todo EXCEPT ![s] = @ \ {k}]
  /\ pc' = [pc EXCEPT ![s] = "save"]
  /\ UNCHANGED <<alerts, cond, scope, sweep, draft, wish, changes, held, muted>>

\* Mutant of Refreshed: a dismissed alert is opened again.
RefreshedAlways(loaded, now) == [status |-> "open", stamped |-> FALSE]

\* Mutant of Refreshed: a resolved alert is not opened again.
RefreshedKeepStatus(loaded, now) ==
  IF loaded.status = "dismissed" THEN now
  ELSE [status |-> now.status, stamped |-> FALSE]

\* The row after the refresh of an alert loaded as `loaded`, now `now`: columns
\* that do not differ from the loaded ones are not written.
Refreshed(loaded, now) ==
  IF loaded.status = "dismissed" THEN now
  ELSE [status  |-> IF loaded.status = "open" THEN now.status ELSE "open",
        stamped |-> IF loaded.stamped THEN FALSE ELSE now.stamped]

\* Where an evaluation goes after a key: account signals follow the campaigns'.
Resume(s) == IF active[s] \subseteq CampaignKeys THEN "emit" ELSE "tail"

\* Mutant of Conflict: the failed request keeps its transaction open.
ConflictKeepsLocks(s) ==
  /\ row[s] = None /\ Seen(s, cur[s]) # None
  /\ pc' = [pc EXCEPT ![s] = "idle"]
  /\ UNCHANGED <<alerts, scope, todo, active, cur, row, sweep, draft, wish, held, muted>>

\* An INSERT of a key that another session has committed since the SELECT
\* violates the unique index and ends the whole request.
Conflict(s) ==
  /\ row[s] = None /\ Seen(s, cur[s]) # None
  /\ UNCHANGED alerts /\ End(s)

\* The row is inserted or refreshed.
Flush(s) ==
  /\ row[s] = None => Seen(s, cur[s]) = None
  /\ draft' = [draft EXCEPT ![s] = Put(@, cur[s],
       IF row[s] = None THEN [status |-> "open", stamped |-> FALSE]
       ELSE Refreshed(row[s], Seen(s, cur[s])))]
  /\ pc' = [pc EXCEPT ![s] = Resume(s)]
  /\ UNCHANGED <<alerts, scope, todo, active, cur, row, sweep, wish, held, muted>>

\* upsert_by_dedupe, the flush, once no other session holds the row.
Save(s) ==
  /\ pc[s] = "save" /\ Holders(s, cur[s]) = {}
  /\ Conflict(s) \/ Flush(s)
  /\ UNCHANGED <<cond, changes>>

\* The account-level signals are read after the campaigns' were written; the
\* key of a spike names the scope, that of a failed sync the sync.
Tail(s) ==
  /\ pc[s] = "emit" /\ todo[s] = {}
  /\ todo' = [todo EXCEPT ![s] =
       {k \in cond : k = <<scope[s], "spike">> \/ k \in SyncKeys}]
  /\ pc' = [pc EXCEPT ![s] = "tail"]
  /\ UNCHANGED <<alerts, cond, scope, active, cur, row, sweep, draft, wish, changes, held, muted>>

\* Mutant of Sweep: keys emitted are not excepted.
SweepEmitted(s) ==
  /\ pc[s] = "tail" /\ todo[s] = {}
  /\ sweep' = [sweep EXCEPT ![s] = {k \in Keys : Seen(s, k).status = "open"}]
  /\ pc' = [pc EXCEPT ![s] = "resolve"]
  /\ UNCHANGED <<alerts, cond, scope, todo, active, cur, row, draft, wish, changes, held, muted>>

\* auto_resolve_missing, the SELECT: open alerts that were not emitted, of
\* whatever account.
Sweep(s) ==
  /\ pc[s] = "tail" /\ todo[s] = {}
  /\ sweep' = [sweep EXCEPT ![s] =
       {k \in Keys : Seen(s, k).status = "open" /\ k \notin active[s]}]
  /\ pc' = [pc EXCEPT ![s] = "resolve"]
  /\ UNCHANGED <<alerts, cond, scope, todo, active, cur, row, draft, wish, changes, held, muted>>

\* auto_resolve_missing, the flush, row by row; all were loaded open.
Resolve(s) ==
  /\ pc[s] = "resolve"
  /\ \E k \in sweep[s] :
       /\ Holders(s, k) = {}
       /\ draft' = [draft EXCEPT ![s] =
                      Put(@, k, [status |-> "resolved", stamped |-> TRUE])]
       /\ sweep' = [sweep EXCEPT ![s] = @ \ {k}]
  /\ UNCHANGED <<alerts, cond, pc, scope, todo, active, cur, row, wish, changes, held, muted>>

Commit(s) ==
  /\ pc[s] = "resolve" /\ sweep[s] = {}
  /\ alerts' = [k \in Keys |-> Seen(s, k)]
  /\ End(s) /\ UNCHANGED <<cond, changes>>

-----------------------------------------------------------------------------
(* A manager sets the status of an alert.                                  *)

Spend == changes < MaxChanges /\ changes' = changes + 1

\* set_status, the SELECT by id.
Patch(s) ==
  /\ pc[s] = "idle" /\ Spend
  /\ \E k \in Keys, status \in Patches :
       /\ alerts[k] # None
       /\ cur' = [cur EXCEPT ![s] = k]
       /\ row' = [row EXCEPT ![s] = alerts[k]]
       /\ wish' = [wish EXCEPT ![s] = status]
  /\ pc' = [pc EXCEPT ![s] = "patch"]
  /\ UNCHANGED <<alerts, cond, scope, todo, active, sweep, draft, held, muted>>

\* Mutant of Patched: resolved_at is not cleared.
PatchedKeepStamp(loaded, now, status) ==
  [status |-> status, stamped |-> status = "resolved" \/ now.stamped]

Patched(loaded, now, status) ==
  [status  |-> IF loaded.status = status THEN now.status ELSE status,
   stamped |-> \/ status = "resolved"
               \/ ~loaded.stamped /\ now.stamped]

\* set_status, the flush and the commit.
PatchSave(s) ==
  /\ pc[s] = "patch" /\ Holders(s, cur[s]) = {}
  /\ alerts' = [alerts EXCEPT ![cur[s]] = Patched(row[s], @, wish[s])]
  /\ End(s) /\ UNCHANGED <<cond, changes>>

-----------------------------------------------------------------------------
(* Locks, and the data the conditions are read from.                       *)

\* The keys session s needs the row lock of to go on.
Wants(s) == CASE pc[s] \in {"save", "patch"} -> {cur[s]}
              [] pc[s] = "resolve"           -> sweep[s]
              [] OTHER                       -> {}

Blockers(s) == UNION {Holders(s, k) : k \in Wants(s)}

Stuck(s) == Wants(s) # {} /\ \A k \in Wants(s) : Holders(s, k) # {}

\* PostgreSQL breaks a cycle of waiting sessions by failing one of them.
DeadlockVictim(s) ==
  /\ \E S \in SUBSET Sessions :
       s \in S /\ \A r \in S : Stuck(r) /\ Blockers(r) \cap S # {}
  /\ UNCHANGED <<alerts, cond, changes>> /\ End(s)

\* A sync changes the data: a condition begins or ceases to hold.
Turn(k) == cond' = (cond \ {k}) \cup ({k} \ cond)

\* A newer sync (the ids grow) becomes the latest one, and may have failed.
LatestSync ==
  \E failed \in SUBSET {<<Nobody, "sync", changes'>>} : cond' = (cond \ SyncKeys) \cup failed

DataChanges ==
  /\ Spend
  /\ LatestSync \/ \E k \in CampaignKeys \cup SpikeKeys : Turn(k)
  /\ held' = [s \in Sessions |-> held[s] \cap cond']
  /\ UNCHANGED <<alerts, jobVars, muted>>

-----------------------------------------------------------------------------
Progress(s) ==
  \/ Emit(s) \/ Save(s) \/ Tail(s) \/ Sweep(s) \/ Resolve(s) \/ Commit(s)
  \/ PatchSave(s) \/ DeadlockVictim(s)

Next ==
  \/ \E s \in Sessions : Evaluate(s) \/ Patch(s) \/ Progress(s)
  \/ DataChanges

Spec     == Init /\ [][Next]_vars

\* A thread that serves a request keeps running, and PostgreSQL queues the
\* sessions that wait for a row: none is passed over for ever.
FairSpec ==
  /\ Spec
  /\ \A s \in Sessions :
       /\ WF_vars(Progress(s))
       /\ SF_vars(Save(s) \/ Resolve(s) \/ PatchSave(s))

-----------------------------------------------------------------------------
(* Properties.                                                             *)

\* Every variable has its type, and only sessions inside an evaluation hold
\* uncommitted rows.
TypeOK ==
  /\ alerts \in [Keys -> Alerts \cup {None}]
  /\ cond \subseteq Keys
  /\ pc \in [Sessions -> Phases]
  /\ scope \in [Sessions -> Accounts \cup {Nobody}]
  /\ todo \in [Sessions -> SUBSET Keys]
  /\ active \in [Sessions -> SUBSET Keys]
  /\ cur \in [Sessions -> Keys \cup {NoKey}]
  /\ row \in [Sessions -> Alerts \cup {None}]
  /\ sweep \in [Sessions -> SUBSET Keys]
  /\ DOMAIN draft = Sessions
  /\ \A s \in Sessions :
       /\ DOMAIN draft[s] \subseteq Keys
       /\ \A k \in DOMAIN draft[s] : draft[s][k] \in Alerts
       /\ pc[s] \in {"idle", "patch"} => draft[s] = <<>>
  /\ wish \in [Sessions -> Statuses]
  /\ changes \in 0..MaxChanges
  /\ held \in [Sessions -> SUBSET Keys]
  /\ muted \in [Sessions -> SUBSET Keys]

\* The session s commits the evaluation it is in.
Commits(s) == pc[s] = "resolve" /\ pc'[s] = "idle" /\ sweep[s] = {}

\* auto_resolve_missing never picks an alert whose condition has held ever
\* since the evaluation began: every such condition has been emitted before.
NeverResolvesFiring == \A s \in Sessions : sweep[s] \cap held[s] = {}

\* A dismissed alert stays dismissed until a manager's set_status: neither the
\* refresh of a condition that still fires nor auto-resolution touches it.
DismissedStays ==
  [][\A k \in Keys :
       alerts[k].status = "dismissed" /\ alerts'[k].status # "dismissed" =>
         \E s \in Sessions : pc[s] = "patch" /\ pc'[s] = "idle" /\ cur[s] = k]_vars

\* An evaluation writes no other status to an alert that has been dismissed ever
\* since the evaluation began, whatever other sessions do meanwhile.
MutedUntouched ==
  \A s \in Sessions : \A k \in DOMAIN draft[s] \cap muted[s] :
    draft[s][k].status = "dismissed"

\* After an evaluation the console is current: what has fired since it began,
\* in its scope, is open or was dismissed (a resolved alert is opened again),
\* and nothing is open that the evaluation did not find firing.
ConsoleCurrent ==
  [][\A s \in Sessions : Commits(s) =>
       /\ \A k \in held[s] \cap InScope(scope[s]) :
            alerts'[k].status \in {"open", "dismissed"}
       /\ \A k \in Keys : alerts'[k].status = "open" => k \in active[s]]_vars

\* resolved_at is set exactly on resolved alerts, through every order of
\* evaluations and manager requests on one thread.
StampHonest ==
  \A k \in Keys : alerts[k].stamped <=> alerts[k].status = "resolved"

\* A session that began a request ends it, whatever rows other sessions hold:
\* a lock wait ends with the other's commit, a cycle of them with a victim.
RequestEnds ==
  \A s \in Sessions : (pc[s] # "idle") ~> (pc[s] = "idle")

=============================================================================
