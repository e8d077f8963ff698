--------------------------- MODULE SnapshotLedger ---------------------------
(***************************************************************************)
(* What the sync engine promises the readers of the snapshot tables.  A    *)
(* step opens a log row and then, in one atomic step, either replaces the  *)
(* rows of one table and account over a range of days by rows of its own,  *)
(* at most one per entity and day; or adds rows without removing any; or   *)
(* leaves the tables alone and is recorded as failed.                      *)
(***************************************************************************)
EXTENDS Integers, Sequences

CONSTANTS Jobs,         \* who may open log rows
          Accounts,     \* whose rows the tables hold
          Days,         \* the days a window may begin and end on
          WindowSteps,  \* tables whose windows are replaced
          Steps         \* all tables

VARIABLES rows,  \* the visible snapshot rows
          logs   \* logs[j]: the log rows of job j, in order

Init == rows = {} /\ logs = [j \in Jobs |-> <<>>]

Last(j) == logs[j][Len(logs[j])]

Open(j) ==
  /\ \E step \in Steps, acct \in Accounts :
       logs' = [logs EXCEPT ![j] =
                  Append(@, [step |-> step, acct |-> acct, status |-> "running"])]
  /\ UNCHANGED rows

End(j, statuses) ==
  /\ logs[j] # <<>> /\ Last(j).status = "running"
  /\ \E status \in statuses :
       logs' = [logs EXCEPT ![j][Len(logs[j])].status = status]

Added == rows' \ rows

\* Every new row carries the log row of the step that adds it.
Own(j) ==
  \A r \in Added : /\ r.step = Last(j).step /\ r.acct = Last(j).acct
                   /\ r.log = <<j, Len(logs[j])>>

InWindow(j, r, from, to) ==
  r.step = Last(j).step /\ r.acct = Last(j).acct /\ r.day \in from .. to

Replace(j) ==
  /\ End(j, {"success", "partial"})
  /\ Own(j)
  /\ Last(j).step \in WindowSteps
  /\ \E from, to \in Days :
       /\ rows \cap rows' = {r \in rows : ~InWindow(j, r, from, to)}
       /\ \A r \in Added : InWindow(j, r, from, to)
  /\ \A r, s \in Added : r.id = s.id /\ r.day = s.day => r = s

Add(j) ==
  /\ End(j, {"success", "partial"})
  /\ Own(j)
  /\ Last(j).step \notin WindowSteps
  /\ rows \subseteq rows'

Fail(j) == End(j, {"failed"}) /\ UNCHANGED rows

Next == \E j \in Jobs : Open(j) \/ Replace(j) \/ Add(j) \/ Fail(j)

Spec == Init /\ [][Next]_<<rows, logs>>
=============================================================================
