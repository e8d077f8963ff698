---------------------------- MODULE AlertProofs ----------------------------
(***************************************************************************)
(* What evaluations leave alone, for any number of sessions, accounts and  *)
(* conditions: an alert that is dismissed, and, when every account is      *)
(* evaluated, an alert whose condition holds.  And what the console shows  *)
(* when one thread serves every request: with two, a dismissal that falls  *)
(* between the SELECT of an evaluation and its flush is overwritten.       *)
(***************************************************************************)
EXTENDS AlertEngine, TLAPS

\* A row read for a write is there when it is written: no alert is ever deleted.
Loaded ==
  \A s \in Sessions :
    /\ pc[s] \in {"save", "patch"} => cur[s] \in Keys
    /\ pc[s] = "patch" => row[s] # None
    /\ pc[s] \in {"save", "patch"} /\ row[s] # None => Seen(s, cur[s]) # None

\* Refreshing and patching leave an alert, and no other kind of row.
LEMMA RowTypes ==
  /\ None \notin Alerts
  /\ \A now \in Alerts, loaded \in Alerts : Refreshed(loaded, now) \in Alerts
  /\ \A now \in Alerts, loaded \in Alerts, status \in Statuses :
       Patched(loaded, now, status) \in Alerts
  BY DEF None, Alerts, Statuses, Refreshed, Patched

\* What a session sees is an alert or nothing.
LEMMA SeenType ==
  ASSUME TypeOK, NEW s \in Sessions, NEW k \in Keys
  PROVE  Seen(s, k) \in Alerts \cup {None}
  BY DEF TypeOK, Seen

\* The end of a request keeps the types of what sessions hold.
LEMMA EndType ==
  ASSUME TypeOK, alerts' \in [Keys -> Alerts \cup {None}], NEW s \in Sessions, End(s)
  PROVE  /\ pc' \in [Sessions -> Phases]
         /\ scope' \in [Sessions -> Accounts \cup {Nobody}]
         /\ todo' \in [Sessions -> SUBSET Keys]
         /\ active' \in [Sessions -> SUBSET Keys]
         /\ cur' \in [Sessions -> Keys \cup {NoKey}]
         /\ row' \in [Sessions -> Alerts \cup {None}]
         /\ sweep' \in [Sessions -> SUBSET Keys]
         /\ DOMAIN draft' = Sessions
         /\ \A r \in Sessions :
              /\ DOMAIN draft'[r] \subseteq Keys
              /\ \A k \in DOMAIN draft'[r] : draft'[r][k] \in Alerts
              /\ pc'[r] \in {"idle", "patch"} => draft'[r] = <<>>
         /\ wish' \in [Sessions -> Statuses]
         /\ held' \in [Sessions -> SUBSET Keys]
         /\ muted' \in [Sessions -> SUBSET Keys]
<1>1. pc' \in [Sessions -> Phases] /\ wish' \in [Sessions -> Statuses]
  BY DEF End, TypeOK, Phases, Statuses
<1>2. \A r \in Sessions : draft'[r] = IF r = s THEN <<>> ELSE draft[r]
  BY DEF End, TypeOK
<1>3. DOMAIN <<>> = {}
  OBVIOUS
<1>4. \A r \in Sessions \ {s} : pc'[r] = pc[r]
  BY DEF End, TypeOK
<1>5. muted' \in [Sessions -> SUBSET Keys]
  BY DEF End, TypeOK, Dismissed
<1> QED
  BY <1>1, <1>2, <1>3, <1>4, <1>5 DEF End, TypeOK

-----------------------------------------------------------------------------
(* Types.                                                                  *)

AlertInv == TypeOK /\ Loaded

\* The conditions that hold are always those of keys.
LEMMA CondKeys ==
  ASSUME TypeOK, DataChanges
  PROVE  cond' \subseteq Keys /\ changes' \in 0..MaxChanges
<1>1. changes' \in 1..MaxChanges
  BY BoundAssumption DEF DataChanges, Spend, TypeOK
<1>2. cond \subseteq Keys
  BY DEF TypeOK
<1>3. CASE LatestSync
  <2>1. PICK failed \in SUBSET {<<Nobody, "sync", changes'>>} :
          cond' = (cond \ SyncKeys) \cup failed
    BY <1>3 DEF LatestSync
  <2>2. <<Nobody, "sync", changes'>> \in SyncKeys
    BY <1>1 DEF SyncKeys
  <2>3. SyncKeys \subseteq Keys
    BY DEF Keys
  <2> QED
    BY <1>1, <1>2, <2>1, <2>2, <2>3
<1>4. CASE \E k \in CampaignKeys \cup SpikeKeys : Turn(k)
  <2>1. PICK k \in CampaignKeys \cup SpikeKeys : cond' = (cond \ {k}) \cup ({k} \ cond)
    BY <1>4 DEF Turn
  <2>2. k \in Keys
    BY DEF Keys
  <2> QED
    BY <1>1, <1>2, <2>1, <2>2
<1> QED
  BY <1>3, <1>4 DEF DataChanges

\* No alert becomes nothing.
Kept == \A k \in Keys : alerts[k] # None => alerts'[k] # None

LEMMA EndInv ==
  ASSUME AlertInv, alerts' \in [Keys -> Alerts \cup {None}], Kept,
         NEW s \in Sessions, End(s), cond' \subseteq Keys, changes' \in 0..MaxChanges
  PROVE  AlertInv'
<1>1. TypeOK'
  BY EndType DEF AlertInv, TypeOK
<1>2. Loaded'
  <2> SUFFICES ASSUME NEW r \in Sessions, pc'[r] \in {"save", "patch"}
               PROVE  /\ cur'[r] \in Keys
                      /\ pc'[r] = "patch" => row'[r] # None
                      /\ row'[r] # None => Seen(r, cur[r])' # None
    BY DEF Loaded
  <2>1. r # s /\ pc'[r] = pc[r] /\ draft'[r] = draft[r] /\ cur'[r] = cur[r] /\ row'[r] = row[r]
    BY DEF End, AlertInv, TypeOK
  <2>2. /\ cur[r] \in Keys
        /\ pc[r] = "patch" => row[r] # None
        /\ row[r] # None => Seen(r, cur[r]) # None
    BY <2>1 DEF AlertInv, Loaded
  <2> QED
    BY <2>1, <2>2 DEF Seen, Kept
<1> QED
  BY <1>1, <1>2 DEF AlertInv

\* A step of one session that commits nothing keeps what the others have loaded.
LEMMA OwnLoaded ==
  ASSUME AlertInv, NEW s \in Sessions, UNCHANGED alerts,
         \A r \in Sessions \ {s} :
           pc'[r] = pc[r] /\ draft'[r] = draft[r] /\ cur'[r] = cur[r] /\ row'[r] = row[r],
         pc'[s] \in {"save", "patch"} =>
           /\ cur'[s] \in Keys
           /\ pc'[s] = "patch" => row'[s] # None
           /\ row'[s] # None => Seen(s, cur[s])' # None
  PROVE  Loaded'
<1> SUFFICES ASSUME NEW r \in Sessions, r # s, pc'[r] \in {"save", "patch"}
             PROVE  /\ cur'[r] \in Keys
                    /\ pc'[r] = "patch" => row'[r] # None
                    /\ row'[r] # None => Seen(r, cur[r])' # None
  BY DEF Loaded
<1>1. pc'[r] = pc[r] /\ draft'[r] = draft[r] /\ cur'[r] = cur[r] /\ row'[r] = row[r]
  OBVIOUS
<1>2. /\ cur[r] \in Keys
      /\ pc[r] = "patch" => row[r] # None
      /\ row[r] # None => Seen(r, cur[r]) # None
  BY <1>1 DEF AlertInv, Loaded
<1> QED
  BY <1>1, <1>2 DEF Seen

\* A row that is written joins the uncommitted rows of the session.
LEMMA DraftType ==
  ASSUME TypeOK, NEW s \in Sessions, NEW k \in Keys, NEW v \in Alerts,
         draft' = [draft EXCEPT ![s] = Put(draft[s], k, v)],
         pc'[s] \notin {"idle", "patch"}, \A r \in Sessions \ {s} : pc'[r] = pc[r]
  PROVE  /\ DOMAIN draft' = Sessions
         /\ \A r \in Sessions :
              /\ DOMAIN draft'[r] \subseteq Keys
              /\ \A x \in DOMAIN draft'[r] : draft'[r][x] \in Alerts
              /\ pc'[r] \in {"idle", "patch"} => draft'[r] = <<>>
<1>1. /\ DOMAIN draft' = Sessions
      /\ \A r \in Sessions \ {s} : draft'[r] = draft[r]
      /\ draft'[s] = Put(draft[s], k, v)
  BY DEF TypeOK
<1>2. /\ DOMAIN draft'[s] \subseteq Keys
      /\ \A x \in DOMAIN draft'[s] : draft'[s][x] \in Alerts
  BY <1>1 DEF Put, TypeOK
<1> QED
  BY <1>1, <1>2 DEF TypeOK

LEMMA AlertStep == AlertInv /\ [Next]_vars => AlertInv'
<1> SUFFICES ASSUME AlertInv, [Next]_vars PROVE AlertInv'
  OBVIOUS
<1>1. ASSUME NEW s \in Sessions, Evaluate(s) PROVE AlertInv'
  <2>1. PICK a \in Scopes : scope' = [scope EXCEPT ![s] = a]
                            /\ todo' = [todo EXCEPT ![s] = cond \cap InScope(a)]
    BY <1>1 DEF Evaluate
  <2>2. a \in Accounts \cup {Nobody} /\ cond \cap InScope(a) \subseteq Keys
    BY ScopesAssumption DEF AlertInv, TypeOK
  <2>3. Dismissed(alerts) \subseteq Keys
    BY DEF Dismissed
  <2>4. TypeOK'
    BY <1>1, <2>1, <2>2, <2>3 DEF Evaluate, AlertInv, TypeOK, Phases
  <2>5. Loaded'
    BY <1>1, OwnLoaded DEF Evaluate, AlertInv, TypeOK
  <2> QED
    BY <2>4, <2>5 DEF AlertInv
<1>2. ASSUME NEW s \in Sessions, Emit(s) PROVE AlertInv'
  <2>1. PICK k \in todo[s] :
          /\ cur' = [cur EXCEPT ![s] = k] /\ row' = [row EXCEPT ![s] = Seen(s, k)]
          /\ active' = [active EXCEPT ![s] = @ \cup {k}]
          /\ todo' = [todo EXCEPT ![s] = @ \ {k}]
    BY <1>2 DEF Emit
  <2>2. k \in Keys /\ Seen(s, k) \in Alerts \cup {None}
    BY SeenType DEF AlertInv, TypeOK
  <2>3. TypeOK'
    BY <1>2, <2>1, <2>2 DEF Emit, AlertInv, TypeOK, Phases
  <2>4. cur'[s] = k /\ row'[s] = Seen(s, k) /\ Seen(s, cur[s])' = Seen(s, k)
    BY <1>2, <2>1 DEF Emit, AlertInv, TypeOK, Seen
  <2>5. Loaded'
    BY <1>2, <2>2, <2>4, OwnLoaded DEF Emit, AlertInv, TypeOK
  <2> QED
    BY <2>3, <2>5 DEF AlertInv
<1>3. ASSUME NEW s \in Sessions, Save(s) PROVE AlertInv'
  <2>1. cond' \subseteq Keys /\ changes' \in 0..MaxChanges
    BY <1>3 DEF Save, AlertInv, TypeOK
  <2>2. CASE Conflict(s)
    <3>1. End(s) /\ Kept /\ alerts' \in [Keys -> Alerts \cup {None}]
      BY <2>2 DEF Conflict, Kept, AlertInv, TypeOK
    <3> QED
      BY <2>1, <3>1, EndInv
  <2>3. CASE Flush(s)
    <3> DEFINE new == IF row[s] = None THEN [status |-> "open", stamped |-> FALSE]
                      ELSE Refreshed(row[s], Seen(s, cur[s]))
    <3>1. cur[s] \in Keys /\ (row[s] # None => Seen(s, cur[s]) # None)
      BY <1>3 DEF Save, AlertInv, Loaded
    <3>2. Seen(s, cur[s]) \in Alerts \cup {None} /\ row[s] \in Alerts \cup {None}
      BY <3>1, SeenType DEF AlertInv, TypeOK
    <3>3. new \in Alerts
      <4>1. CASE row[s] = None
        BY <4>1 DEF Alerts, Statuses
      <4>2. CASE row[s] # None
        BY <3>1, <3>2, <4>2, RowTypes
      <4> QED
        BY <4>1, <4>2
    <3>4. /\ draft' = [draft EXCEPT ![s] = Put(draft[s], cur[s], new)]
          /\ pc' = [pc EXCEPT ![s] = Resume(s)] /\ Resume(s) \in {"emit", "tail"}
          /\ UNCHANGED <<alerts, scope, todo, active, cur, row, sweep, wish, held, muted>>
      BY <2>3 DEF Flush, Resume
    <3> HIDE DEF new
    <3>5. pc' \in [Sessions -> Phases] /\ pc'[s] \in {"emit", "tail"}
          /\ \A r \in Sessions \ {s} : pc'[r] = pc[r]
      BY <3>4 DEF AlertInv, TypeOK, Phases
    <3>6. /\ DOMAIN draft' = Sessions
          /\ \A r \in Sessions :
               /\ DOMAIN draft'[r] \subseteq Keys
               /\ \A x \in DOMAIN draft'[r] : draft'[r][x] \in Alerts
               /\ pc'[r] \in {"idle", "patch"} => draft'[r] = <<>>
      BY <3>1, <3>3, <3>4, <3>5, DraftType DEF AlertInv
    <3>7. TypeOK'
      BY <2>1, <3>4, <3>5, <3>6 DEF AlertInv, TypeOK
    <3>8. Loaded'
      BY <3>4, <3>5, OwnLoaded DEF AlertInv, TypeOK
    <3> QED
      BY <3>7, <3>8 DEF AlertInv
  <2> QED
    BY <1>3, <2>2, <2>3 DEF Save
<1>4. ASSUME NEW s \in Sessions, Tail(s) PROVE AlertInv'
  <2>1. {k \in cond : k = <<scope[s], "spike">> \/ k \in SyncKeys} \subseteq Keys
    BY DEF AlertInv, TypeOK
  <2>2. TypeOK'
    BY <1>4, <2>1 DEF Tail, AlertInv, TypeOK, Phases
  <2>3. Loaded'
    BY <1>4, OwnLoaded DEF Tail, AlertInv, TypeOK
  <2> QED
    BY <2>2, <2>3 DEF AlertInv
<1>5. ASSUME NEW s \in Sessions, Sweep(s) PROVE AlertInv'
  <2>1. TypeOK'
    BY <1>5 DEF Sweep, AlertInv, TypeOK, Phases
  <2>2. Loaded'
    BY <1>5, OwnLoaded DEF Sweep, AlertInv, TypeOK
  <2> QED
    BY <2>1, <2>2 DEF AlertInv
<1>6. ASSUME NEW s \in Sessions, Resolve(s) PROVE AlertInv'
  <2>1. PICK k \in sweep[s] :
          /\ draft' = [draft EXCEPT ![s] =
                         Put(draft[s], k, [status |-> "resolved", stamped |-> TRUE])]
          /\ sweep' = [sweep EXCEPT ![s] = @ \ {k}]
    BY <1>6 DEF Resolve
  <2>2. k \in Keys /\ [status |-> "resolved", stamped |-> TRUE] \in Alerts
    BY DEF AlertInv, TypeOK, Alerts, Statuses
  <2>3. pc[s] = "resolve" /\ pc' = pc
    BY <1>6 DEF Resolve
  <2>4. /\ DOMAIN draft' = Sessions
        /\ \A r \in Sessions :
             /\ DOMAIN draft'[r] \subseteq Keys
             /\ \A x \in DOMAIN draft'[r] : draft'[r][x] \in Alerts
             /\ pc'[r] \in {"idle", "patch"} => draft'[r] = <<>>
    BY <2>1, <2>2, <2>3, DraftType DEF AlertInv
  <2>5. TypeOK'
    BY <1>6, <2>1, <2>4 DEF Resolve, AlertInv, TypeOK
  <2>6. Loaded'
    BY <1>6, <2>1, OwnLoaded DEF Resolve, AlertInv, TypeOK
  <2> QED
    BY <2>5, <2>6 DEF AlertInv
<1>7. ASSUME NEW s \in Sessions, Commit(s) PROVE AlertInv'
  <2>1. alerts' = [k \in Keys |-> Seen(s, k)] /\ End(s) /\ UNCHANGED <<cond, changes>>
    BY <1>7 DEF Commit
  <2>2. \A k \in Keys : Seen(s, k) \in Alerts \cup {None}
    BY SeenType DEF AlertInv
  <2>3. \A k \in Keys : alerts[k] # None => Seen(s, k) # None
    BY RowTypes DEF AlertInv, TypeOK, Seen
  <2>4. Kept /\ alerts' \in [Keys -> Alerts \cup {None}]
    BY <2>1, <2>2, <2>3 DEF Kept
  <2> QED
    BY <2>1, <2>4, EndInv DEF AlertInv, TypeOK
<1>8. ASSUME NEW s \in Sessions, PatchSave(s) PROVE AlertInv'
  <2>1. /\ alerts' = [alerts EXCEPT ![cur[s]] = Patched(row[s], alerts[cur[s]], wish[s])]
        /\ End(s) /\ UNCHANGED <<cond, changes>>
    BY <1>8 DEF PatchSave
  <2>2. pc[s] = "patch" /\ cur[s] \in Keys /\ row[s] # None /\ Seen(s, cur[s]) # None
    BY <1>8 DEF PatchSave, AlertInv, Loaded
  <2>3. Seen(s, cur[s]) = alerts[cur[s]]
    BY <2>2 DEF AlertInv, TypeOK, Seen
  <2>4. Patched(row[s], alerts[cur[s]], wish[s]) \in Alerts
    BY <2>2, <2>3, RowTypes DEF AlertInv, TypeOK
  <2>5. Kept /\ alerts' \in [Keys -> Alerts \cup {None}]
    BY <2>1, <2>2, <2>4, RowTypes DEF Kept, AlertInv, TypeOK
  <2> QED
    BY <2>1, <2>5, EndInv DEF AlertInv, TypeOK
<1>9. ASSUME NEW s \in Sessions, Patch(s) PROVE AlertInv'
  <2>1. PICK k \in Keys, status \in Patches :
          /\ alerts[k] # None /\ cur' = [cur EXCEPT ![s] = k]
          /\ row' = [row EXCEPT ![s] = alerts[k]] /\ wish' = [wish EXCEPT ![s] = status]
    BY <1>9 DEF Patch
  <2>2. status \in Statuses
    BY PatchesAssumption DEF Statuses
  <2>3. changes' \in 0..MaxChanges
    BY <1>9, BoundAssumption DEF Patch, Spend, AlertInv, TypeOK
  <2>4. draft[s] = <<>>
    BY <1>9 DEF Patch, AlertInv, TypeOK
  <2>5. TypeOK'
    BY <1>9, <2>1, <2>2, <2>3, <2>4 DEF Patch, AlertInv, TypeOK, Phases
  <2>6. cur'[s] = k /\ row'[s] = alerts[k] /\ Seen(s, cur[s])' = alerts[k]
    BY <1>9, <2>1, <2>4 DEF Patch, AlertInv, TypeOK, Seen
  <2>7. Loaded'
    BY <1>9, <2>1, <2>6, OwnLoaded DEF Patch, AlertInv, TypeOK
  <2> QED
    BY <2>5, <2>7 DEF AlertInv
<1>10. ASSUME NEW s \in Sessions, DeadlockVictim(s) PROVE AlertInv'
  BY <1>10, EndInv DEF DeadlockVictim, Kept, AlertInv, TypeOK
<1>11. CASE DataChanges
  <2>1. TypeOK
    BY DEF AlertInv
  <2>2. cond' \subseteq Keys /\ changes' \in 0..MaxChanges
    BY <1>11, <2>1, CondKeys
  <2>3. UNCHANGED <<alerts, jobVars, muted>>
        /\ held' = [s \in Sessions |-> held[s] \cap cond']
    BY <1>11 DEF DataChanges
  <2>4. TypeOK'
    BY <2>2, <2>3 DEF jobVars, AlertInv, TypeOK
  <2>5. Loaded'
    BY <2>3 DEF jobVars, AlertInv, Loaded, Seen
  <2> QED
    BY <2>4, <2>5 DEF AlertInv
<1>12. CASE UNCHANGED vars
  BY <1>12 DEF vars, jobVars, AlertInv, TypeOK, Loaded, Seen
<1> QED
  BY <1>1, <1>2, <1>3, <1>4, <1>5, <1>6, <1>7, <1>8, <1>9, <1>10, <1>11, <1>12
  DEF Next, Progress

\* Every variable keeps its type: a row that is refreshed or patched is still there, since
\* alerts are never deleted (AlertRepository), and only evaluations hold uncommitted rows.
THEOREM AlertTyping == Spec => []TypeOK
<1>1. Init => AlertInv
  <2>1. Init => Loaded
    BY DEF Init, Loaded
  <2>2. Init => TypeOK
    BY BoundAssumption DEF Init, TypeOK, Phases, Statuses
  <2> QED
    BY <2>1, <2>2 DEF AlertInv
<1>2. AlertInv => TypeOK
  BY DEF AlertInv
<1> QED
  BY <1>1, <1>2, AlertStep, PTL DEF Spec

-----------------------------------------------------------------------------
(* Dismissed alerts.                                                       *)

\* What keeps the evaluation of s off the alerts that are dismissed since it began.
Muting(s) ==
  /\ muted[s] \subseteq Dismissed(alerts)
  /\ pc[s] \in {"idle", "patch"} => draft[s] = <<>>
  /\ pc[s] # "resolve" => sweep[s] = {}
  /\ pc[s] = "save" /\ cur[s] \in muted[s] => row[s].status = "dismissed"
  /\ sweep[s] \cap muted[s] = {}
  /\ \A k \in DOMAIN draft[s] \cap muted[s] : draft[s][k].status = "dismissed"

Domains ==
  /\ DOMAIN pc = Sessions /\ DOMAIN cur = Sessions /\ DOMAIN row = Sessions
  /\ DOMAIN sweep = Sessions /\ DOMAIN draft = Sessions /\ DOMAIN muted = Sessions
  /\ DOMAIN todo = Sessions /\ DOMAIN active = Sessions /\ DOMAIN scope = Sessions
  /\ DOMAIN held = Sessions

\* The inductive invariant of MutedUntouched: nothing in the drafts alone says what the
\* next row to be written is.
MutedInv == Domains /\ \A s \in Sessions : Muting(s)

\* What is dismissed is seen dismissed.
LEMMA SeenMuted ==
  ASSUME NEW s, Muting(s), NEW k \in muted[s]
  PROVE  Seen(s, k).status = "dismissed"
  BY DEF Muting, Seen, Dismissed

\* The end of a request leaves the other sessions as they are, and mutes no more.
LEMMA EndMuted ==
  ASSUME MutedInv, NEW s \in Sessions, End(s)
  PROVE  MutedInv'
<1>1. Domains'
  BY DEF End, MutedInv, Domains
<1>2. ASSUME NEW r \in Sessions, r # s PROVE Muting(r)'
  <2>1. /\ pc'[r] = pc[r] /\ draft'[r] = draft[r] /\ sweep'[r] = sweep[r]
        /\ cur'[r] = cur[r] /\ row'[r] = row[r]
        /\ muted'[r] = muted[r] \cap Dismissed(alerts')
    BY <1>2 DEF End, MutedInv, Domains
  <2>2. Muting(r)
    BY DEF MutedInv
  <2> QED
    BY <2>1, <2>2 DEF Muting
<1>3. Muting(s)'
  <2>1. /\ pc'[s] = "idle" /\ draft'[s] = <<>> /\ sweep'[s] = {} /\ muted'[s] = {}
    BY DEF End, MutedInv, Domains
  <2> QED
    BY <2>1 DEF Muting
<1> QED
  BY <1>1, <1>2, <1>3 DEF MutedInv

\* A step of a session that commits nothing concerns this session only.
LEMMA OwnStep ==
  ASSUME MutedInv, NEW s \in Sessions, Domains', UNCHANGED alerts, Muting(s)',
         \A r \in Sessions \ {s} :
           /\ pc'[r] = pc[r] /\ draft'[r] = draft[r] /\ sweep'[r] = sweep[r]
           /\ cur'[r] = cur[r] /\ row'[r] = row[r] /\ muted'[r] = muted[r]
  PROVE  MutedInv'
<1>1. ASSUME NEW r \in Sessions, r # s PROVE Muting(r)'
  <2>1. /\ pc'[r] = pc[r] /\ draft'[r] = draft[r] /\ sweep'[r] = sweep[r]
        /\ cur'[r] = cur[r] /\ row'[r] = row[r] /\ muted'[r] = muted[r]
    BY <1>1
  <2>2. Muting(r)
    BY DEF MutedInv
  <2> QED
    BY <2>1, <2>2 DEF Muting
<1> QED
  BY <1>1 DEF MutedInv

LEMMA MutedStep == MutedInv /\ [Next]_vars => MutedInv'
<1> SUFFICES ASSUME MutedInv, [Next]_vars PROVE MutedInv'
  OBVIOUS
<1> USE DEF Domains
<1>1. ASSUME NEW s \in Sessions, Evaluate(s) PROVE MutedInv'
  <2>1. Domains'
    BY <1>1 DEF Evaluate, MutedInv
  <2>2. Muting(s)'
    <3>1. draft'[s] = <<>> /\ sweep'[s] = {}
      BY <1>1 DEF Evaluate, MutedInv, Muting
    <3>2. pc'[s] = "emit" /\ muted'[s] = Dismissed(alerts)
      BY <1>1 DEF Evaluate, MutedInv
    <3>3. Dismissed(alerts)' = Dismissed(alerts)
      BY <1>1 DEF Evaluate, Dismissed
    <3> QED
      BY <3>1, <3>2, <3>3, <1>1 DEF Muting, Evaluate
  <2> QED
    BY <1>1, <2>1, <2>2, OwnStep DEF Evaluate, MutedInv
<1>2. ASSUME NEW s \in Sessions, Patch(s) PROVE MutedInv'
  <2>1. Domains'
    BY <1>2 DEF Patch, MutedInv
  <2>2. Muting(s)'
    <3>1. pc[s] = "idle" /\ pc'[s] = "patch" /\ UNCHANGED <<alerts, draft, sweep, muted>>
      BY <1>2 DEF Patch, MutedInv
    <3> QED
      BY <3>1 DEF Muting, MutedInv, Dismissed
  <2> QED
    BY <1>2, <2>1, <2>2, OwnStep DEF Patch, MutedInv
<1>3. ASSUME NEW s \in Sessions, Emit(s) PROVE MutedInv'
  <2>1. Domains'
    BY <1>3 DEF Emit, MutedInv
  <2>2. Muting(s)'
    <3>1. PICK k \in todo[s] : cur'[s] = k /\ row'[s] = Seen(s, k)
      BY <1>3 DEF Emit, MutedInv
    <3>2. /\ pc[s] \in {"emit", "tail"} /\ pc'[s] = "save"
          /\ UNCHANGED <<alerts, draft, sweep, muted>>
      BY <1>3 DEF Emit, MutedInv
    <3>3. Muting(s)
      BY DEF MutedInv
    <3>4. k \in muted[s] => row'[s].status = "dismissed"
      BY <3>1, <3>3, SeenMuted
    <3> QED
      BY <3>1, <3>2, <3>3, <3>4 DEF Muting, Dismissed
  <2> QED
    BY <1>3, <2>1, <2>2, OwnStep DEF Emit, MutedInv
<1>4. ASSUME NEW s \in Sessions, Save(s) PROVE MutedInv'
  <2>1. CASE Conflict(s)
    BY <2>1, EndMuted DEF Conflict
  <2>2. CASE Flush(s)
    <3> DEFINE new == IF row[s] = None THEN [status |-> "open", stamped |-> FALSE]
                      ELSE Refreshed(row[s], Seen(s, cur[s]))
    <3>1. Domains'
      BY <2>2 DEF Flush, MutedInv
    <3>2. Muting(s)
      BY DEF MutedInv
    <3>3. cur[s] \in muted[s] => new.status = "dismissed"
      <4> SUFFICES ASSUME cur[s] \in muted[s] PROVE new.status = "dismissed"
        OBVIOUS
      <4>1. row[s].status = "dismissed" /\ Seen(s, cur[s]).status = "dismissed"
        BY <1>4, <3>2, SeenMuted DEF Save, Muting
      <4> QED
        BY <4>1 DEF Refreshed, None
    <3>4. /\ pc[s] = "save" /\ pc'[s] \in {"emit", "tail"}
          /\ draft'[s] = Put(draft[s], cur[s], new)
          /\ UNCHANGED <<alerts, sweep, muted>>
      BY <1>4, <2>2 DEF Save, Flush, Resume, MutedInv
    <3> HIDE DEF new
    <3>5. \A k \in DOMAIN draft'[s] \cap muted[s] : draft'[s][k].status = "dismissed"
      <4>1. /\ DOMAIN draft'[s] = DOMAIN draft[s] \cup {cur[s]}
            /\ draft'[s][cur[s]] = new
            /\ \A x \in DOMAIN draft[s] \ {cur[s]} : draft'[s][x] = draft[s][x]
        BY <3>4 DEF Put
      <4> QED
        BY <3>2, <3>3, <4>1 DEF Muting
    <3>6. Muting(s)'
      BY <3>2, <3>4, <3>5 DEF Muting, Dismissed
    <3> QED
      BY <2>2, <3>1, <3>6, OwnStep DEF Flush, MutedInv
  <2> QED
    BY <1>4, <2>1, <2>2 DEF Save
<1>5. ASSUME NEW s \in Sessions, Tail(s) PROVE MutedInv'
  <2>1. Domains'
    BY <1>5 DEF Tail, MutedInv
  <2>2. Muting(s)'
    <3>1. /\ pc[s] = "emit" /\ pc'[s] = "tail"
          /\ UNCHANGED <<alerts, draft, sweep, muted>>
      BY <1>5 DEF Tail, MutedInv
    <3> QED
      BY <3>1 DEF Muting, Dismissed, MutedInv
  <2> QED
    BY <1>5, <2>1, <2>2, OwnStep DEF Tail, MutedInv
<1>6. ASSUME NEW s \in Sessions, Sweep(s) PROVE MutedInv'
  <2>1. Domains'
    BY <1>6 DEF Sweep, MutedInv
  <2>2. Muting(s)'
    <3>1. /\ pc'[s] = "resolve" /\ UNCHANGED <<alerts, draft, muted>>
          /\ sweep'[s] = {k \in Keys : Seen(s, k).status = "open" /\ k \notin active[s]}
      BY <1>6 DEF Sweep, MutedInv
    <3>2. Muting(s)
      BY DEF MutedInv
    <3>3. sweep'[s] \cap muted[s] = {}
      BY <3>1, <3>2, SeenMuted
    <3> QED
      BY <3>1, <3>2, <3>3 DEF Muting, Dismissed
  <2> QED
    BY <1>6, <2>1, <2>2, OwnStep DEF Sweep, MutedInv
<1>7. ASSUME NEW s \in Sessions, Resolve(s) PROVE MutedInv'
  <2>1. Domains'
    BY <1>7 DEF Resolve, MutedInv
  <2>2. Muting(s)'
    <3>1. PICK k \in sweep[s] :
            /\ draft'[s] = Put(draft[s], k, [status |-> "resolved", stamped |-> TRUE])
            /\ sweep'[s] = sweep[s] \ {k}
      BY <1>7 DEF Resolve, MutedInv
    <3>2. pc[s] = "resolve" /\ pc'[s] = "resolve" /\ UNCHANGED <<alerts, muted>>
      BY <1>7 DEF Resolve
    <3>3. Muting(s)
      BY DEF MutedInv
    <3>4. \A x \in DOMAIN draft'[s] \cap muted[s] : draft'[s][x].status = "dismissed"
      <4>1. /\ DOMAIN draft'[s] = DOMAIN draft[s] \cup {k}
            /\ \A x \in DOMAIN draft[s] \ {k} : draft'[s][x] = draft[s][x]
        BY <3>1 DEF Put
      <4> QED
        BY <3>1, <3>3, <4>1 DEF Muting
    <3> QED
      BY <3>1, <3>2, <3>3, <3>4 DEF Muting, Dismissed
  <2> QED
    BY <1>7, <2>1, <2>2, OwnStep DEF Resolve, MutedInv
<1>8. ASSUME NEW s \in Sessions, Commit(s) \/ PatchSave(s) \/ DeadlockVictim(s)
      PROVE  MutedInv'
  BY <1>8, EndMuted DEF Commit, PatchSave, DeadlockVictim
<1>9. CASE DataChanges
  <2>1. Domains'
    BY <1>9 DEF DataChanges, jobVars, MutedInv
  <2> QED
    BY <1>9, <2>1 DEF DataChanges, jobVars, MutedInv, Muting, Dismissed
<1>10. CASE UNCHANGED vars
  BY <1>10 DEF vars, jobVars, MutedInv, Muting, Dismissed
<1> QED
  BY <1>1, <1>2, <1>3, <1>4, <1>5, <1>6, <1>7, <1>8, <1>9, <1>10 DEF Next, Progress

-----------------------------------------------------------------------------
\* An alert a manager dismissed stays dismissed in all that an evaluation writes which
\* began after the dismissal: upsert_by_dedupe returns early and auto_resolve_missing
\* selects open alerts only, whatever other sessions commit in between.
THEOREM DismissalsStand == Spec => []MutedUntouched
<1>1. Init => MutedInv
  BY DEF Init, MutedInv, Domains, Muting
<1>2. MutedInv => MutedUntouched
  BY DEF MutedInv, Muting, MutedUntouched
<1> QED
  BY <1>1, <1>2, MutedStep, PTL DEF Spec

-----------------------------------------------------------------------------
(* Alerts whose condition holds, when every account is evaluated.          *)

\* What the evaluation of s has still to emit, or has emitted: first the campaigns',
\* and after them what names no account.
Covered(s) ==
  /\ scope[s] = Nobody
  /\ held[s] \subseteq cond
  /\ \/ pc[s] = "emit"
     \/ pc[s] = "save" /\ active[s] \subseteq CampaignKeys
     => /\ todo[s] \cup active[s] \subseteq CampaignKeys
        /\ held[s] \cap CampaignKeys \subseteq todo[s] \cup active[s]
  /\ \/ pc[s] = "tail"
     \/ pc[s] = "save" /\ ~(active[s] \subseteq CampaignKeys)
     => /\ todo[s] \cap CampaignKeys = {}
        /\ held[s] \subseteq todo[s] \cup active[s]
  /\ pc[s] # "resolve" => sweep[s] = {}
  /\ pc[s] = "resolve" => sweep[s] \cap held[s] = {}

\* The inductive invariant of NeverResolvesFiring: what auto-resolution may pick is
\* settled long before, by what is emitted.
CoverInv ==
  /\ Domains
  /\ cond \subseteq Keys
  /\ \A s \in Sessions : Covered(s)

\* Only the step's own session moves.
LEMMA OwnCover ==
  ASSUME CoverInv, NEW s \in Sessions, Domains', UNCHANGED cond, Covered(s)',
         \A r \in Sessions \ {s} :
           /\ pc'[r] = pc[r] /\ scope'[r] = scope[r] /\ sweep'[r] = sweep[r]
           /\ todo'[r] = todo[r] /\ active'[r] = active[r] /\ held'[r] = held[r]
  PROVE  CoverInv'
<1>1. ASSUME NEW r \in Sessions, r # s PROVE Covered(r)'
  <2>1. /\ pc'[r] = pc[r] /\ scope'[r] = scope[r] /\ sweep'[r] = sweep[r]
        /\ todo'[r] = todo[r] /\ active'[r] = active[r] /\ held'[r] = held[r]
    BY <1>1
  <2>2. Covered(r)
    BY DEF CoverInv
  <2> QED
    BY <2>1, <2>2 DEF Covered
<1> QED
  BY <1>1 DEF CoverInv

LEMMA EndCover ==
  ASSUME CoverInv, NEW s \in Sessions, End(s), UNCHANGED cond
  PROVE  CoverInv'
<1>1. Domains'
  BY DEF End, CoverInv, Domains
<1>2. Covered(s)'
  <2>1. /\ pc'[s] = "idle" /\ scope'[s] = Nobody /\ sweep'[s] = {} /\ held'[s] = {}
    BY DEF End, CoverInv, Domains
  <2> QED
    BY <2>1 DEF Covered
<1> QED
  BY <1>1, <1>2, OwnCover DEF End, CoverInv, Domains

\* The keys of an evaluation of every account.
LEMMA KeysOfAll ==
  ASSUME Scopes = {Nobody}
  PROVE  /\ Keys = CampaignKeys \cup {<<Nobody, "spike">>} \cup SyncKeys
         /\ <<Nobody, "spike">> \notin CampaignKeys /\ SyncKeys \cap CampaignKeys = {}
         /\ InScope(Nobody) = CampaignKeys
  BY NobodyAssumption DEF Keys, SpikeKeys, SyncKeys, CampaignKeys, InScope

LEMMA CoverStep ==
  ASSUME Scopes = {Nobody}
  PROVE  CoverInv /\ TypeOK /\ [Next]_vars => CoverInv'
<1> SUFFICES ASSUME CoverInv, TypeOK, [Next]_vars PROVE CoverInv'
  OBVIOUS
<1> USE DEF Domains
<1>1. ASSUME NEW s \in Sessions, Evaluate(s) PROVE CoverInv'
  <2>1. Domains'
    BY <1>1 DEF Evaluate, CoverInv
  <2>2. Covered(s)'
    <3>1. /\ pc'[s] = "emit" /\ scope'[s] = Nobody /\ sweep'[s] = {}
          /\ todo'[s] = cond \cap CampaignKeys /\ active'[s] = {} /\ held'[s] = cond
          /\ cond' = cond
      BY <1>1, KeysOfAll DEF Evaluate, CoverInv, Covered
    <3> QED
      BY <3>1 DEF Covered, CampaignKeys
  <2> QED
    BY <1>1, <2>1, <2>2, OwnCover DEF Evaluate, CoverInv
<1>2. ASSUME NEW s \in Sessions, Emit(s) PROVE CoverInv'
  <2>1. Domains'
    BY <1>2 DEF Emit, CoverInv
  <2>2. Covered(s)'
    <3>1. PICK k \in todo[s] : active'[s] = active[s] \cup {k} /\ todo'[s] = todo[s] \ {k}
      BY <1>2 DEF Emit, CoverInv
    <3>2. /\ pc[s] \in {"emit", "tail"} /\ pc'[s] = "save"
          /\ UNCHANGED <<cond, scope, sweep, held>>
      BY <1>2 DEF Emit, CoverInv
    <3>3. Covered(s) /\ todo'[s] \cup active'[s] = todo[s] \cup active[s]
      BY <3>1 DEF CoverInv
    <3>4. CASE pc[s] = "emit"
      <4>1. /\ todo'[s] \cup active'[s] \subseteq CampaignKeys
            /\ held[s] \cap CampaignKeys \subseteq todo'[s] \cup active'[s]
        BY <3>3, <3>4 DEF Covered
      <4> QED
        BY <3>2, <3>3, <3>4, <4>1 DEF Covered, CampaignKeys
    <3>5. CASE pc[s] = "tail"
      <4>1. /\ todo'[s] \cap CampaignKeys = {}
            /\ ~(active'[s] \subseteq CampaignKeys)
            /\ held[s] \subseteq todo'[s] \cup active'[s]
        BY <3>1, <3>3, <3>5 DEF Covered
      <4> QED
        BY <3>2, <3>3, <3>5, <4>1 DEF Covered, CampaignKeys
    <3> QED
      BY <3>2, <3>4, <3>5
  <2> QED
    BY <1>2, <2>1, <2>2, OwnCover DEF Emit, CoverInv
<1>3. ASSUME NEW s \in Sessions, Save(s) PROVE CoverInv'
  <2>1. CASE Conflict(s)
    BY <1>3, <2>1, EndCover DEF Conflict, Save
  <2>2. CASE Flush(s)
    <3>1. Domains'
      BY <2>2 DEF Flush, CoverInv
    <3>2. /\ pc[s] = "save" /\ UNCHANGED <<cond, scope, todo, active, sweep, held>>
          /\ pc'[s] = IF active[s] \subseteq CampaignKeys THEN "emit" ELSE "tail"
      BY <1>3, <2>2 DEF Save, Flush, Resume, CoverInv
    <3>3. Covered(s)
      BY DEF CoverInv
    <3>4. Covered(s)'
      BY <3>2, <3>3 DEF Covered, CampaignKeys
    <3> QED
      BY <1>3, <2>2, <3>1, <3>4, OwnCover DEF Save, Flush, CoverInv
  <2> QED
    BY <1>3, <2>1, <2>2 DEF Save
<1>4. ASSUME NEW s \in Sessions, Tail(s) PROVE CoverInv'
  <2>1. Domains'
    BY <1>4 DEF Tail, CoverInv
  <2>2. Covered(s)'
    <3>1. /\ pc[s] = "emit" /\ pc'[s] = "tail" /\ todo[s] = {}
          /\ UNCHANGED <<cond, scope, active, sweep, held>>
          /\ todo'[s] = {k \in cond : k = <<scope[s], "spike">> \/ k \in SyncKeys}
      BY <1>4 DEF Tail, CoverInv
    <3>2. Covered(s) /\ cond \subseteq Keys
      BY DEF CoverInv
    <3>3. todo'[s] = {k \in cond : k = <<Nobody, "spike">> \/ k \in SyncKeys}
      BY <3>1, <3>2 DEF Covered
    <3>4. /\ todo'[s] \cap CampaignKeys = {}
          /\ held[s] \subseteq todo'[s] \cup active[s]
      BY <3>1, <3>2, <3>3, KeysOfAll DEF Covered
    <3> QED
      BY <3>1, <3>2, <3>4 DEF Covered, CampaignKeys
  <2> QED
    BY <1>4, <2>1, <2>2, OwnCover DEF Tail, CoverInv
<1>5. ASSUME NEW s \in Sessions, Sweep(s) PROVE CoverInv'
  <2>1. Domains'
    BY <1>5 DEF Sweep, CoverInv
  <2>2. Covered(s)'
    <3>1. /\ pc[s] = "tail" /\ pc'[s] = "resolve" /\ todo[s] = {}
          /\ UNCHANGED <<cond, scope, todo, active, held>>
          /\ sweep'[s] = {k \in Keys : Seen(s, k).status = "open" /\ k \notin active[s]}
      BY <1>5 DEF Sweep, CoverInv
    <3>2. Covered(s)
      BY DEF CoverInv
    <3>3. sweep'[s] \cap held[s] = {}
      BY <3>1, <3>2 DEF Covered
    <3> QED
      BY <3>1, <3>2, <3>3 DEF Covered
  <2> QED
    BY <1>5, <2>1, <2>2, OwnCover DEF Sweep, CoverInv
<1>6. ASSUME NEW s \in Sessions, Resolve(s) PROVE CoverInv'
  <2>1. Domains'
    BY <1>6 DEF Resolve, CoverInv
  <2>2. Covered(s)'
    <3>1. /\ pc[s] = "resolve" /\ sweep'[s] \subseteq sweep[s]
          /\ UNCHANGED <<cond, pc, scope, todo, active, held>>
      BY <1>6 DEF Resolve, CoverInv
    <3>2. Covered(s)
      BY DEF CoverInv
    <3> QED
      BY <3>1, <3>2 DEF Covered
  <2> QED
    BY <1>6, <2>1, <2>2, OwnCover DEF Resolve, CoverInv
<1>7. ASSUME NEW s \in Sessions, Patch(s) PROVE CoverInv'
  <2>1. Domains'
    BY <1>7 DEF Patch, CoverInv
  <2>2. Covered(s)'
    <3>1. /\ pc[s] = "idle" /\ pc'[s] = "patch"
          /\ UNCHANGED <<cond, scope, todo, active, sweep, held>>
      BY <1>7 DEF Patch, CoverInv
    <3>2. Covered(s)
      BY DEF CoverInv
    <3> QED
      BY <3>1, <3>2 DEF Covered
  <2> QED
    BY <1>7, <2>1, <2>2, OwnCover DEF Patch, CoverInv
<1>8. ASSUME NEW s \in Sessions, Commit(s) \/ PatchSave(s) \/ DeadlockVictim(s)
      PROVE  CoverInv'
  BY <1>8, EndCover DEF Commit, PatchSave, DeadlockVictim
<1>9. CASE DataChanges
  <2>1. Domains' /\ cond' \subseteq Keys
    BY <1>9, CondKeys DEF DataChanges, jobVars, CoverInv
  <2>2. ASSUME NEW s \in Sessions PROVE Covered(s)'
    <3>1. /\ held'[s] = held[s] \cap cond'
          /\ UNCHANGED <<pc, scope, todo, active, sweep>>
      BY <1>9 DEF DataChanges, jobVars
    <3>2. Covered(s)
      BY DEF CoverInv
    <3> QED
      BY <3>1, <3>2 DEF Covered, CampaignKeys
  <2> QED
    BY <2>1, <2>2 DEF CoverInv
<1>10. CASE UNCHANGED vars
  <2>1. Domains' /\ cond' \subseteq Keys
    BY <1>10 DEF vars, jobVars, CoverInv
  <2>2. ASSUME NEW s \in Sessions PROVE Covered(s)'
    <3>1. Covered(s) /\ UNCHANGED <<pc, scope, todo, active, sweep, held, cond>>
      BY <1>10 DEF vars, jobVars, CoverInv
    <3> QED
      BY <3>1 DEF Covered
  <2> QED
    BY <2>1, <2>2 DEF CoverInv
<1> QED
  BY <1>1, <1>2, <1>3, <1>4, <1>5, <1>6, <1>7, <1>8, <1>9, <1>10 DEF Next, Progress

\* When every evaluation is of all accounts, auto-resolution never picks an alert whose
\* condition has held since the evaluation began (AlertsService.evaluate emits them all
\* before it resolves); an evaluation of one account does, as the run alerts_scoped shows.
THEOREM FiringStands ==
  ASSUME Scopes = {Nobody}
  PROVE  Spec => []NeverResolvesFiring
<1>1. Init => CoverInv
  BY DEF Init, CoverInv, Domains, Covered
<1>2. CoverInv => NeverResolvesFiring
  BY DEF CoverInv, Covered, NeverResolvesFiring
<1>3. CoverInv /\ TypeOK /\ [Next]_vars => CoverInv'
  BY CoverStep
<1>4. Spec => []TypeOK
  BY AlertTyping
<1> QED
  BY <1>1, <1>2, <1>3, <1>4, PTL DEF Spec

-----------------------------------------------------------------------------
(* One thread serves every request: what the console shows.                *)

OneThread == \A r, s \in Sessions : r = s

Honest(a) == a.stamped <=> a.status = "resolved"

\* The written row is the loaded one; rows are honest; muted ones stay muted.
Rows(s) ==
  /\ pc[s] \in {"save", "patch"} => row[s] = Seen(s, cur[s])
  /\ \A k \in Keys :
       /\ Honest(Seen(s, k))
       /\ alerts[k].status = "dismissed" => Seen(s, k).status = "dismissed"

\* What was emitted is open or muted, but for the row about to be written; when
\* the emission is over, what else is open is about to be resolved.
Emitted(s) ==
  /\ \A k \in active[s] :
       (pc[s] = "save" /\ k = cur[s]) \/ Seen(s, k).status \in {"open", "dismissed"}
  /\ \A k \in sweep[s] : Seen(s, k).status = "open" /\ k \notin active[s]
  /\ pc[s] # "resolve" => sweep[s] = {}
  /\ pc[s] = "resolve" =>
       /\ todo[s] = {}
       /\ \A k \in Keys : Seen(s, k).status = "open" => k \in active[s] \cup sweep[s]

\* No condition that held since the evaluation began is lost on the way.
Listed(s) == held[s] \cap InScope(scope[s]) \subseteq todo[s] \cup active[s]

SerialInv ==
  /\ AlertInv /\ StampHonest
  /\ \A s \in Sessions : Rows(s) /\ Emitted(s) /\ Listed(s)

-----------------------------------------------------------------------------
\* Refreshing or patching the row as it is leaves an honest one.
LEMMA HonestWrites ==
  ASSUME NEW a \in Alerts, Honest(a), NEW status \in Statuses
  PROVE  /\ Honest(Refreshed(a, a)) /\ Refreshed(a, a).status \in {"open", "dismissed"}
         /\ a.status = "dismissed" => Refreshed(a, a) = a
         /\ Honest(Patched(a, a, status))
  BY DEF Honest, Refreshed, Patched, Alerts, Statuses

\* The end of a request with honest alerts.
LEMMA EndSerial ==
  ASSUME AlertInv, AlertInv', StampHonest', NEW s \in Sessions, End(s)
  PROVE  Rows(s)' /\ Emitted(s)' /\ Listed(s)'
<1>1. /\ pc'[s] = "idle" /\ draft'[s] = <<>> /\ active'[s] = {} /\ sweep'[s] = {}
      /\ held'[s] = {}
  BY DEF End, AlertInv, TypeOK
<1>2. \A k \in Keys : Seen(s, k)' = alerts'[k]
  BY <1>1 DEF Seen
<1> QED
  BY <1>1, <1>2 DEF Rows, Emitted, Listed, StampHonest, Honest

\* Steps that write no row.
LEMMA SerialReads ==
  ASSUME SerialInv, NEW s \in Sessions,
         Evaluate(s) \/ Emit(s) \/ Tail(s) \/ Sweep(s) \/ Patch(s)
  PROVE  Rows(s)' /\ Emitted(s)' /\ Listed(s)'
<1>1. TypeOK /\ Rows(s) /\ Emitted(s) /\ Listed(s)
  BY DEF SerialInv, AlertInv
<1>2. \A k : Seen(s, k)' = Seen(s, k)
  BY DEF Evaluate, Emit, Tail, Sweep, Patch, Seen
<1>3. CASE Evaluate(s)
  <2>1. /\ pc'[s] = "emit" /\ active'[s] = {} /\ sweep'[s] = sweep[s] /\ pc[s] = "idle"
        /\ todo'[s] = cond \cap InScope(scope'[s]) /\ held'[s] = cond
        /\ UNCHANGED alerts
    BY <1>1, <1>3 DEF Evaluate, TypeOK
  <2>2. Rows(s)' /\ Emitted(s)'
    BY <1>1, <1>2, <2>1 DEF Rows, Emitted
  <2>3. Listed(s)'
    BY <2>1 DEF Listed, InScope
  <2> QED
    BY <2>2, <2>3
<1>4. CASE Emit(s)
  <2>1. PICK k \in todo[s] :
          /\ cur'[s] = k /\ row'[s] = Seen(s, k) /\ active'[s] = active[s] \cup {k}
          /\ todo'[s] = todo[s] \ {k} /\ pc'[s] = "save" /\ pc[s] \in {"emit", "tail"}
          /\ UNCHANGED <<alerts, sweep, held, scope>>
    BY <1>1, <1>4 DEF Emit, TypeOK
  <2>2. Rows(s)' /\ Emitted(s)'
    BY <1>1, <1>2, <2>1 DEF Rows, Emitted
  <2>3. Listed(s)'
    BY <1>1, <2>1 DEF Listed, InScope
  <2> QED
    BY <2>2, <2>3
<1>5. CASE Tail(s)
  <2>1. /\ todo[s] = {} /\ pc'[s] = "tail" /\ pc[s] = "emit"
        /\ UNCHANGED <<alerts, active, sweep, held, scope>>
    BY <1>1, <1>5 DEF Tail, TypeOK
  <2>2. Rows(s)' /\ Emitted(s)'
    BY <1>1, <1>2, <2>1 DEF Rows, Emitted
  <2>3. Listed(s)'
    BY <1>1, <2>1 DEF Listed, InScope
  <2> QED
    BY <2>2, <2>3
<1>6. CASE Sweep(s)
  <2>1. /\ todo[s] = {} /\ pc'[s] = "resolve" /\ pc[s] = "tail"
        /\ sweep'[s] = {k \in Keys : Seen(s, k).status = "open" /\ k \notin active[s]}
        /\ UNCHANGED <<alerts, active, todo, held, scope>>
    BY <1>1, <1>6 DEF Sweep, TypeOK
  <2>2. Rows(s)' /\ Emitted(s)'
    BY <1>1, <1>2, <2>1 DEF Rows, Emitted
  <2>3. Listed(s)'
    BY <1>1, <2>1 DEF Listed, InScope
  <2> QED
    BY <2>2, <2>3
<1>7. CASE Patch(s)
  <2>1. PICK k \in Keys : cur'[s] = k /\ row'[s] = alerts[k]
    BY <1>1, <1>7 DEF Patch, TypeOK
  <2>2. /\ pc'[s] = "patch" /\ pc[s] = "idle" /\ draft[s] = <<>>
        /\ UNCHANGED <<alerts, active, sweep, todo, held, scope>>
    BY <1>1, <1>7 DEF Patch, TypeOK
  <2>3. Seen(s, k)' = alerts[k] /\ Seen(s, cur[s])' = alerts[k]
    BY <2>1, <2>2, <1>7 DEF Seen, Patch
  <2>4. Rows(s)' /\ Emitted(s)'
    BY <1>1, <1>2, <2>1, <2>2, <2>3 DEF Rows, Emitted
  <2>5. Listed(s)'
    BY <1>1, <2>2 DEF Listed, InScope
  <2> QED
    BY <2>4, <2>5
<1> QED
  BY <1>3, <1>4, <1>5, <1>6, <1>7

\* The flush of an emitted key.
LEMMA SerialFlush ==
  ASSUME SerialInv, NEW s \in Sessions, Save(s), Flush(s)
  PROVE  Rows(s)' /\ Emitted(s)' /\ Listed(s)'
<1> DEFINE new == IF row[s] = None THEN [status |-> "open", stamped |-> FALSE]
                  ELSE Refreshed(row[s], Seen(s, cur[s]))
<1>1. TypeOK /\ Rows(s) /\ Emitted(s) /\ Listed(s) /\ pc[s] = "save" /\ cur[s] \in Keys
  BY DEF SerialInv, AlertInv, Loaded, Save
<1>2. row[s] = Seen(s, cur[s]) /\ row[s] \in Alerts \cup {None} /\ Honest(row[s])
  BY <1>1 DEF Rows, TypeOK
<1>3. /\ Honest(new) /\ new.status \in {"open", "dismissed"}
      /\ row[s].status = "dismissed" => new.status = "dismissed"
  <2>1. CASE row[s] = None
    BY <2>1 DEF Honest, None
  <2>2. CASE row[s] # None
    BY <1>2, <2>2, HonestWrites DEF Statuses
  <2> QED
    BY <2>1, <2>2
<1>4. /\ draft'[s] = Put(draft[s], cur[s], new)
      /\ pc'[s] \in {"emit", "tail"}
      /\ UNCHANGED <<alerts, scope, todo, active, cur, row, sweep, held>>
  BY <1>1 DEF Flush, Resume, TypeOK
<1> HIDE DEF new
<1>5. \A k \in Keys : Seen(s, k)' = IF k = cur[s] THEN new ELSE Seen(s, k)
  BY <1>4 DEF Seen, Put
<1>6. Rows(s)'
  BY <1>1, <1>2, <1>3, <1>4, <1>5 DEF Rows
<1>7. Emitted(s)'
  BY <1>1, <1>3, <1>4, <1>5 DEF Emitted, TypeOK
<1>8. Listed(s)'
  BY <1>1, <1>4 DEF Listed, InScope
<1> QED
  BY <1>6, <1>7, <1>8

\* The flush of a key to resolve.
LEMMA SerialResolve ==
  ASSUME SerialInv, NEW s \in Sessions, Resolve(s)
  PROVE  Rows(s)' /\ Emitted(s)' /\ Listed(s)'
<1> DEFINE new == [status |-> "resolved", stamped |-> TRUE]
<1>1. TypeOK /\ Rows(s) /\ Emitted(s) /\ Listed(s) /\ pc[s] = "resolve"
  BY DEF SerialInv, AlertInv, Resolve
<1>2. PICK k \in sweep[s] :
        /\ draft'[s] = Put(draft[s], k, new) /\ sweep'[s] = sweep[s] \ {k}
        /\ UNCHANGED <<alerts, pc, scope, todo, active, cur, row, held>>
  BY <1>1 DEF Resolve, TypeOK
<1>3. k \in Keys /\ k \notin active[s] /\ Seen(s, k).status = "open"
  BY <1>1, <1>2 DEF Emitted, TypeOK
<1>4. \A x \in Keys : Seen(s, x)' = IF x = k THEN new ELSE Seen(s, x)
  BY <1>2 DEF Seen, Put
<1>5. Honest(new) /\ new.status = "resolved"
  BY DEF Honest
<1> HIDE DEF new
<1>6. Rows(s)'
  BY <1>1, <1>2, <1>3, <1>4, <1>5 DEF Rows
<1>7. Emitted(s)'
  BY <1>1, <1>2, <1>3, <1>4, <1>5 DEF Emitted, TypeOK
<1>8. Listed(s)'
  BY <1>1, <1>2 DEF Listed, InScope
<1> QED
  BY <1>6, <1>7, <1>8

\* The commits leave honest alerts.
LEMMA CommitsHonest ==
  ASSUME SerialInv, NEW s \in Sessions, Commit(s) \/ PatchSave(s)
  PROVE  StampHonest'
<1>1. Rows(s) /\ TypeOK /\ Loaded /\ StampHonest
  BY DEF SerialInv, AlertInv
<1>2. CASE Commit(s)
  BY <1>1, <1>2 DEF Commit, Rows, StampHonest, Honest
<1>3. CASE PatchSave(s)
  <2>1. pc[s] = "patch" /\ draft[s] = <<>> /\ cur[s] \in Keys /\ row[s] # None
    BY <1>1, <1>3 DEF PatchSave, TypeOK, Loaded
  <2>2. row[s] = alerts[cur[s]] /\ row[s] \in Alerts /\ wish[s] \in Statuses
    BY <1>1, <2>1 DEF Rows, Seen, TypeOK
  <2>3. Honest(alerts[cur[s]])
    BY <1>1, <2>1 DEF StampHonest, Honest
  <2>4. Honest(Patched(row[s], alerts[cur[s]], wish[s]))
    BY <2>2, <2>3, HonestWrites
  <2>5. \A k \in Keys : Honest(alerts'[k])
    BY <1>1, <1>3, <2>1, <2>4 DEF PatchSave, TypeOK, StampHonest, Honest
  <2> QED
    BY <2>5 DEF StampHonest, Honest
<1> QED
  BY <1>2, <1>3

LEMMA SerialStep == OneThread /\ SerialInv /\ [Next]_vars => SerialInv'
<1> SUFFICES ASSUME OneThread, SerialInv, [Next]_vars PROVE SerialInv'
  OBVIOUS
<1>1. AlertInv /\ AlertInv'
  BY AlertStep DEF SerialInv
<1>2. ASSUME NEW s \in Sessions, Rows(s)' /\ Emitted(s)' /\ Listed(s)', StampHonest'
      PROVE  SerialInv'
  <2>1. \A r \in Sessions : r = s
    BY DEF OneThread
  <2> QED
    BY <1>1, <1>2, <2>1 DEF SerialInv
<1>3. ASSUME UNCHANGED alerts PROVE StampHonest'
  BY <1>3 DEF SerialInv, StampHonest
<1>4. ASSUME NEW s \in Sessions, Evaluate(s) \/ Emit(s) \/ Tail(s) \/ Sweep(s) \/ Patch(s)
      PROVE  SerialInv'
  <2>1. UNCHANGED alerts
    BY <1>4 DEF Evaluate, Emit, Tail, Sweep, Patch
  <2> QED
    BY <1>2, <1>3, <1>4, <2>1, SerialReads
<1>5. ASSUME NEW s \in Sessions, Save(s) PROVE SerialInv'
  <2>1. UNCHANGED alerts /\ (End(s) \/ Flush(s))
    BY <1>5 DEF Save, Conflict, Flush
  <2> QED
    BY <1>1, <1>2, <1>3, <1>5, <2>1, SerialFlush, EndSerial
<1>6. ASSUME NEW s \in Sessions, Resolve(s) PROVE SerialInv'
  BY <1>2, <1>3, <1>6, SerialResolve DEF Resolve
<1>7. ASSUME NEW s \in Sessions, Commit(s) \/ PatchSave(s) PROVE SerialInv'
  <2>1. End(s)
    BY <1>7 DEF Commit, PatchSave
  <2> QED
    BY <1>1, <1>2, <1>7, <2>1, CommitsHonest, EndSerial
<1>8. ASSUME NEW s \in Sessions, DeadlockVictim(s) PROVE SerialInv'
  BY <1>1, <1>2, <1>3, <1>8, EndSerial DEF DeadlockVictim
<1>9. CASE DataChanges
  <2>1. /\ UNCHANGED <<alerts, pc, scope, todo, active, cur, row, sweep, draft>>
        /\ \A s \in Sessions : held'[s] \subseteq held[s]
    BY <1>9 DEF DataChanges, jobVars
  <2>2. \A s, k : Seen(s, k)' = Seen(s, k)
    BY <2>1 DEF Seen
  <2>3. \A s \in Sessions : Rows(s)' /\ Emitted(s)'
    BY <2>1, <2>2 DEF SerialInv, Rows, Emitted
  <2>4. \A s \in Sessions : Listed(s)'
    BY <2>1 DEF SerialInv, Listed, InScope
  <2> QED
    BY <1>1, <1>3, <2>1, <2>3, <2>4 DEF SerialInv
<1>10. CASE UNCHANGED vars
  BY <1>1, <1>10 DEF vars, jobVars, SerialInv, StampHonest, Rows, Emitted, Listed, Seen, InScope
<1> QED
  BY <1>4, <1>5, <1>6, <1>7, <1>8, <1>9, <1>10 DEF Next, Progress

LEMMA SerialInit == Init => SerialInv
<1> SUFFICES ASSUME Init PROVE SerialInv
  OBVIOUS
<1>1. AlertInv
  <2>1. Loaded
    BY DEF Init, Loaded
  <2>2. TypeOK
    BY BoundAssumption DEF Init, TypeOK, Phases, Statuses
  <2> QED
    BY <2>1, <2>2 DEF AlertInv
<1>2. \A s \in Sessions, k \in Keys : Seen(s, k) = None
  BY DEF Init, Seen
<1>3. StampHonest /\ Honest(None) /\ None.status = "none"
  BY DEF Init, StampHonest, Honest, None
<1>4. \A s \in Sessions : Rows(s)
  BY <1>2, <1>3 DEF Init, Rows
<1>5. \A s \in Sessions : Emitted(s) /\ Listed(s)
  BY DEF Init, Emitted, Listed
<1> QED
  BY <1>1, <1>3, <1>4, <1>5 DEF SerialInv

-----------------------------------------------------------------------------
\* resolved_at is set exactly on resolved alerts, whatever sequence of evaluations
\* (upsert_by_dedupe, auto_resolve_missing) and set_status one thread serves.
THEOREM SerialStamps ==
  ASSUME OneThread
  PROVE  Spec => []StampHonest
<1>1. SerialInv => StampHonest
  BY DEF SerialInv
<1>2. SerialInv /\ [Next]_vars => SerialInv'
  BY SerialStep
<1> QED
  BY SerialInit, <1>1, <1>2, PTL DEF Spec

\* A dismissed alert leaves that status by set_status on it alone: a refresh keeps it
\* and auto_resolve_missing selects open alerts.
THEOREM SerialDismissed ==
  ASSUME OneThread
  PROVE  Spec => DismissedStays
<1> DEFINE Stays == \A k \in Keys :
       alerts[k].status = "dismissed" /\ alerts'[k].status # "dismissed" =>
         \E s \in Sessions : pc[s] = "patch" /\ pc'[s] = "idle" /\ cur[s] = k
<1>1. SerialInv /\ [Next]_vars => [Stays]_vars
  <2> SUFFICES ASSUME SerialInv, Next PROVE Stays
    OBVIOUS
  <2>1. ASSUME NEW s \in Sessions, Commit(s) PROVE Stays
    <3>1. Rows(s) /\ alerts' = [k \in Keys |-> Seen(s, k)]
      BY <2>1 DEF SerialInv, Commit
    <3> QED
      BY <3>1 DEF Rows
  <2>2. ASSUME NEW s \in Sessions, PatchSave(s) PROVE Stays
    <3>1. /\ pc[s] = "patch" /\ pc'[s] = "idle"
          /\ \A k \in Keys \ {cur[s]} : alerts'[k] = alerts[k]
      BY <2>2 DEF PatchSave, End, SerialInv, AlertInv, TypeOK
    <3> QED
      BY <3>1
  <2>3. ASSUME UNCHANGED alerts PROVE Stays
    BY <2>3
  <2>4. ASSUME NEW s \in Sessions,
               \/ Evaluate(s) \/ Patch(s) \/ Emit(s) \/ Save(s) \/ Tail(s)
               \/ Sweep(s) \/ Resolve(s) \/ DeadlockVictim(s)
        PROVE  UNCHANGED alerts
    BY <2>4 DEF Evaluate, Patch, Emit, Save, Conflict, Flush, Tail, Sweep, Resolve,
                DeadlockVictim
  <2>5. DataChanges => UNCHANGED alerts
    BY DEF DataChanges
  <2> QED
    BY <2>1, <2>2, <2>3, <2>4, <2>5 DEF Next, Progress
<1>2. SerialInv /\ [Next]_vars => SerialInv'
  BY SerialStep
<1> HIDE DEF Stays
<1>3. Spec => [][Stays]_vars
  BY SerialInit, <1>1, <1>2, PTL DEF Spec
<1> QED
  BY <1>3 DEF DismissedStays, Stays

\* AlertsService.evaluate leaves a current console: what has fired in its scope since it
\* began is open or dismissed, and nothing is open that it did not find firing.
THEOREM SerialConsole ==
  ASSUME OneThread
  PROVE  Spec => ConsoleCurrent
<1> DEFINE Current == \A s \in Sessions : Commits(s) =>
       /\ \A k \in held[s] \cap InScope(scope[s]) :
            alerts'[k].status \in {"open", "dismissed"}
       /\ \A k \in Keys : alerts'[k].status = "open" => k \in active[s]
<1>1. SerialInv /\ [Next]_vars => [Current]_vars
  <2> SUFFICES ASSUME SerialInv, Next, NEW s \in Sessions, Commits(s)
               PROVE  /\ \A k \in held[s] \cap InScope(scope[s]) :
                           alerts'[k].status \in {"open", "dismissed"}
                      /\ \A k \in Keys : alerts'[k].status = "open" => k \in active[s]
    OBVIOUS
  <2>1. /\ pc[s] = "resolve" /\ pc'[s] = "idle" /\ sweep[s] = {}
        /\ TypeOK /\ Emitted(s) /\ Listed(s)
    BY DEF Commits, SerialInv, AlertInv
  <2>2. PICK r \in Sessions : Evaluate(r) \/ Patch(r) \/ Progress(r)
    BY <2>1 DEF Next, DataChanges, jobVars
  <2>3. r = s
    BY OneThread DEF OneThread
  <2>4. ~DeadlockVictim(s)
    BY <2>1 DEF DeadlockVictim, Stuck, Wants
  <2>5. Commit(s)
    BY <2>1, <2>2, <2>3, <2>4
    DEF Progress, Evaluate, Patch, Emit, Save, Tail, Sweep, Resolve, PatchSave, TypeOK
  <2>6. \A k \in Keys : alerts'[k] = Seen(s, k)
    BY <2>5 DEF Commit
  <2>7. held[s] \cap InScope(scope[s]) \subseteq active[s] /\ active[s] \subseteq Keys
    BY <2>1 DEF Listed, Emitted, TypeOK
  <2> QED
    BY <2>1, <2>6, <2>7 DEF Emitted
<1>2. SerialInv /\ [Next]_vars => SerialInv'
  BY SerialStep
<1> HIDE DEF Current
<1>3. Spec => [][Current]_vars
  BY SerialInit, <1>1, <1>2, PTL DEF Spec
<1> QED
  BY <1>3 DEF ConsoleCurrent, Current

=============================================================================
