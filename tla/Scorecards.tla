----------------------------- MODULE Scorecards -----------------------------
(***************************************************************************)
(* The weekly scorecard of each campus: the snapshot of what was achieved  *)
(* since the newest plan, and the alerts that compare the two newest       *)
(* snapshots (AdCopyService.save_scorecard, build_scorecard,               *)
(* snapshot_all_scorecards, build_week_alerts).                            *)
(*                                                                         *)
(* Plans and snapshots of a campus are found by a part of its name.        *)
(***************************************************************************)
EXTENDS Naturals, Sequences, SequencesExt, Functions, FiniteSets, FiniteSetsExt

CONSTANTS
  Campuses,   \* campuses that have or will have plans
  NameContains,   \* pairs <<c, d>>: the name of campus c contains that of d
  MaxPlans,   \* bound: plans
  MaxSaved,   \* bound: a job is started while fewer snapshots are stored
  LastWeek    \* bound: the last week

ASSUME ScorecardAssumption ==
  /\ NameContains \subseteq Campuses \X Campuses
  /\ \A c \in Campuses : <<c, c>> \in NameContains
  /\ "idle" \notin Campuses
  /\ MaxPlans \in Nat /\ MaxSaved \in Nat /\ LastWeek \in Nat

VARIABLES
  week,      \* the current week
  facts,     \* facts[c][w]: [cost, leads] of campus c in week w
  plans,     \* ad_copy_generations, oldest first: [campus, since]
  saved,     \* scorecard_snapshots that are committed, oldest first
  flushed,   \* those of the running job that are flushed only
  todo,      \* campuses the running job has still to do, and "idle" when none runs
  done       \* history: campuses the latest job has saved

scorecardVars == <<week, facts, plans, saved, flushed, todo, done>>

NoJob == {"idle"}

ScorecardInit ==
  /\ week = 1
  /\ facts = [c \in Campuses |-> [w \in 1..LastWeek |-> [cost |-> 0, leads |-> 0]]]
  /\ plans = <<>>
  /\ saved = <<>>
  /\ flushed = <<>>
  /\ todo = NoJob
  /\ done = {}

\* A week passes; every campus spends or not, and gets leads for it or not.
NextWeek ==
  /\ week < LastWeek
  /\ week' = week + 1
  /\ \E f \in [Campuses -> {[cost |-> 0, leads |-> 0], [cost |-> 1, leads |-> 0],
                            [cost |-> 1, leads |-> 1]}] :
       facts' = [c \in Campuses |-> [facts[c] EXCEPT ![week] = f[c]]]
  /\ UNCHANGED <<plans, saved, flushed, todo, done>>

\* generate stores a plan of the campus.
NewPlan ==
  /\ Len(plans) < MaxPlans
  /\ \E c \in Campuses : plans' = Append(plans, [campus |-> c, since |-> week])
  /\ UNCHANGED <<week, facts, saved, flushed, todo, done>>

\* Where in s, oldest first, an element has a campus that matches c.
Found(s, c) == {n \in DOMAIN s : <<s[n].campus, c>> \in NameContains}

\* The newest of them, and the one before it.
Newest(s, c) == Max(Found(s, c))
Previous(s, c) == Max(Found(s, c) \ {Newest(s, c)})

\* build_scorecard counts from the day of the newest plan that recent() finds.
Since(c) == plans[Newest(plans, c)].since

\* What a campus spent, or the leads it got, in the weeks of a set.
Sum(c, what, weeks) ==
  SumFunctionOnSet([w \in 1..LastWeek |-> facts[c][w][what]], weeks)

\* _achieved: the campus's own results from the plan on.
Achieved(c, what) == Sum(c, what, {w \in 1..LastWeek : w >= Since(c)})

Snapshot(c) ==
  [campus |-> c, cost |-> Achieved(c, "cost"), leads |-> Achieved(c, "leads"),
   since |-> Since(c), at |-> week]

\* snapshot_all_scorecards: every campus that has a plan.
StartJob ==
  /\ todo = NoJob /\ Len(saved) < MaxSaved
  /\ todo' = {p.campus : p \in ToSet(plans)}
  /\ todo' # {}
  /\ done' = {}
  /\ UNCHANGED <<week, facts, plans, saved, flushed>>

Rest(c) == IF todo = {c} THEN NoJob ELSE todo \ {c}

\* Mutant of Committed: save_scorecard leaves the commit to the end of the job.
CommittedLate(c) == todo = {c}

\* save_scorecard commits.
Committed(c) == TRUE

\* save_scorecard of the next campus.
SaveScorecard(c) ==
  /\ c \in todo /\ c \in Campuses
  /\ IF Committed(c)
       THEN /\ saved' = saved \o Append(flushed, Snapshot(c))
            /\ flushed' = <<>>
       ELSE /\ flushed' = Append(flushed, Snapshot(c))
            /\ UNCHANGED saved
  /\ todo' = Rest(c)
  /\ done' = done \cup {c}
  /\ UNCHANGED <<week, facts, plans>>

\* One campus raises: the session is rolled back and the next one is done.
FailScorecard(c) ==
  /\ c \in todo /\ c \in Campuses
  /\ flushed' = <<>>
  /\ todo' = Rest(c)
  /\ UNCHANGED <<week, facts, plans, saved, done>>

ScorecardNext ==
  \/ NextWeek \/ NewPlan \/ StartJob
  \/ \E c \in Campuses : SaveScorecard(c) \/ FailScorecard(c)

-----------------------------------------------------------------------------
\* Mutant of NoNewLeads: equal totals of leads are no reason to warn.
NoNewLeadsFewer(cur, prev) == cur.cost > prev.cost /\ cur.leads < prev.leads

\* build_week_alerts: "Spend, no new leads".
NoNewLeads(cur, prev) == cur.cost > prev.cost /\ cur.leads <= prev.leads

\* Two snapshots are needed, the newest is compared with the one before.
Comparable(c) == Cardinality(Found(saved, c)) >= 2

Current(c) == saved[Newest(saved, c)]
Earlier(c) == saved[Previous(saved, c)]

Warned(c) == Comparable(c) /\ NoNewLeads(Current(c), Earlier(c))

\* What really happened to campus c between two weeks.
Between(c, what, from, to) == Sum(c, what, {w \in 1..LastWeek : from <= w /\ w < to})

(* Properties.                                                             *)

\* A campus that fails takes no snapshot of another campus along: when the job is
\* over, all that were computed are stored.
OthersSurvive ==
  todo = NoJob =>
    \A c \in done : \E s \in ToSet(saved) : s.campus = c

\* Between two snapshots of one campus under one plan the alert is right: money
\* was spent in between and no lead came in.
AlertsRight ==
  \A c \in Campuses :
    /\ Comparable(c)
    /\ Current(c).campus = c /\ Earlier(c).campus = c
    /\ Current(c).since = Earlier(c).since
    => (Warned(c) <=>
          /\ Between(c, "cost", Earlier(c).at, Current(c).at) > 0
          /\ Between(c, "leads", Earlier(c).at, Current(c).at) = 0)
=============================================================================
