------------------------------ MODULE SyncPlan ------------------------------
(***************************************************************************)
(* What one sync invocation does and in which order: the ordered steps of  *)
(* SyncService._steps_for, the parent tables each step resolves its rows   *)
(* against, the reporting window, and how step outcomes are aggregated.    *)
(* A table is named after the step that writes it.                         *)
(***************************************************************************)
EXTENDS Integers, Sequences

\* The entity names a request may target (schemas/sync.py, SyncEntity).
EntityNames ==
  {"all", "accounts", "budgets", "campaigns", "ad_groups", "keywords", "ads",
   "search_terms", "recommendations"}

\* Steps that only upsert a dimension table ("search_terms" also upserts one).
DimSteps == {"accounts", "budgets", "campaigns", "ad_groups", "keywords", "ads"}

\* Steps that clear a reporting window and re-insert it (replace_window).
WindowSteps ==
  {"budget_snapshots", "campaign_snapshots", "campaign_device_snapshots",
   "campaign_geo_snapshots", "ad_group_snapshots", "keyword_snapshots",
   "ad_snapshots", "search_terms"}

\* Steps that only add rows (bulk_insert).
AppendSteps == {"recommendations"}

Steps     == DimSteps \cup WindowSteps \cup AppendSteps
DimTables == DimSteps \cup {"search_terms"}
SnapSteps == WindowSteps \cup AppendSteps

Dims(name) == IF name \in DimSteps \ {"accounts"} THEN <<name>> ELSE <<>>

Snaps(name) ==
  CASE name = "budgets"   -> <<"budget_snapshots">>
    [] name = "campaigns" -> <<"campaign_snapshots", "campaign_device_snapshots",
                               "campaign_geo_snapshots">>
    [] name = "ad_groups" -> <<"ad_group_snapshots">>
    [] name = "keywords"  -> <<"keyword_snapshots">>
    [] name = "ads"       -> <<"ad_snapshots">>
    [] name \in {"search_terms", "recommendations"} -> <<name>>
    [] OTHER -> <<>>

Build(name, snapshotsOnly) ==
  (IF snapshotsOnly THEN <<>> ELSE Dims(name)) \o Snaps(name)

\* Mutant of StepsFor: ad groups before the campaigns they belong to.
StepsForSwapped(entity, snapshotsOnly) ==
  LET B(name) == Build(name, snapshotsOnly)
  IN  IF entity = "all"
        THEN B("budgets") \o B("ad_groups") \o B("campaigns") \o B("keywords")
               \o B("ads") \o B("search_terms") \o B("recommendations")
        ELSE B(entity)

\* The steps for one account; a backfill runs the snapshot steps only.
StepsFor(entity, snapshotsOnly) ==
  LET B(name) == Build(name, snapshotsOnly)
  IN  IF entity = "all"
        THEN B("budgets") \o B("campaigns") \o B("ad_groups") \o B("keywords")
               \o B("ads") \o B("search_terms") \o B("recommendations")
        ELSE B(entity)

\* The dimension tables a fetched row must be found in to be written.
Needs(step) ==
  CASE step \in {"ad_groups", "campaign_snapshots", "campaign_device_snapshots",
                 "campaign_geo_snapshots"}             -> {"campaigns"}
    [] step \in {"keywords", "ads"}                    -> {"ad_groups"}
    [] step = "budget_snapshots"                       -> {"budgets"}
    [] step \in {"ad_group_snapshots", "search_terms"} -> {"campaigns", "ad_groups"}
    [] step = "keyword_snapshots" -> {"campaigns", "ad_groups", "keywords"}
    [] step = "ad_snapshots"      -> {"campaigns", "ad_groups", "ads"}
    [] OTHER                      -> {}

\* The last `lookback` complete days: the window ends yesterday.
DefaultWindow(today, lookback) ==
  [start |-> today - 1 - (IF lookback > 1 THEN lookback - 1 ELSE 0),
   end   |-> today - 1]

Overlap(w1, w2) == w1.start <= w2.end /\ w2.start <= w1.end

\* Mutant of Absorb: a failed step fails the invocation.
AbsorbFailed(total, outcome) == IF outcome = "failed" THEN "failed" ELSE total

\* Mutant of Absorb: a partial step leaves a success.
AbsorbNoPartial(total, outcome) == IF outcome = "failed" THEN "partial" ELSE total

\* _Aggregate.absorb: the status of an invocation after one more outcome.
Absorb(total, outcome) ==
  CASE outcome = "failed" -> IF total = "failed" THEN "failed" ELSE "partial"
    [] outcome = "partial" /\ total = "success" -> "partial"
    [] OTHER -> total
=============================================================================
