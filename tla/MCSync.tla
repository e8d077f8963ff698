------------------------------- MODULE MCSync -------------------------------
(* Requests for model-checking SyncEngine.                                *)
EXTENDS SyncEngine, TLC

CONSTANTS c1, c2, j1, j2

Sync(entity, customers, lookback) ==
  [backfill |-> FALSE, entity |-> entity, customers |-> customers,
   lookback |-> lookback, start |-> 0, end |-> 0]

Backfill(entity, customers, start, end) ==
  [backfill |-> TRUE, entity |-> entity, customers |-> customers,
   lookback |-> 1, start |-> start, end |-> end]

\* Re-syncs of one table with sliding and overlapping windows.
BudgetRequests == {Sync("budgets", {c1}, 2), Backfill("budgets", {c1}, 1, 2)}

\* Two accounts, windows that overlap, the combined step and the appending one.
MixedRequests ==
  {Sync("budgets", {c1, c2}, 1), Backfill("budgets", {c1}, 1, 2),
   Sync("recommendations", {c1}, 1)}

\* The daily job: everything, accounts discovered first.
FullRequests == {Sync("all", {}, 1)}

\* Invocations that meet on the accounts, budgets and budget snapshots tables,
\* with windows that overlap.
ConcurrentRequests == BudgetRequests \cup {Sync("accounts", {}, 1)}
=============================================================================
