SPECIFICATION Spec
CONSTANTS
  c1 = c1
  c2 = c2
  j1 = j1
  j2 = j2
  Jobs = {j1, j2}
  Customers = {c1}
  Manager = m
  Configured = {}
  Ids = {g1}
  NoDate = NoDate
  Requests <- BudgetRequests
  FirstDay = 3
  LastDay = 3
  MaxInvocations = 1
  MaxDeviations = 0
INVARIANTS OneRowPerEntityDay
CHECK_DEADLOCK FALSE
