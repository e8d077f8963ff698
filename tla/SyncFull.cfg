SPECIFICATION Spec
CONSTANTS
  c1 = c1
  c2 = c2
  j1 = j1
  j2 = j2
  Jobs = {j1}
  Customers = {c1, c2}
  Manager = m
  Configured = {}
  Ids = {g1}
  NoDate = NoDate
  Requests <- FullRequests
  FirstDay = 2
  LastDay = 2
  MaxInvocations = 1
  MaxDeviations = 2
INVARIANTS ParentsSyncedFirst ParentsKnown
CHECK_DEADLOCK FALSE
