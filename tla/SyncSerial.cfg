SPECIFICATION Spec
CONSTANTS
  c1 = c1
  c2 = c2
  j1 = j1
  j2 = j2
  Jobs = {j1}
  Customers = {c1, c2}
  Manager = m
  Configured = {}
  Ids = {g1}
  NoDate = NoDate
  Requests <- MixedRequests
  FirstDay = 2
  LastDay = 3
  MaxInvocations = 3
  MaxDeviations = 1
INVARIANTS TypeOK OneRowPerEntityDay
PROPERTIES RemovedOnlyByItsWindow LogsFinal RefinesLedger
CHECK_DEADLOCK FALSE
