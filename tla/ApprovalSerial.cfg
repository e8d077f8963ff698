SPECIFICATION Spec
CONSTANTS
  s1 = s1
  s2 = s2
  Sessions = {s1}
  Kinds <- AllKinds
  MaxWrites = 4
INVARIANTS ApprovedUnchanged StatusExplained SubmittedHasKpis
CHECK_DEADLOCK FALSE
