SPECIFICATION Spec
CONSTANTS
  s1 = s1
  s2 = s2
  Sessions = {s1, s2}
  Kinds <- AllKinds
  MaxWrites = 3
INVARIANTS ApprovedUnchanged
CHECK_DEADLOCK FALSE
