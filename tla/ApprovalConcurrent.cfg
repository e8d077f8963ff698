SPECIFICATION Spec
CONSTANTS
  s1 = s1
  s2 = s2
  Sessions = {s1, s2}
  Kinds <- ConcurrentKinds
  MaxWrites = 3
SYMMETRY SessionSymmetry
INVARIANTS ApprovedUnlessRaced
PROPERTIES ContentOnlyByEdits
CHECK_DEADLOCK FALSE
