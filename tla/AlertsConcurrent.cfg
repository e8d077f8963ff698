SPECIFICATION FairSpec
CONSTANTS
  a1 = a1
  a2 = a2
  s1 = s1
  s2 = s2
  none = none
  Nobody = none
  Sessions = {s1, s2}
  Accounts = {a1}
  Signals = {"CTR_DROP"}
  Scopes = {none}
  Patches = {"open", "resolved", "dismissed"}
  MaxChanges = 3
INVARIANTS NeverResolvesFiring MutedUntouched
PROPERTIES RequestEnds
CHECK_DEADLOCK FALSE
