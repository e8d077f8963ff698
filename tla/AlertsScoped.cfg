SPECIFICATION Spec
CONSTANTS
  a1 = a1
  a2 = a2
  s1 = s1
  s2 = s2
  none = none
  Nobody = none
  Sessions = {s1}
  Accounts = {a1, a2}
  Signals = {"CTR_DROP"}
  Scopes = {none, a1}
  Patches = {"open", "resolved", "dismissed"}
  MaxChanges = 3
INVARIANTS NeverResolvesFiring
CHECK_DEADLOCK FALSE
