SPECIFICATION Spec
CONSTANTS
  Users = {u1}
  OldTokens = {t1}
  Requests = {r1, r2}
  Fallible = {}
  Lifetime = 2
  MaxNow = 2
  None = None
INVARIANT SingleUse
