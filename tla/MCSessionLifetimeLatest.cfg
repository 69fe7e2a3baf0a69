SPECIFICATION Spec
CONSTANTS
  Workers  = {w1, w2}
  Users    = {u1}
  Sessions = {s1}
  Lifetime    = 4
  IdleTimeout = 3
  MaxTime     = 5
  None = None
INVARIANT LastUseIsLatest
