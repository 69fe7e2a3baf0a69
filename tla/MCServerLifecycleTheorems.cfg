SPECIFICATION Spec
CONSTANTS
  Servers = {s1, s2}
  Tools = {b}
  Requests = {r1}
  Last = 2
  MaxStarts = 3
  None = None
PROPERTIES
  MigrationsAdvance
  RequestsEndWithCause
CHECK_DEADLOCK FALSE
