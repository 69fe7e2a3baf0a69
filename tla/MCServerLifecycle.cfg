SPECIFICATION Spec
CONSTANTS
  Servers = {s1, s2}
  Tools = {b}
  Requests = {r1}
  Last = 2
  MaxStarts = 3
  None = None
INVARIANTS
  TypeOK
  MigratedOnce
  SchemaIsComplete
PROPERTIES
  StopsOnSignal
CHECK_DEADLOCK FALSE
