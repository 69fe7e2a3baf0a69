SPECIFICATION Spec
CONSTANTS
  Servers = {s1}
  Tools = {}
  Requests = {r1}
  Last = 1
  MaxStarts = 1
  None = None
INVARIANTS
  RequestsAreDrained
CHECK_DEADLOCK FALSE
