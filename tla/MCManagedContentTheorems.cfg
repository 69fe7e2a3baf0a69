SPECIFICATION Spec
CONSTANTS
  Workers = {w1, w2, w3}
  Media   = {m1}
  None    = None
INVARIANTS
  LocksHaveOwners
  NobodyWaitsForAWaiter
PROPERTIES
  OrphansStay
