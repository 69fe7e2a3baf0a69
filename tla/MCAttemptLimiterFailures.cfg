SPECIFICATION Spec
CONSTANTS
  Workers   = {w1, w2, w3}
  Usernames = {u1}
  Addresses = {a1}
  Enrollers = {e1}
  UsernameLimit   = 2
  AddressLimit    = 3
  EnrollmentLimit = 2
  Window  = 1
  MaxTime = 0
  None    = None
SYMMETRY Symmetry
INVARIANT FailuresWithinLimit
