SPECIFICATION Spec
CONSTANTS
  Workers   = {w1, w2, w3}
  Usernames = {u1}
  Addresses = {a1}
  Enrollers = {e1}
  UsernameLimit   = 2
  AddressLimit    = 2
  EnrollmentLimit = 2
  Window  = 2
  MaxTime = 4
  None    = None
SYMMETRY Symmetry
PROPERTIES
  RefusalsAreJustified
