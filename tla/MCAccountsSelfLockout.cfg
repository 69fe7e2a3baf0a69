SPECIFICATION Spec
CONSTANTS
  a = a
  b = b
  s1 = s1
  s2 = s2
  h1 = h1
  None = None
  Users = {a, b}
  SessionTokens = {s1, s2}
  EnrollmentTokens = {e1}
  Hashes = {h1}
  Roles <- MCRoles
  Workers = {w1, w2}
  Kinds = {"update", "activate"}
  Databases <- MCTwoAdministrators
SYMMETRY Symmetry
PROPERTY NoSelfLockout
