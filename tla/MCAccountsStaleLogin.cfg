SPECIFICATION Spec
CONSTANTS
  a = a
  b = b
  s1 = s1
  s2 = s2
  h1 = h1
  None = None
  Users = {a, b}
  SessionTokens = {s1, s2}
  EnrollmentTokens = {e1}
  Hashes = {h1, h2, h3}
  Roles <- MCRoles
  Workers = {w1, w2}
  Kinds = {"login", "change"}
  Databases <- MCOneAdministrator
SYMMETRY Symmetry
PROPERTY SessionsOfCurrentPassword
