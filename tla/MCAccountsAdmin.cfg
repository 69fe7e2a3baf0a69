SPECIFICATION Spec
CONSTANTS
  a = a
  b = b
  s1 = s1
  s2 = s2
  h1 = h1
  None = None
  Users = {a, b, c}
  SessionTokens = {s1, s2}
  EnrollmentTokens = {e1}
  Hashes = {h1}
  Roles <- MCRoles
  Workers = {w1, w2}
  Kinds = {"create", "update", "activate", "delete", "serve"}
  Databases <- MCTwoAdministrators
SYMMETRY Symmetry
INVARIANT TypeOK
INVARIANT AdministratorRemains
PROPERTY NoResurrection
CHECK_DEADLOCK TRUE
