SPECIFICATION Spec
CONSTANTS
  Workers = {w1, w2}
  a = a
  b = b
  sa = sa
  sb = sb
  Users = {a, b}
  Media = {m1}
  Sessions = {sa, sb}
  SessionOf <- MCSessionOf
  Masks <- MCMasks
  MaxSize = 3
  MaxInt = 4
  MaxRequests = 4
  None = None
SYMMETRY Symmetry
INVARIANTS
  TypeOK
  GrantsReferToRows
  AccessWasGranted
  OneEventPerSession
  ContentIsAudited
  RangesAreExact
  ClientAcceptsRanges
CHECK_DEADLOCK FALSE
