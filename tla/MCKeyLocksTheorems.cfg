SPECIFICATION Spec
CONSTANTS
  Holders = {g1, g2, g3}
  Keys = {k1, k2}
  Objects = {o1, o2, o3}
  None = None
INVARIANTS
  NoDeadlock
  RegistryIsBounded
PROPERTIES
  WritersAreNotOvertaken
  ReadersWaitOnce
