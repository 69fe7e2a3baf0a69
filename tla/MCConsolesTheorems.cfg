SPECIFICATION Spec
CONSTANTS
  Ids = {1, 2, 3, 4}
  Times = {1, 4, 5, 6, 8, 9}
  Kinds = {"a", "b"}
  Limits = {1, 2}
  Base = 2
  None = None
  Tables <- MCTables
  Searches <- MCSearches
  DefaultLimit = 2
  t1 = t1
  t2 = t2
  Tokens = {t1, t2}
SYMMETRY Symmetry
INVARIANTS
  FiltersOffByFraction
CHECK_DEADLOCK FALSE
