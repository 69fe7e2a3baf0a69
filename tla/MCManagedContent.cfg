SPECIFICATION FairSpec
CONSTANTS
  Workers = {w1, w2, w3}
  Media   = {m1}
  None    = None
INVARIANTS
  TypeOK
  NoDataLoss
  StreamsArePublished
  FilesMatchRows
PROPERTIES
  LocksAreReleased
