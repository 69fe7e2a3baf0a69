SPECIFICATION Spec
CONSTANTS
  Workers = {w1, w2}
  Media   = {m1}
  None    = None
INVARIANTS
  UploadedSizesAreDerived
