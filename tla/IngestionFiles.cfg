CONSTANTS
  k1 = k1
  k2 = k2
  c1 = c1
  c2 = c2
  r1 = r1
  r2 = r2
  w1 = w1
  w2 = w2
  None = None
  KBs = {k1, k2}
  Contents = {c1, c2}
  Unreadable = {}
  DocIds = {1, 2}
  Reqs = {r1, r2}
  Workers = {}
  RetryMax = 3
  ManualLimit = 3
  ApiFaults = TRUE
  WorkerFaults = FALSE
SPECIFICATION Spec
SYMMETRY Symmetry
INVARIANTS NoLeakedFile UnsharedFileKept
CHECK_DEADLOCK FALSE
