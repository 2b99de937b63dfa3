CONSTANTS
  k1 = k1
  k2 = k2
  c1 = c1
  c2 = c2
  r1 = r1
  r2 = r2
  w1 = w1
  w2 = w2
  None = None
  KBs = {k1, k2}
  Contents = {c1}
  Unreadable = {}
  DocIds = {1, 2}
  Reqs = {r1}
  Workers = {}
  RetryMax = 1
  ManualLimit = 1
  ApiFaults = FALSE
  WorkerFaults = FALSE
SPECIFICATION Spec
PROPERTIES DeletingBaseKeepsOtherFiles
CHECK_DEADLOCK FALSE
