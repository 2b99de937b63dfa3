CONSTANTS
  k1 = k1
  k2 = k2
  c1 = c1
  c2 = c2
  r1 = r1
  r2 = r2
  w1 = w1
  w2 = w2
  None = None
  KBs = {k1}
  Contents = {c1}
  Unreadable = {}
  DocIds = {1}
  Reqs = {r1, r2}
  Workers = {w1}
  RetryMax = 2
  ManualLimit = 2
  ApiFaults = FALSE
  WorkerFaults = TRUE
SPECIFICATION FairSpec
PROPERTIES UploadSettles RequestsEnd
CHECK_DEADLOCK FALSE
