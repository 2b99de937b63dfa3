CONSTANTS
  Calls = {c1, c2, c3}
  Keys = {k1, k2}
  None = None
  Threshold = 3
  Recovery = 4
  Timeout = 2
  TTL = 3
  BreakerEnabled = TRUE
  CacheEnabled = TRUE
SPECIFICATION FairSpec
PROPERTIES AnswersAreRecent ClosesForGood
