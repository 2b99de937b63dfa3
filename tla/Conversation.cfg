CONSTANTS
  c1 = c1
  t1 = t1
  t2 = t2
  Convs = {c1}
  Turns = {t1, t2}
  None = None
  Limit = 2
  MaxMessages = 4
SPECIFICATION Spec
SYMMETRY Symmetry
INVARIANTS OwnAnswerIsRecent KeysExpire OrphansOnlyFromOverlap
PROPERTIES RecentIsComplete
CHECK_DEADLOCK FALSE
