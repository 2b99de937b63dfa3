SPECIFICATION Spec
CONSTANTS
  Users = {u, v}
  Admins = {u}
  NoUser = NoUser
  MaxTokens = 3
  MaxActs = 4
  MaxTurns = 2
  FirstBases = 1
  MaxBases = 2
  MaxDocs = 2
  MaxPolls = 1
INVARIANTS UserIsOwner TokenLostOnlyLate ShownIsOpen ShownIsStored TurnsStayWithOwner RowsOfActiveBase WatchedUntilSettled TimerFindsDocument
CHECK_DEADLOCK FALSE
