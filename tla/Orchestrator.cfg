CONSTANTS
  AllowInternal = TRUE
  Hybrid = TRUE
  CompositeEnabled = TRUE
  Window = 2
  TopK = 1
  TurnLimit = 2
SPECIFICATION Spec
INVARIANTS FindingsStayLocal ProtectedLeavesOnly RecordedCoversTurn
CHECK_DEADLOCK FALSE
