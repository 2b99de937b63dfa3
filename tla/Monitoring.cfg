CONSTANTS
  QueueMax = 3
  BatchSize = 2
  MaxEvents = 7
SPECIFICATION FairSpec
INVARIANTS StopDrains
PROPERTIES ImplementsLossyLog StopEnds QueueMoves
CHECK_DEADLOCK FALSE
