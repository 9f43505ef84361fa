SPECIFICATION Spec
CONSTANTS
  None = None
  Pages = {a, b}
  Patience = 1
  MaxRuns = 2
  MaxPresses = 2
  MaxLost = 1
INVARIANTS
  OwnContract
  ReviewInv
PROPERTIES
  WaitEnds
  ResultShown
CHECK_DEADLOCK FALSE
