SPECIFICATION Spec
CHECK_DEADLOCK FALSE
SYMMETRY Symmetry
CONSTANTS
  Turns = {t1, t2, t3, t4}
  Conversations = {c1, c2}
  HistoryLimit = 2
  Serial = {c1}
  None = None
INVARIANTS
  WholeTurns
  SerialInv
  SerialLatest
