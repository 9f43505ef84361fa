SPECIFICATION Spec
CONSTANTS
  None = None
  Pages = {p1, p2}
  Workers = {w1, w2}
  Lines = {first}
  Statuses = {paid, unpaid}
  MaxEdits = 2
INVARIANTS
  ContractInv
  NoCollision
  DeadlockShape
  ReadsForward
SYMMETRY Symmetry
PROPERTIES
  Atomic
