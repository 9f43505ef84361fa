SPECIFICATION Spec
CONSTANTS
  None = None
  Requests = {p1, p2, p3}
  Amounts = {1, 2}
  Demos = {hall}
INVARIANTS
  PlanInv
  AssetsAgree
  UploadsKept
SYMMETRY Symmetry
PROPERTIES
  OnlyTakenConflicts
