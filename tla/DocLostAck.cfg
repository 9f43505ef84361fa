SPECIFICATION Spec
CHECK_DEADLOCK FALSE
SYMMETRY Symmetry
CONSTANTS
  Documents = {d1, d2}
  MaxRuns = 2
  AmbiguousCommit = TRUE
INVARIANTS
  OneTaskPerDocument
