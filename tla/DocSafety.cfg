SPECIFICATION Spec
CHECK_DEADLOCK FALSE
SYMMETRY Symmetry
CONSTANTS
  Documents = {d1, d2}
  MaxRuns = 3
  AmbiguousCommit = FALSE
INVARIANTS
  IInv
  ContractIffConfirmed
  LatestExtraction
  FileKept
PROPERTIES
  KeepsPromise
