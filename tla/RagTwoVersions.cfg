SPECIFICATION Spec
CHECK_DEADLOCK FALSE
SYMMETRY Symmetry
CONSTANTS
  Contracts = {c1}
  MaxVersion = 2
  Workers = {w1, w2}
  MaxAttempts = 1
  StaleAfter = 1
  RetryBase = 1
INVARIANTS
  OneVersionSearchable
