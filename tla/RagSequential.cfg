SPECIFICATION FairSpec
CHECK_DEADLOCK FALSE
CONSTANTS
  Contracts = {c1}
  MaxVersion = 2
  Workers = {w1}
  MaxAttempts = 3
  StaleAfter = 1
  RetryBase = 1
INVARIANTS
  OneVersionSearchable
PROPERTIES
  JobSettles
