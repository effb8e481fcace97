SPECIFICATION Spec
CONSTANTS
  Workers = {t1, t2, t3}
  M = 5
  WUSize = 2
  Nnz <- MCNnz
  MaxCPUS = 2
  Builds = {FALSE}
  Iterations = 1
INVARIANT
  WaitsForAll
CHECK_DEADLOCK FALSE
