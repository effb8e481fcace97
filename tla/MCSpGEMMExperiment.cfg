SPECIFICATION FairSpec
CONSTANTS
  Workers = {t1, t2, t3}
  M = 5
  WUSize = 2
  Nnz <- MCNnz
  MaxCPUS = 16
  Builds = {TRUE, FALSE}
  Iterations = 2
INVARIANTS
  TypeOK
  SequentialPhaseAlone
  RowsFit
  ProductComplete
PROPERTY
  Terminates
\* The harness stops after the last iteration.
CHECK_DEADLOCK FALSE
