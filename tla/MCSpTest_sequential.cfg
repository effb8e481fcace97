SPECIFICATION TestSpec
CONSTANTS
  Workers = {t1, t2, t3}
  M = 3
  WUSize = 1
  Nnz <- MCNnz
  CommandLines <- MCCommandLines
INVARIANT
  OneSequentialWorker
\* The parallel region ends.
CHECK_DEADLOCK FALSE
