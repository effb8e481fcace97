SPECIFICATION Spec
CONSTANTS
  Rows = 2
  Columns = 2
  Files <- MCFiles
  Digits = 1
  MaxCalls = 3
  Garbage = 7
INVARIANTS
  BuffersFit
  WellFormed
  SavedReloads
PROPERTY
  MultipliesMatrices
\* A call may end the program.
CHECK_DEADLOCK FALSE
