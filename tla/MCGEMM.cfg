SPECIFICATION FairSpec
CONSTANTS
  NrThreads = {1, 2}
  Implementations = 2
  MaxCPUS = 16
  Items <- MCBlocks
  MaxMisses = 1
  NB = 2
  MaxExiting = 1
INVARIANTS
  MultipliedOnce
  LeavesWhenDrained
PROPERTY
  Terminates
\* The bench ends.
CHECK_DEADLOCK FALSE
