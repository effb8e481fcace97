SPECIFICATION FairSpec
CONSTANTS
  NrThreads = {2, 4}
  Implementations = 2
  MaxCPUS = 16
  Items <- MCRegions
  MaxMisses = 1
  RESOLUTION_X = 4
  RESOLUTION_Y = 4
  ContentionNrs = {0, 1}
  MaxChecks = 2
INVARIANT
  ImageComplete
PROPERTY
  Terminates
\* The bench ends.
CHECK_DEADLOCK FALSE
