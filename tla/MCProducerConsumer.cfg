SPECIFICATION FairSpec
CONSTANTS
  NrThreads = {3}
  MaxCPUS = 16
  Items = {item}
  MaxMisses = 0
  Implementations = 2
  Patterns = {0, 1, 4}
  Restrictions = {0, 2}
  EmptyChecks = 2
  MAX_PHASES = 3
  OpsBound = 3
INVARIANTS
  MeasuresAll
  DrainedBeforeActive
  PrefilledBeforeActive
  CountsOnlyActive
  PhasesReported
PROPERTY
  Terminates
\* The bench ends.
CHECK_DEADLOCK FALSE
