SPECIFICATION Spec
CONSTANTS
  NrThreads = {3}
  MaxCPUS = 16
  Items = {item}
  MaxMisses = 0
  Implementations = 1
  Patterns = {5}
  Restrictions = {1}
  EmptyChecks = 2
  MAX_PHASES = 3
  OpsBound = 3
INVARIANT
  RestrictsInserts
CHECK_DEADLOCK FALSE
