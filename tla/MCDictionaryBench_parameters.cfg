SPECIFICATION MainSpec
CONSTANTS
  Threads = {t1, t2, t3}
  Keys = {k1, k2}
  InitialKeys <- MCInitialKeys
  Sessions <- MCSessions
  OpsBound = 4
  Sockets = 2
  CoresPerSocket = 8
  PUsPerSocket = 8
  CommandLines <- MCCommandLines
SYMMETRY Symmetry
INVARIANT
  ParametersAsSet
\* The threads end.
CHECK_DEADLOCK FALSE
