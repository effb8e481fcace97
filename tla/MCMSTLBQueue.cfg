SPECIFICATION FairSpec
CONSTANTS
  Threads = {t1, t2}
  Nodes = {n1, n2, n3}
  Items = {a, b}
  NoNode = NoNode
  NoItem = NoItem
INVARIANTS
  TypeOK
  MutualExclusion
  NoUseAfterFree
  ListIntact
  NoLeak
PROPERTIES
  Linearizable
  LockProgress
  HolderReturns
\* The destructor ends the behaviour.
CHECK_DEADLOCK FALSE
