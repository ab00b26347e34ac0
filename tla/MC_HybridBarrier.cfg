SPECIFICATION BarrierFairSpec
CONSTANTS
  t1 = t1
  t2 = t2
  t3 = t3
  Threads <- MCThreads
  NoThread = NoThread
  MaxWaits = 3
INVARIANTS
  BarrierTypeOK
  NeverLapped
PROPERTIES
  ImplementsPhases
  EveryoneLeaves
CHECK_DEADLOCK FALSE
