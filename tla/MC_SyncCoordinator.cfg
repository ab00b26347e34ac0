SPECIFICATION FairSpec
CONSTANTS
  t1 = t1
  t2 = t2
  t3 = t3
  Threads <- MCThreads
  NumLayers = 2
  NumFrames = 2
  NumSwaps = 2
  Levels <- MCLevels
  CriticalThreshold = 20
  HysteresisThreshold = 25
  MaxSwings = 2
INVARIANTS
  TypeOK
  LayersInLockstep
  BoundaryIsolated
  SwapsInOrder
  NoFlapping
PROPERTY
  WorkersFinish
CHECK_DEADLOCK FALSE
