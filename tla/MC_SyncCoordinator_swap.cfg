SPECIFICATION Spec
CONSTANTS
  t1 = t1
  t2 = t2
  t3 = t3
  Threads <- MCTwoThreads
  NumLayers = 2
  NumFrames = 2
  NumSwaps = 2
  Levels <- MCOneLevel
  CriticalThreshold = 20
  HysteresisThreshold = 25
  MaxSwings = 0
INVARIANT
  LastSwapHonoured
CHECK_DEADLOCK FALSE
