SPECIFICATION NeverFullSpec
CONSTANTS
  c1 = c1
  c2 = c2
  v1 = v1
  RingSize = 3
  NumRecords = 5
  Consumers <- MCConsumers
  Viewers <- MCNoViewers
CHECK_DEADLOCK FALSE
INVARIANT
  PoppedOnce
SYMMETRY ConsumerSymmetry
