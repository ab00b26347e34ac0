SPECIFICATION Spec
CONSTANTS
  a = a
  Clients <- MCOneClient
  Capacity = 2
  Hysteresis = 2
  RingCapacity = 2
  BatchSize = 2
  NumStrides = 3
  NumBroadcasts = 0
INVARIANT
  OldestRoutineFirst
