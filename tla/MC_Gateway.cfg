SPECIFICATION FairSpec
CONSTANTS
  Capacity = 2
  PipeCapacity = 2
  WireCapacity = 1
  LastVerdict = 1
  MaxConns = 3
  MaxLosses = 1
  MaxReuses = 1
INVARIANTS
  TypeOK
  NoAbandonedQueue
PROPERTIES
  InOrder
  EventuallyLive
