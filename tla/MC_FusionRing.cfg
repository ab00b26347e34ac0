SPECIFICATION FairSpec
CONSTANTS
  p1 = p1
  p2 = p2
  Producers <- MCProducers
  Capacity = 2
  BatchSize = 2
  NumPushes = 4
INVARIANTS
  TypeOK
  PoppedOnce
  NoDropNoLoss
PROPERTY
  Drained
