SPECIFICATION PacedFairSpec
CONSTANTS
  c1 = c1
  c2 = c2
  v1 = v1
  RingSize = 3
  NumRecords = 5
  Consumers <- MCConsumers
  Viewers <- MCViewers
INVARIANTS
  TypeOK
  RecordsWhole
  LatestIsNewest
  PoppedOnce
PROPERTIES
  ImplementsQueue
  EveryRecordPopped
