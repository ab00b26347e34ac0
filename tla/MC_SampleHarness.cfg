SPECIFICATION FairSpec
CONSTANTS
  Workers <- MCWorkers
  IqCapacity = 2
  LogCapacity = 1
  NumBlocks = 4
CHECK_DEADLOCK FALSE
INVARIANTS
  TypeOK
  EndAccounts
PROPERTIES
  Returns
