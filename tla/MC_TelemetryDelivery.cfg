SPECIFICATION FairSpec
CONSTANTS
  a = a
  Clients <- MCOneClient
  Capacity = 2
  Hysteresis = 2
  RingCapacity = 2
  BatchSize = 2
  NumStrides = 4
  NumBroadcasts = 2
INVARIANTS
  TypeOK
  RingAccounts
  DeliveredInOrder
  CriticalsRetained
  DropsCounted
PROPERTIES
  FusionIsDebounced
  StridesDispatched
