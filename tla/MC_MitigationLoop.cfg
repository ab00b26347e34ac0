SPECIFICATION FairSpec
CONSTANTS
  UpWindow = 2
  DownWindow = 3
  HistoryLength = 4
  QueueLength = 3
  CriticalStrides = 2
  MinInterval = 2
  Timeout = 2
  Elapses <- MCElapses
  OperatorActions <- MCOperatorActions
  MaxPushes = 3
  MaxCritical = 3
INVARIANT
  TypeOK
PROPERTIES
  FilterIsDebounced
  ReductionSettles
