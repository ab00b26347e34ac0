SPECIFICATION LedgerSpec
CONSTANTS
  Deployers <- MCDeployers
  Keepers <- MCKeepers
  Compactor = "compactor"
  Limit = 2
  MaxEntries = 6
  MaxFiles = 5
  MaxCrashes = 1
CHECK_DEADLOCK FALSE
INVARIANTS
  LedgerTypeOK
  NothingLost
  ChainUnbroken
