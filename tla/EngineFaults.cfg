CONSTANTS
  Keys <- MCKeys
  Values = {v1}
  Tombstone = Tombstone
  WalCapacity = 3
  MemtableBudget = 2
  L0Trigger = 2
  MaxFiles = 11
  MaxStops = 1
  Replicated = FALSE
  FlushApi = TRUE
  DiskMayFail = TRUE
SPECIFICATION FairSpec
INVARIANTS TablesReadable FullScanMatchesGet
PROPERTY CallsReturn
