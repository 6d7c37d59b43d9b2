CONSTANTS
  Keys <- MCKeys
  Values = {v1}
  Tombstone = Tombstone
  WalCapacity = 8
  MemtableBudget = 3
  L0Trigger = 3
  MaxFiles = 12
  MaxStops = 0
  Replicated = FALSE
  FlushApi = FALSE
  DiskMayFail = FALSE
SPECIFICATION Spec
INVARIANTS FullScanMatchesGet MemBytesExact DeleteHoldsAboveL1
