CONSTANTS
  Keys <- MCFourKeys
  Values = {v1}
  Tombstone = Tombstone
  WalCapacity = 6
  MemtableBudget = 2
  L0Trigger = 2
  MaxFiles = 12
  MaxStops = 0
  Replicated = FALSE
  FlushApi = FALSE
  DiskMayFail = FALSE
SPECIFICATION Spec
INVARIANT ShortScanShowsOnlyLive
