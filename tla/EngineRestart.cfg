CONSTANTS
  Keys <- MCKeys
  Values = {v1}
  Tombstone = Tombstone
  WalCapacity = 3
  MemtableBudget = 2
  L0Trigger = 2
  MaxFiles = 7
  MaxStops = 1
  Replicated = FALSE
  FlushApi = FALSE
  DiskMayFail = FALSE
SPECIFICATION FairSpec
PROPERTY NodeComesBack
