CONSTANTS
  Keys <- MCKeys
  Values = {v1}
  Tombstone = Tombstone
  WalCapacity = 5
  MemtableBudget = 2
  L0Trigger = 2
  MaxFiles = 11
  MaxStops = 1
  Replicated = TRUE
  FlushApi = FALSE
  DiskMayFail = FALSE
SPECIFICATION Spec
INVARIANTS TypeOK SetNeverLost ReadsAreAppliedWrites CompactionHasOutput L0Bounded
