CONSTANTS
  Capacity = 5
  MaxSize = 2
  MaxAppends = 4
  Zero = Zero
  PowerMayFail = TRUE
SPECIFICATION Spec
INVARIANTS TypeOK KeptIsReplayed SyncedIsReplayed SeqIsPosition
PROPERTY IsDurableLog
