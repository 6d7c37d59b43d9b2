CONSTANTS
  Capacity = 4
  MaxSize = 2
  MaxAppends = 4
  Zero = Zero
  PowerMayFail = TRUE
SPECIFICATION Spec
INVARIANT AckedIsReplayed
