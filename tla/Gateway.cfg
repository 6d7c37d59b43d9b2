CONSTANTS
  Last = 2
  MaxCalls = 2
  MaxRequests = 1
  MaxFaults = 1
SPECIFICATION Spec
INVARIANTS TypeOK  LocksAreAwaited
  
CHECK_DEADLOCK FALSE
