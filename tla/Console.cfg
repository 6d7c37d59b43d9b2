CONSTANTS
  n1 = n1
  n2 = n2
  Node = {n1, n2}
  FirstNode = n1
  GatewayViews <- MCViews
  MaxClicks = 2
  EventLimit = 2
  MaxChanges = 1
  MaxFaults = 1
  MaxPolls = 2
  HistoryLimit = 1
SPECIFICATION Spec
INVARIANTS TypeOK ForcedDownIsShownDown RollbackUndoesOwnCall NewestEventIsTrue OneFeed StatusIsSocket
PROPERTIES Converges StreamComesBack
