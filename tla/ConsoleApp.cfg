CONSTANTS
  n1 = n1
  n2 = n2
  n3 = n3
  Node = {n1, n2, n3}
  FirstNode = n1
  NodeOrder <- MCOrder
  GatewayViews <- MCViews
  MaxClicks = 1
  EventLimit = 1
  NoticeLimit = 6
  TabOrder <- MCTabs
  Matches <- MCMatches
  Blank = ""
  RecentLimit = 3
  Key = {"k"}
  EmptyKey = ""
  RowLimit = 2
  MaxMoves = 5
SPECIFICATION Spec
INVARIANTS TypeOK NewestNoticeIsTrue NoticesAlternate UnreadAreNewest  StorageIsCurrent StagesAreOneRun FlagIsRun 
 
CHECK_DEADLOCK FALSE
