SPECIFICATION FairSpec
CONSTANTS
  p = p
  s = s
  m = m
  Managers = {m}
  Pubs = {p}
  Subs = {s}
  Topic <- MCTopic
  BoxNames = {0, 1, 2, 3}
  InitialLists <- MCLists
  Churn = {0}
  Suspendable = {s, m}
  ListCapacity = 1
  VectorLimit = 3
  PipeSize = 1
  MaxChanges = 1
  MaxFaults = 1
  MaxLines = 2
  Unread = Unread
  Nobody = Nobody
  NoBox = NoBox
INVARIANTS
  TypeOK
  ListedIsSnapshot
  EveryLineSent
PROPERTIES
  ScreensImplementLog
  LockComesFree
  ListingsEnd
  MessagesPrinted
  LinesPublished
  LeaversNoticed
  SubscribersEnd
CHECK_DEADLOCK FALSE
