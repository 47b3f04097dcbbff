SPECIFICATION FairSpec
CONSTANTS
  PubWorkers = {p1, p2}
  SubWorkers = {s1, s2}
  ManWorkers = {m1}
  RemWorkers = {}
  Names = {n1}
  CountRange = 8
  DiskFull = FALSE
  MaxBoxes = 1
  MaxMessages = 3
  MaxRequests = 5
  MaxRestarts = 0
  NoBox = NoBox
  Nobody = Nobody
  m1 = m1
  n1 = n1
  p2 = p2
  s1 = s1
  s2 = s2
  p1 = p1
PROPERTIES
  ImplementsLog
  SubscribersCatchUp
CHECK_DEADLOCK FALSE
