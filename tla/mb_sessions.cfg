SPECIFICATION Spec
CONSTANTS
  PubWorkers = {w1, w2}
  SubWorkers = {s1}
  ManWorkers = {m1}
  RemWorkers = {w1}
  Names = {n1, n2}
  CountRange = 8
  DiskFull = TRUE
  MaxBoxes = 3
  MaxMessages = 2
  MaxRequests = 6
  MaxRestarts = 1
  NoBox = NoBox
  Nobody = Nobody
  m1 = m1
  n1 = n1
  n2 = n2
  s1 = s1
  w1 = w1
  w2 = w2
INVARIANTS
  TypeOK
  SinglePublisher
  NoDanglingBox
  OneBoxPerName
  SizeIsWritten
PROPERTIES
  ImplementsLog
CHECK_DEADLOCK FALSE
