SPECIFICATION Spec
CONSTANTS
  PubWorkers = {p1}
  SubWorkers = {s1, s2}
  ManWorkers = {m1}
  RemWorkers = {m1}
  Names = {n1}
  CountRange = 8
  DiskFull = FALSE
  MaxBoxes = 1
  MaxMessages = 1
  MaxRequests = 6
  MaxRestarts = 0
  NoBox = NoBox
  Nobody = Nobody
  m1 = m1
  n1 = n1
  s1 = s1
  s2 = s2
  p1 = p1
INVARIANTS
  NoDanglingBox
CHECK_DEADLOCK FALSE
