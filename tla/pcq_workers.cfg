SPECIFICATION FairSpec
CONSTANTS
  Producers = {p1}
  Consumers = {c1, c2}
  Capacity = 2
  Supply = 4
  Demand = 4
  NULL = NULL
  Garbage = Garbage
  NoThread = NoThread
  p1 = p1
  c1 = c1
  c2 = c2
INVARIANTS
  RingMatchesCount
  NoElementTwice
PROPERTIES
  ProducersReturn
CHECK_DEADLOCK FALSE
