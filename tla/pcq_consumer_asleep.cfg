SPECIFICATION FairSpec
CONSTANTS
  Producers = {p1}
  Consumers = {c1}
  Capacity = 2
  Supply = 3
  Demand = 3
  NULL = NULL
  Garbage = Garbage
  NoThread = NoThread
  p1 = p1
  c1 = c1
PROPERTIES
  DequeueWakes
CHECK_DEADLOCK FALSE
