SPECIFICATION Spec
CONSTANTS
  Producers = {p1}
  Consumers = {c1}
  Capacity = 2
  Supply = 5
  Demand = 5
  NULL = NULL
  Garbage = Garbage
  NoThread = NoThread
  p1 = p1
  c1 = c1
INVARIANTS
  TypeOK
  SpscInv
  DequeueYieldsElement
  StoreIntoFreeSlot
PROPERTIES
  ImplementsQueue
CHECK_DEADLOCK FALSE
