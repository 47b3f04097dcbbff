SPECIFICATION Spec
CONSTANTS
  Producers = {p1}
  Consumers = {c1, c2}
  Capacity = 2
  Supply = 2
  Demand = 2
  NULL = NULL
  Garbage = Garbage
  NoThread = NoThread
  p1 = p1
  c1 = c1
  c2 = c2
SYMMETRY Symmetry
INVARIANTS
  DequeueYieldsElement
CHECK_DEADLOCK FALSE
