SPECIFICATION FairSpec
CONSTANTS
  p = p
  s = s
  m1 = m1
  m2 = m2
  path = path
  Clients = {p, s, m1, m2}
  Kind <- MCKind
  PipeNames = {path}
  Pipe <- MCPipe
  Interruptible = {s, m1}
  MaxSessions = 2
  NULL = NULL
INVARIANTS
  TypeOK
  ServesSender
  
PROPERTIES
  ManagersReturn
  ReadyClientConnects
  ImplementsRendezvous
  StopReachesClients
CHECK_DEADLOCK FALSE
