SPECIFICATION Spec
CONSTANTS
  Clients = {c1, c2, c3}
  Fds = {0, 1, 3}
  listenfd = 3
  MaxRequests = 1
  None = None
INVARIANTS
  TypeOK
  OwnUnlessCrossed
  NoLeak
PROPERTIES
  GoneIsClosed
  EveryRequestRead
CHECK_DEADLOCK FALSE
