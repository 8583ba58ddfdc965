SPECIFICATION Spec
CONSTANTS
  Clients = {c1, c2, c3}
  Names = {n1, n2}
  Passwords = {p1, p2}
  Rooms = {r1}
  Cells = {x1, x2}
  Fds = {0, 1}
  MAX_USER_COUNT = 2
  None = None
SYMMETRY Symmetry
CHECK_DEADLOCK FALSE
CONSTRAINT AccountsOrRoom
INVARIANTS
  TypeOK
  UniqueNames
  OwnConnection
  DeliveredToLatestLogin
  OfflineIsGone
  RegisteredCanLogin
PROPERTIES
  AccountsPersist
  
