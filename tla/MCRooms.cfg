SPECIFICATION Spec
CONSTANTS
  Clients = {c1, c2, c3}
  Names = {n1, n2, n3}
  Passwords = {p1}
  Rooms = {r1, r2}
  Cells = {x1, x2, x3}
  Fds = {0, 1, 2}
  MAX_USER_COUNT = 3
  None = None
SYMMETRY Symmetry
CHECK_DEADLOCK FALSE
CONSTRAINT TwoOrThree
INVARIANTS
  OwnerConsistent
  WalksTerminate
  ListsMatchMembership
PROPERTIES
  RoomFanout
