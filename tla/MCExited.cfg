SPECIFICATION Spec
CONSTANTS
  Clients = {c1, c2}
  Names = {n1, n2}
  Passwords = {p1}
  Rooms = {r1}
  Cells = {x1, x2}
  Fds = {0, 1}
  MAX_USER_COUNT = 2
  None = None
SYMMETRY Symmetry
CHECK_DEADLOCK FALSE
INVARIANT ExitedHearNothing
