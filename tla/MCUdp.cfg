SPECIFICATION Spec
CONSTANTS
  Clients = {c1, c2}
  Names = {n1, n2}
  Passwords = {p1}
  Rooms = {r1}
  Cells = {x1, x2}
  MAX_USER_COUNT = 2
  MaxRequests <- Requests
  Busy = c1
  MaxLost = 1
  MaxQueue = 0
  Garbage = Garbage
  Unknown = Unknown
  None = None
INVARIANTS
  
  ListsSound
CHECK_DEADLOCK FALSE
CONSTRAINT OneTrouble
