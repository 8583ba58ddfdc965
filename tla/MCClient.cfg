SPECIFICATION Spec
CONSTANTS
  Names = {ann, bob}
  me = ann
  Rooms = {r1, r2}
  TooLong = long
  MaxLines = 3
  MaxAsked = 2
  MaxForwards = 1
  MaxPending = 0
  None = None
INVARIANTS
  WildPrintCause
  RoomOfLastJoin
PROPERTIES
  ImplementsSession
  EveryAskEnds
CHECK_DEADLOCK FALSE
CONSTRAINT Few
