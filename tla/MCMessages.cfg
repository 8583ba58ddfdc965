SPECIFICATION FairSpec
CONSTANTS
  Writers = {w1}
  Messages <- AllMessages
  MaxMessages = 2
  Text <- AText
CHECK_DEADLOCK FALSE
INVARIANTS
  TypeOK
  Framed
PROPERTIES
  EveryMessageArrives
