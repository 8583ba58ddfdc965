SPECIFICATION OneWriterSpec
CONSTANTS
  h = h
  x = x
  y = y
  back = back
  Threads <- FourClients
  Names <- Users
  NameOf <- Entered
  FirstMembers <- NobodyOrThree
  FreshUser <- NoUser
  FreshNext <- Used
  Requests <- Overlapping
  Leavers <- YLeaves
  MaxCalls <- Twice
  None = None
CHECK_DEADLOCK FALSE
INVARIANTS
  TypeOK
  OfflineHasLeft
PROPERTIES
  
  EveryCallEnds
