SPECIFICATION OneAtATimeSpec
CONSTANTS
  Threads = {t1, t2, t3}
  Names = {n1, n2}
  Passwords = {p1, p2}
  FreshNext <- Either
  MAX_USER_COUNT = 2
  MaxCalls = 1
  None = None
CHECK_DEADLOCK FALSE
PROPERTIES
  ImplementsDirectory
