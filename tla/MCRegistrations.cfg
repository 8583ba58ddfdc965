SPECIFICATION FairSpec
CONSTANTS
  Threads = {t1, t2, t3}
  Names = {n1, n2}
  Passwords = {p1}
  FreshNext <- Either
  MAX_USER_COUNT = 4
  MaxCalls = 1
  None = None
CHECK_DEADLOCK FALSE
INVARIANTS
  TypeOK
  LinksGoForward
  SettledStay
PROPERTY EveryCallAnswered
CONSTRAINT InOrder
