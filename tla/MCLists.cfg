SPECIFICATION ShowSpec
CONSTANTS
  Threads = {t1, t2, t3}
  n1 = n1
  n2 = n2
  n3 = n3
  Names = {n1, n2, n3}
  Passwords = {p1}
  FreshNext <- Either
  MAX_USER_COUNT = 4
  MaxCalls = 1
  None = None
  Length <- Lengths
  Garbage = {0, 4}
  MaxShows = 1
  Modulus = 16
SYMMETRY Symmetry
CONSTRAINT OneBefore
CHECK_DEADLOCK FALSE
INVARIANTS
  KnownFit
  KnownAreListed
