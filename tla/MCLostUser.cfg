SPECIFICATION Spec
CONSTANTS
  Threads = {t1, t2}
  Names = {n1, n2}
  Passwords = {p1}
  FreshNext <- Zeroed
  MAX_USER_COUNT = 4
  MaxCalls = 1
  None = None
SYMMETRY Symmetry
CHECK_DEADLOCK FALSE
INVARIANT RegistrationKept
