SPECIFICATION Spec
CONSTANTS
  Callers = {c1}
  Sessions = {s1, s2}
  None = None
  CacheTTL = 0
  StaleAfter = 1
  MaxSessionsPerAgent = 1
  MaxFile = 2
  MaxSize = 2
  MaxClock = 2
INVARIANT StaleIsMarked
