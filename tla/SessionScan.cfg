SPECIFICATION Spec
CONSTANTS
  Callers = {c1}
  Sessions = {s1, s2}
  None = None
  CacheTTL = 0
  StaleAfter = 0
  MaxSessionsPerAgent = 1
  MaxFile = 2
  MaxSize = 3
  MaxClock = 1
SYMMETRY Symmetric
INVARIANTS
  NoStaleContent
  TrajectoriesAccounted
  ParsedBounded
