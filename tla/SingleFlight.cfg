SPECIFICATION FairSpec
CONSTANTS
  Callers = {c1, c2, c3}
  Sessions = {s1}
  None = None
  CacheTTL = 0
  StaleAfter = 0
  MaxSessionsPerAgent = 1
  MaxFile = 2
  MaxSize = 3
  MaxClock = 1
INVARIANTS
  WaitersReleased
PROPERTIES
  RunsNeverRegress
  ImplementsService
  WaitersReturn
