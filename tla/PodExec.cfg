SPECIFICATION FairSpec
CONSTANTS
  Files = {f1, f2, f3}
  None = None
  MaxSize = 3
  MaxFile = 2
  MaxBatch = 4
  MaxOutput = 7
CHECK_DEADLOCK FALSE
INVARIANTS
  DropsDetected
  NoFileIsLost
  BatchBounded
PROPERTIES
  CallReturns
  GoroutineEnds
