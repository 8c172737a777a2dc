SPECIFICATION MCFairSpec
CONSTANTS
  A = A
  Claws = {A, B}
  Keys = {k1}
  Home <- MCHome
  None = None
  Loop = Loop
  Clicks = {click}
  PageLimit = 1
  MaxLoads = 2
  MaxEvents = 2
  MaxRev = 1
INVARIANTS
  ReplayIsFaithful
  OwnClaw
PROPERTIES
  ReplayCatchesUp
  PageSettles
