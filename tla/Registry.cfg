SPECIFICATION Spec
CONSTANTS
  claw1 = claw1
  claw2 = claw2
  Requests = {q1, q2}
  Credentials = {alice, bob}
  Claws = {claw1, claw2}
  Pods = {1, 2, 3}
  ClawOf <- MCClawOf
  Steady = {2, 3}
  Local = Local
  None = None
  IdleTTL = 2
  ReapEvery = 1
  ScanTimeout = 1
  MaxClock = 4
  MaxStores = 2
SYMMETRY Alike
CHECK_DEADLOCK FALSE
INVARIANTS
  OwnView
  OneWatcherPerClaw
  ScansShareAStore
  IdleStoresGo
