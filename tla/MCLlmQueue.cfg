SPECIFICATION FairSpec
CONSTANTS
  Procs = {p1, p2}
  Prios = {0, 2}
  Cap = 1
  Retries = 1
  Threshold = 2
  Params = {thinking}
  LastDay = 2
  MaxDbErrors = 1
  MaxRestarts = 1
CHECK_DEADLOCK FALSE
INVARIANTS CapOvershoot NoCallDropped BreakerJustified
PROPERTIES PumpDrains
