SPECIFICATION Spec
CONSTANTS
  j1 = j1
  j2 = j2
  Jobs = {j1}
  Modes = {"manual", "delegated", "direct"}
  PoolSize = 1
  MaxLookups = 1
  Refusable = {}
INVARIANT NeverStuckInProgress
CHECK_DEADLOCK FALSE
