SPECIFICATION Spec
CONSTANTS
  d1 = d1
  d2 = d2
  loop = loop
  button = button
  Domains = {d1}
  Renewable = {d1}
  Checkers = {loop, button}
  Background = {loop}
  MaxRetries = 2
  BackoffBase = 0
  CheckInterval = 3
  Validity = 1
  MaxTime = 1
  MaxRows = 3
  MaxManual = 1
  MaxRestarts = 1
  MaxFaults = 0
SYMMETRY Symmetry
INVARIANTS
  TypeOK
  RetriesBounded
  RunningIsWatched
CHECK_DEADLOCK FALSE
