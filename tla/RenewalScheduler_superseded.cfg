SPECIFICATION Spec
CONSTANTS
  d1 = d1
  d2 = d2
  loop = loop
  button = button
  Domains = {d1, d2}
  Renewable = {d1, d2}
  Checkers = {loop}
  Background = {loop}
  MaxRetries = 2
  BackoffBase = 1
  CheckInterval = 3
  Validity = 1
  MaxTime = 2
  MaxRows = 3
  MaxManual = 1
  MaxRestarts = 0
  MaxFaults = 0
PROPERTY SupersededStaysOut
CHECK_DEADLOCK FALSE
