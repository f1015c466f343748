SPECIFICATION Spec
CONSTANTS
  d1 = d1
  d2 = d2
  loop = loop
  button = button
  Domains = {d1, d2}
  Renewable = {d1}
  Checkers = {loop}
  Background = {loop}
  MaxRetries = 2
  BackoffBase = 1
  CheckInterval = 1
  Validity = 1
  MaxTime = 3
  MaxRows = 2
  MaxManual = 0
  MaxRestarts = 0
  MaxFaults = 1
INVARIANT AttemptsSpread
PROPERTIES
  FailureIsNotified
  ExhaustionIsNotified
  ChecksGoOn
CHECK_DEADLOCK FALSE
