SPECIFICATION Spec
CONSTANTS
  Callers = {c1, c2}
  MaxLegacy = 2
  MaxRows = 4
  MaxTime = 2
  StepsBack = TRUE
INVARIANT OnlyTamperingShows
