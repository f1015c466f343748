SPECIFICATION CatalogSpec
CONSTANTS
  Loop = Loop
  Thread = Thread
  None = None
  Callers <- MCCallers
  Entries = {e1}
  MaxLegacy = 2
  MaxRows = 3
  MaxTime = 1
  StepsBack = TRUE
INVARIANTS
  CatalogTypeOK
  UntouchedVerifies
  TamperingShows
  TrailExplainsCatalog
PROPERTIES
  RecordedRowsStay
