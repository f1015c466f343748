SPECIFICATION Spec
CONSTANTS
  j1 = j1
  j2 = j2
  Jobs <- MCJobs
  Modes = {"manual", "delegated", "direct"}
  PoolSize = 1
  MaxLookups = 2
  Refusable <- MCJobs
SYMMETRY Symmetry
INVARIANTS
  TypeOK
  DoneMeansIssued
  AwaitingShowsRecord
  ConfirmedBeforeValidation
  OrphanIsMarked
  DirectJobsSettle
PROPERTIES
  ClosedRowOnlyCorrected
CHECK_DEADLOCK FALSE
