SPECIFICATION Spec
CONSTANTS
  j1 = j1
  j2 = j2
  Jobs <- MCJobs
  Modes = {"delegated"}
  PoolSize = 1
  MaxLookups = 1
  Refusable = {j1}
PROPERTIES
  LateSuccessRecorded
  WorkersComeBack
  ImplementsLedger
CHECK_DEADLOCK FALSE
