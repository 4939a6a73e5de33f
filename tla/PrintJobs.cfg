SPECIFICATION FairSpec
CONSTANTS
  Jobs = {j1, j2}
  NoJob = NoJob
  Buffers = 2
  KeepOpen = TRUE
INVARIANTS
  TypeOK
  NothingLeaks
  ActiveJobIsCurrent
  CompletedIsPrinted
  ClosedMeansReset
  NoSplice
PROPERTIES
  CancelEnds
  JobsEnd
CHECK_DEADLOCK FALSE
