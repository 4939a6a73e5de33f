SPECIFICATION Spec
CONSTANTS
  Jobs = {j1, j2}
  NoJob = NoJob
  Buffers = 2
  KeepOpen = TRUE
PROPERTIES
  ResetBeforeNextJob
CHECK_DEADLOCK FALSE
