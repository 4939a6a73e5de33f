SPECIFICATION FairSpec
CONSTANTS
  Sizes = {0, 1, 3, 4}
  Limits = {1, 3, 4, 5}
  Chunk = 2
  Layouts <- MCLayouts
INVARIANTS
  SendsPrefix
  SuccessIsClean
  SignalResets
PROPERTIES
  Ends
CHECK_DEADLOCK FALSE
