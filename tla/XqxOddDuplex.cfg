SPECIFICATION Spec
CONSTANTS
  BihSize = 2
  Size = 2
  MaxSeek = 2
  Documents <- OddDocuments
  MaxData = 1
INVARIANTS
  OddCountHandled
CHECK_DEADLOCK FALSE
