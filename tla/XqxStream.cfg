SPECIFICATION Spec
CONSTANTS
  BihSize = 1
  Size = 2
  MaxSeek = 2
  Documents <- MCDocuments
  MaxData = 3
INVARIANTS
  TypeOK
  ChainIsWhole
  DocumentDecodes
  LengthsAgree
CHECK_DEADLOCK FALSE
