SPECIFICATION FairSpec
CONSTANTS
  Rows = 3
  MaxPages = 2
  OutputLoss = TRUE
INVARIANTS
  TypeOK
  NothingLeftBehind
  EncoderReadsFlushed
  SentIsWhole
PROPERTIES
  ContractSpec
  CancelEnds
CHECK_DEADLOCK FALSE
