SPECIFICATION FairSpec
CONSTANTS
  Sizes <- MCSizes
  Chunk = 2
  MaxRetries = 2
  Miscount = FALSE
INVARIANTS
  CancelIsPrompt
PROPERTIES
  NoBlindRetry
  Returns
  DeliverySpec
CHECK_DEADLOCK FALSE
