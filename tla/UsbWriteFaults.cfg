SPECIFICATION Spec
CONSTANTS
  Sizes <- FewSizes
  Chunk = 2
  MaxRetries = 2
  Miscount = TRUE
INVARIANTS
  NothingSkipped
  OutcomeAgrees
  RetriesAreBounded
CHECK_DEADLOCK FALSE
