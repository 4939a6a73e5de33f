SPECIFICATION USpec
CONSTANTS
  Workers = {w1, helper}
  Helper = helper
  Copies = {"fixed"}
  MaxDisturbances = 1
VIEW Forgetful
INVARIANTS
  UTypeOK
  DoneIsClean
  FailureIsRepeatable
CHECK_DEADLOCK FALSE
