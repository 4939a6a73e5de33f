SPECIFICATION Spec
CONSTANTS
  Inputs <- MCInputs
  Bytes16 = 2
INVARIANTS
  
  WholeOrError
CHECK_DEADLOCK FALSE
