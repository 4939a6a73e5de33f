SPECIFICATION FairSpec
CONSTANTS
  Workers = {w1, w2}
  MaxDisturbances = 1
INVARIANTS
  StopHolds
  DisabledIsUnregistered
  QueueAsTold
PROPERTIES
  StaysDown
  StopSettles
  StartHolds
CHECK_DEADLOCK FALSE
