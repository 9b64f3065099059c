SPECIFICATION Spec
CONSTANTS
  Times = {0, 4}
  HMin = 2
  HMax = 7
  MaxSteps = 3
  Validity = {TRUE}
  Counter = 32
  Calls = 1
CHECK_DEADLOCK FALSE
INVARIANTS
  FailureIsIncomplete
