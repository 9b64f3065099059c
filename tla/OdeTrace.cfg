SPECIFICATION TraceSpec
CONSTANTS
  Times = {0, 4}
  HMin = 2
  HMax = 7
  MaxSteps = 3
  Validity = {TRUE, FALSE}
  Counter = 32
  Calls = 2
  Strides = {0, 1, 2}
CHECK_DEADLOCK FALSE
INVARIANTS
  FirstEventFound
  ReplayIsExact
PROPERTIES
  ImplementsTrace
  Returns
