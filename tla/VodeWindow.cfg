SPECIFICATION MultistepSpec
CONSTANTS
  Codes = {"vode"}
  AdamsOrder = 4
  AdamsSizes = {1, 2}
  VodeOrder = 3
  VodeSizes = {1, 2, 10, 20}
  RestartWait = 5
  ConvFailures = 2
  ErrFailures = 4
  Targets = {10, 11, 12, 13, 20}
  Stops = {11, 20}
  Gap = 2
  Floor = 3
  Touts <- ConstTouts
  Roots <- ConstRoots
  Longest = 6
  Reach = 2
  MaxSteps = 4
  Calls = 3
CHECK_DEADLOCK FALSE
INVARIANTS
  InterpolatesExactly
