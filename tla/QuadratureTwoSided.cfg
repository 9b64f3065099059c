SPECIFICATION QuadratureSpec
CONSTANTS
  Width = 8
  Errors <- ErrorsAt
  Tol = 2
  Limits = {2}
  Seeds <- SeedsAt
  Estimates = {1, 3}
  RoundoffCap = 3
  LossCap = 1
  StallCap = 1
  StallRatio = 2
  History = 1
  Modes = {"two-sided"}
  LimitsOf <- SomeLimits
CHECK_DEADLOCK FALSE
INVARIANTS
  FailureReported
