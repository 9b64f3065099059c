SPECIFICATION OneSpec
CONSTANTS
  Finders = {"bisect", "newton", "brent", "event"}
  Values <- NormalValues
  BisectWidth = 64
  NewtonWidth = 9
  BrentWidth = 16
  BisectIters = {0, 2, 5}
  NewtonIters = {0, 2, 5}
  BrentIters = {2, 40}
  BisectXtol = 2
  NewtonXtol = 1
  Starts <- AllStarts
  Width = 8
  Errors <- ErrorsAt
  Tol = 2
  Limits = {1, 2, 5, 8}
  Seeds <- SeedsAt
  Estimates = {1, 3}
  RoundoffCap = 3
  LossCap = 1
  StallCap = 1
  StallRatio = 2
  History = 1
  Modes = {"adaptive", "two-sided", "gk", "cquad"}
  LimitsOf <- SomeLimits
CHECK_DEADLOCK FALSE
INVARIANTS
  BracketKept
  RootLocated
  WorkspaceConsistent
  ShallowErrorTracked
  StatusIsHonest
