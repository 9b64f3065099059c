SPECIFICATION NewtonSpec
CONSTANTS
  Merits = {0, 1, 2}
  NanKinds = {"none"}
  StepKinds = {"long", "scaled", "full"}
  MaxIter = 3
  MaxHalvings = 3
  Trials = 3
  PairMaxIter = 2
  PairSteps = {"long"}
  HybridIter = 4
  SlowIters = 3
  SlowJacs = 2
  Radius = 2
  XtolLevel = 1
  Sizes = {1, 2}
  Calls = 2
INVARIANTS
  TerminalStateIsAccepted
  AgreesOnPlainRuns
  StatusIsHonest
  WorkBounded
  WarmIsSound
PROPERTIES
  Returns
CHECK_DEADLOCK FALSE
