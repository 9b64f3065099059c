SPECIFICATION SystemSpec
CONSTANTS
  Steppers = {"bdf", "exprb", "rk8pd", "newton"}
  Targets <- ConstTargets
  InitialStep = 6
  MinStep = 2
  MaxStep = 6
  MaxSteps = 4
  Roundoff = 1
  Rel = 4
  Calls = 3
  Top = 4
  MaxNewton = 3
  MaxBacktracks = 2
CHECK_DEADLOCK FALSE
INVARIANTS
  HistoryConsistent
  GrowthBounded
  BaseIsCurrent
  WorkBounded
PROPERTIES
  ContractKept
  Returns
