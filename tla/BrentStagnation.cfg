SPECIFICATION RootsSpec
CONSTANTS
  Finders = {"brent"}
  Values <- DecreasingValues
  BisectWidth = 64
  NewtonWidth = 9
  BrentWidth = 16
  BisectIters = {5}
  NewtonIters = {5}
  BrentIters = {40}
  BisectXtol = 2
  NewtonXtol = 1
  Starts <- AllStarts
CHECK_DEADLOCK FALSE
INVARIANTS
  NoStagnation
