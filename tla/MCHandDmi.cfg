SPECIFICATION Spec
CONSTANTS
  Modes = {"STARTUP"}
  NoCache = NoCache
  One = 64
  Alpha = 8
  BufSize = 2
  Prices = {64, 192}
  MaxQueue = 1
  MaxTime = 9
INVARIANT SameAsHandDmi
CHECK_DEADLOCK FALSE
