SPECIFICATION Spec
CONSTANTS
  Modes = {"NAIVE"}
  NoCache = NoCache
  One = 64
  Alpha = 40
  BufSize = 2
  Prices = {64, 192}
  MaxQueue = 2
  MaxTime = 6
PROPERTY UpdatesAreTemporary
CHECK_DEADLOCK FALSE
