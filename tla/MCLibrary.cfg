SPECIFICATION MCSpec
CONSTANTS
  r1 = r1
  r2 = r2
  a = a
  b = b
  Rings <- MCRings
  Values <- MCValues
  Fresh = Fresh
  InitCapacity <- MCInitCapacity
  MaxCapacity = 3
  One = 64
  Alpha = 24
  BufSize = 3
  Samples = {0, 64, 164}
  NoCache = NoCache
  SumValues = {0, 1, 2}
  SumMaxTime = 6
SYMMETRY MCSymmetry
INVARIANTS
  IncrementalClose
PROPERTIES
  RefinesDeque
  SumRefinesWindow
CHECK_DEADLOCK FALSE
