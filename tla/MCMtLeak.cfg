SPECIFICATION Spec
CONSTANTS
  Producers = {p1}
  Consumer = c
  NoThread = NoThread
  Capacity = 1
  MaxPackets = 1
INVARIANT Accounted
CHECK_DEADLOCK FALSE
