SPECIFICATION MCSpec
CONSTANTS
  Producers = {p1, p2}
  Consumer = c
  NoThread = NoThread
  Capacity = 2
  MaxPackets = 2
  Routers = {t1, t2}
  Quiescent = Quiescent
  MaxCalls = 3
  MaxDepth = 2
  Senders = {c1, c2}
  RecordSize = 2
  FifoSize = 4
  QueueLimit = 1
  Garbled = Garbled
  MaxSent = 3
INVARIANTS
  NeverPopsEmpty
  NothingLost
  RunsOnOne
  NotForgotten
  LateOnce
  Exclusive
  CodeThere
  Delivered
PROPERTIES
  Drains
  EventuallyRuns
  EventuallyMoved
  Unloads
  Arrives
CHECK_DEADLOCK FALSE
