SPECIFICATION Spec
CONSTANTS
  Senders = {c}
  RecordSize = 17
  FifoSize = 256
  QueueLimit = 20
  Garbled = Garbled
  MaxSent = 17
INVARIANT WholeMessages
CHECK_DEADLOCK FALSE
