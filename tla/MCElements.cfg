SPECIFICATION MCSpec
CONSTANTS
  Ports <- TwoPorts
  Cap = 3
  Zero = 0
  Values = {0, 1, 2}
  StartModes <- BothModes
  MaxTime = 5
  NoCache = NoCache
  One = 4
  Alpha = 1
  BufSize = 2
  initialize_element <- Invalid
  process_naive <- PdmNaive
  process_ext <- PdmExt
  process_opt_ext <- PdmOptExt
  Arity = 3
  Timers = {ta, tb}
  NoTimer = NoTimer
  MaxTimers = 1
  TimerMaxTime = 3
  MaxCalls = 3
  HeapTimers = {h1, h2, h3, h4, h5}
  Expiries = {1, 2, 3}
  Prices = {4, 12, 20}
  MovementTrades = 5
  Lead = 2
  LastStamp = 4
  IntervalLen = 2
  MaxMessages = 5
  NoPort = NoPort
  AroonPrices = {1, 2, 3}
  Sizes = {1}
  Span = 3
  MaxIntervals = 4
  AroonTrades = 2
INVARIANTS
  WellPlaced
  NeverOversleeps
  NoneStarves
  HeapOrdered
  SmoothedExact
  LatestJoined
  AroonExact
PROPERTIES
  RefinesWindow
  RefinesAlarms
CHECK_DEADLOCK FALSE
