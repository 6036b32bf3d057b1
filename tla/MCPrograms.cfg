SPECIFICATION MCSpec
CONSTANTS
  Modes = {"NAIVE", "STARTUP"}
  NoCache = NoCache
  One = 64
  Alpha = 8
  BufSize = 2
  Prices = {64, 128, 192}
  MaxQueue = 2
  MaxTime = 8
  ParserOne = 16
  Digits = {0, 1, 5, 9}
  MaxWhole = 3
  MaxFrac = 4
  Refs = {1, 2}
  Terms = {"bt", "vod"}
  MaxShort = 2
  MaxLong = 5
  MaxInt = 3
  MaxTaken = 4
  Symbols = {"bt", "hsbc", "vod"}
  Closes = {1, 2}
  MaxPrinters = 2
  MaxLatency = 2
  MaxUpdates = 3
  MaxAllValues = 3
  Word = 64
  Unknown = Unknown
INVARIANTS
  Disciplined
  NoneLeftBehind
  SameAnswers
  SameAsHand
  ParsedNearest
  BookExact
  LineExact
  StatsExact
CHECK_DEADLOCK FALSE
