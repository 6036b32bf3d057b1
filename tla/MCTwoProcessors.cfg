SPECIFICATION Spec
CONSTANTS
  Processors = {tp1, tp2}
  Symbols = {bp, vod, xyz}
  LongSymbol = LongSymbol
  NoSymbol = NoSymbol
  NoSize = NoSize
  Subscribed = {bp, vod}
  Prices = {1, 2}
  Sizes = {1}
  MaxTrades = 1
INVARIANT
  TimerStarted
CHECK_DEADLOCK FALSE
