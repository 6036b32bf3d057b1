SPECIFICATION Spec
CONSTANTS
  Processors = {tp}
  Symbols = {bp, vod, xyz}
  LongSymbol = LongSymbol
  NoSymbol = NoSymbol
  NoSize = NoSize
  Subscribed = {bp, vod}
  Prices = {1, 2}
  Sizes = {1}
  MaxTrades = 3
INVARIANTS
  BarExact
  VolumeExact
  Announced
PROPERTIES
  InitFirst
  IntervalsEnd
CHECK_DEADLOCK FALSE
