\* Two candles a day, two days of look-back, two candles a page, at most one candle missing.
SPECIFICATION Spec
CONSTANTS
  Interval = 3
  Day = 6
  Lookback = 12
  PageLimit = 2
  MinFloor = 1
  StaleAfter = 6
  Timeout = 1
  Halts <- MCHalts
  MaxNow = 32
INVARIANTS PagingComplete AcceptedFrameFinal
PROPERTIES BackfillSuffices
CHECK_DEADLOCK FALSE
