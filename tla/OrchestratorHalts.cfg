\* Two symbols and one that is misquoted, traded without a grid: the halts and the
\* limit on open positions, with errors, losses and interrupts.
SPECIFICATION Spec
CONSTANTS
  Symbols = {"BTC", "ETH", "ODD"}
  QuotedSymbols = {"BTC", "ETH"}
  Prices = {10, 20}
  Times = {1, 2}
  GridIds = {}
  GridLevels = {0}
  InitialBalance = 200
  FeePct = 10
  SlippagePct = 0
  MaxOpenPositions = 1
  MaxPositionSizePct = 50
  MaxDailyLossPct = 50
  MaxConsecutive = 1
  MaxErrors = 2
  Cooldown = 1
  DisabledSymbols = {}
  IsLive = FALSE
  Signals <- PlainSignals
  MinBuffer = 1
  RegimeGating = FALSE
  GridStopPct = 50
  GridTargetPct = 50
  MaxLots = 10
  MaxOrders = 4
  MaxFaults = 2
  NoCandle = NoCandle
INVARIANTS ExposureCapped
PROPERTIES NoEntryWhileHalted
