\* One symbol trading a grid, every interleaving of candles, signals,
\* errors and interrupts over five bars.
SPECIFICATION Spec
CONSTANTS
  Symbols = {"BTC"}
  QuotedSymbols = {"BTC"}
  Prices = {10, 20, 40}
  Times = {1, 2, 3, 4, 5}
  GridIds = {1, 2}
  GridLevels = {0, 1, 2}
  InitialBalance = 220
  FeePct = 10
  SlippagePct = 0
  MaxOpenPositions = 1
  MaxPositionSizePct = 100
  MaxDailyLossPct = 50
  MaxConsecutive = 3
  MaxErrors = 2
  Cooldown = 1
  DisabledSymbols = {}
  IsLive = FALSE
  Signals <- BookSignals
  MinBuffer = 2
  RegimeGating = TRUE
  GridStopPct = 50
  GridTargetPct = 50
  MaxLots = 10
  MaxOrders = 4
  MaxFaults = 1
  NoCandle = NoCandle
INVARIANTS TypeOK BooksAgree CounterAgrees CashIdentity
PROPERTIES NoFillAfterExit LevelBoughtOnce GridAllocationCapped GridLossBounded LedgerSpec
