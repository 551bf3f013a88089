\* Two symbols where one position is allowed.
SPECIFICATION GridSpec
CONSTANTS
  Symbols = {"BTC", "ETH"}
  QuotedSymbols = {"BTC", "ETH"}
  Prices = {20, 40}
  Times = {1, 2}
  GridIds = {1}
  GridLevels = {0, 1}
  InitialBalance = 440
  FeePct = 10
  SlippagePct = 0
  MaxOpenPositions = 1
  MaxPositionSizePct = 50
  MaxDailyLossPct = 50
  MaxConsecutive = 3
  MaxErrors = 1
  Cooldown = 1
  DisabledSymbols = {}
  IsLive = FALSE
  Signals = {}
  MinBuffer = 1
  RegimeGating = FALSE
  GridStopPct = 50
  GridTargetPct = 50
  MaxLots = 12
  MaxOrders = 6
  MaxFaults = 1
  NoCandle = NoCandle
  LevelPct <- MCLevelPct
  MaxAllocation = 60
  CooldownBars = 1
  StopCooldownBars = 1
  WarmupBars = 0
  Silent = Silent
INVARIANT OpenPositionsCapped
