\* One symbol, two runs of the command, writes that fail, kills between writes.
SPECIFICATION PersistedSpec
CONSTANTS
  Symbols = {"BTC"}
  QuotedSymbols = {"BTC"}
  Prices = {20, 40}
  Times = {1, 2, 3, 4}
  GridIds = {1, 2}
  GridLevels = {0, 1, 2}
  InitialBalance = 440
  FeePct = 10
  SlippagePct = 0
  MaxOpenPositions = 1
  MaxPositionSizePct = 50
  MaxDailyLossPct = 50
  MaxConsecutive = 3
  MaxErrors = 1
  Cooldown = 1
  DisabledSymbols = {}
  IsLive = FALSE
  Signals = {}
  MinBuffer = 1
  RegimeGating = TRUE
  GridStopPct = 50
  GridTargetPct = 50
  MaxLots = 12
  MaxOrders = 6
  MaxFaults = 1
  NoCandle = NoCandle
  LevelPct <- MCLevelPct
  MaxAllocation = 60
  CooldownBars = 1
  StopCooldownBars = 1
  WarmupBars = 0
  Silent = Silent
  MaxRuns = 2
  MaxFailures = 1
INVARIANTS PositionFollowsStrategy GridProtected StoreFollowsBooks LogLeadsRows StrayRowsCounted
CHECK_DEADLOCK FALSE
