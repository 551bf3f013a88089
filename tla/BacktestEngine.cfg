SPECIFICATION Spec
CONSTANTS
  Bars = 5
  BarShapes <- MCShapes
  Signals <- MCSignals
  InitialCapital = 20000
  FeePct = 10
  SlippagePct = 10
  SizePct = 50
  DefaultStopPct = 40
  DefaultTargetPct = 50
  GridStopPct = 40
  GridTargetPct = 40
INVARIANT FinalEquityIsPnl
PROPERTIES GridLossIsStopShare LedgerSpec
CHECK_DEADLOCK FALSE
