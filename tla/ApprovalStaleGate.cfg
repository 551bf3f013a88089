SPECIFICATION Spec
CONSTANTS
  Keys = {"BTC:1h", "ETH:1h"}
  Configured = {"BTC:1h"}
  ParamSets = {p1, p2}
  StrategyOf <- MCStrategyOf
  Robustness <- MCRobustness
  AvgSharpe <- MCAvgSharpe
  MinPassPct = 50
  Diagnostics <- MCDiagnostics
  MaxRuns = 2
  NoParams = NoParams
INVARIANT TradedWasReady
CHECK_DEADLOCK FALSE
