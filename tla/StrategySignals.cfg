\* Cooldown and warm-up of two bars, a history of five with a restart anywhere in it.
SPECIFICATION Spec
CONSTANTS
  ReadingsOf <- MCReadingsOf
  Cooldown = 2
  MinPeriods = 2
  Lookback = 1
  MinBuffer = 1
  StopMult = 2
  TargetMult = 3
  Bars = 5
  RestartBound = 1
INVARIANTS RuntimeIsBacktest RestartResyncs
CHECK_DEADLOCK FALSE
