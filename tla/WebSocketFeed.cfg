SPECIFICATION Spec
CONSTANTS
  s1 = s1
  s2 = s2
  Symbols <- MCSymbols
  MaxReconnects = 3
  Bars = 3
  WireCap = 2
INVARIANTS GapsExplained GivesUpOnlyUnreachable
PROPERTIES FeedReturns
CHECK_DEADLOCK FALSE
