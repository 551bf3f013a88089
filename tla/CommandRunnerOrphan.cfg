\* A reader that raises once.
SPECIFICATION Spec
CONSTANTS
  Clients = {tab1, tab2}
  Stoppers = {stop1}
  MaxRuns = 2
  MaxLines = 2
  BufferCap = 3
  HistoryCap = 1
  MaxFaults = 1
INVARIANT OneChild
CHECK_DEADLOCK FALSE
