\* No exception, two commands accepted back to back.
SPECIFICATION Spec
CONSTANTS
  Clients = {tab1, tab2}
  Stoppers = {stop1}
  MaxRuns = 2
  MaxLines = 2
  BufferCap = 3
  HistoryCap = 1
  MaxFaults = 0
INVARIANT RunningReported
CHECK_DEADLOCK FALSE
