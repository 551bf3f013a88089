\* Two commands whose reader may raise once, two concurrent stops, two tabs that come and go.
SPECIFICATION FairSpec
CONSTANTS
  Clients = {tab1, tab2}
  Stoppers = {stop1, stop2}
  MaxRuns = 2
  MaxLines = 2
  BufferCap = 2
  HistoryCap = 1
  MaxFaults = 1
INVARIANTS OneChildUnlessFaulted StopKillsItsTarget StreamFaithful HistoryComplete
PROPERTIES StopEnds RunsFinish
CHECK_DEADLOCK FALSE
