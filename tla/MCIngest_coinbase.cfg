SPECIFICATION FairSpec
CONSTANTS
  Resets = TRUE
  QueueMax = 1
  RepairBatch = 2
  SnapMax = 1
  SinkMayFail = TRUE
  MaxTrades = 3
  MaxSeq = 3
  MaxConns = 2
CHECK_DEADLOCK FALSE
INVARIANTS GapsDetected ReceivedKept
PROPERTIES RepairsFinish StopTerminates
