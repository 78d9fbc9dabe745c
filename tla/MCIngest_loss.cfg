SPECIFICATION Spec
CONSTANTS
  Resets = FALSE
  QueueMax = 1
  RepairBatch = 9
  SnapMax = 0
  SinkMayFail = FALSE
  MaxTrades = 3
  MaxSeq = 1
  MaxConns = 2
CHECK_DEADLOCK FALSE
INVARIANT NoSilentLoss
