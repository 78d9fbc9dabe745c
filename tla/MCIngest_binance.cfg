SPECIFICATION Spec
CONSTANTS
  Resets = FALSE
  QueueMax = 2
  RepairBatch = 2
  SnapMax = 0
  SinkMayFail = TRUE
  MaxTrades = 5
  MaxSeq = 1
  MaxConns = 3
CHECK_DEADLOCK FALSE
INVARIANTS TypeOK AccountedFor OnceInOrder
