SPECIFICATION FairSpec
CONSTANTS
  MaxBatch = 3
  MaxBytes = 5
  MaxAttempts = 3
  Sizes = {1, 3}
  MaxRecords = 5
INVARIANTS LosesNothing WithinCaps
PROPERTIES FlushEnds KeepsPromise
CHECK_DEADLOCK FALSE
