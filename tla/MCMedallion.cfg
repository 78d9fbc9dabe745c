SPECIFICATION Spec
CONSTANTS
  NTrades = 4
  EventTime <- Times
  Unkeyed = {4}
  Bad = {1,4}
  DayLen = 2
  Lookback = 1
  OldAge = 4
  Skew = 0
  Drift = 1
  MaxTime = 4
  MaxRows = 2
  MaxCopies = 1
INVARIANTS SilverUnique NothingDropped GoldFollows
PROPERTY GoldMonotone
CHECK_DEADLOCK FALSE
