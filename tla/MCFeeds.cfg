SPECIFICATION MCSpec
CONSTANTS
  Pairs <- MCPairs
  Families = {taker}
  GridMs = 2
  MaxPollMs = 2
  LagMs = 1
  DayMs = 2
  Lookback = 1
  MaxMs = 5
  MaxPolls = 2
  Series = {cpi}
  Dates = {1, 2}
  Since = 2
  Readings = {a, b}
  Blank = blank
  MaxVintage = 3
  MaxPulls = 2
  MaxShown = 6
  Floor = 2
  Ceil = 3
  Kilo = 4
  Instants = {32, 44, 45}
  Lines <- MCLines
  MaxLines = 2
  MaxTries = 2
  MaxEditions = 2
INVARIANTS RowsHonest PointInTime LoadSound
PROPERTIES EarliestPollKept ReachesSilver
CHECK_DEADLOCK FALSE
