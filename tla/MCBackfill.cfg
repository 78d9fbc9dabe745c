SPECIFICATION Spec
CONSTANTS
  LastDay = 2
  NMonths = 2
  MonthStart <- Starts
  Lag = 1
  PageRows = 1
  MaxToday = 3
  MaxRuns = 2
  MaxStrays = 1
  Windows <- Asked
INVARIANTS PlanExact WindowPlanned DoneAccounted
PROPERTY LastFetchRecorded
CHECK_DEADLOCK FALSE
