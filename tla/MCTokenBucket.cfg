SPECIFICATION Spec
CONSTANTS
  Rate = 2
  Capacity = 7
  Cost = 3
  Tasks = {t1, t2, t3}
  MaxTime = 9
SYMMETRY Symmetry
INVARIANT RateRespected
CHECK_DEADLOCK FALSE
