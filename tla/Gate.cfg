SPECIFICATION Spec
INVARIANTS
  LimitsHold
  BudgetHolds
CONSTANTS
  w1 = w1
  w2 = w2
  p1 = p1
  p2 = p2
  p3 = p3
  Workers = {w1, w2}
  None = None
  Window = 2
  TTL = 1
  Estimates = 48
  MaxTime = 3
  MaxTurns = 1
  Cases <- MCCases
CHECK_DEADLOCK FALSE
