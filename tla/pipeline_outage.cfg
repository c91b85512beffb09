\* No pass for longer than the lookback.
CONSTANTS
  door = door
  yard = yard
  Order <- MCOrder
  Settle = 1
  Slack = 1
  Lookback = 2
  StaleAfter = 1
  Skew = 1
  MaxTime = 6
  MaxTriggers = 1
  MaxPasses = 3
  None = None
SPECIFICATION Spec
INVARIANTS
  CompleteIsTrue
CHECK_DEADLOCK FALSE
