\* Two cameras; lost, late and skewed deliveries; failed and aborted passes.
CONSTANTS
  door = door
  yard = yard
  Order <- MCOrder
  Settle = 1
  Slack = 1
  Lookback = 2
  StaleAfter = 1
  Skew = 1
  MaxTime = 4
  MaxTriggers = 2
  MaxPasses = 3
  None = None
SPECIFICATION Spec
INVARIANTS
  GapsAreExact
  PipelineStatusIsHonest
  CompleteWhereExamined
CHECK_DEADLOCK FALSE
