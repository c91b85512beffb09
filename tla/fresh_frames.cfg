\* One worker, the default; three triggers of one camera.
CONSTANTS
  w1 = w1
  w2 = w2
  NumJobs = 3
  Workers = {w1}
  PollAttempts = 2
  Tolerance = 1
  DedupeWindow = 1
  MaxAttempts = 2
  MaxFaults = 1
  MaxTime = 2
  None = None
SPECIFICATION FairSpec
INVARIANTS
  PublishedForItsTrigger
  ReuseIsBounded
  RepeatIsRefused
PROPERTIES
  StaleIsJustified
  TriggersSettle
CHECK_DEADLOCK FALSE
