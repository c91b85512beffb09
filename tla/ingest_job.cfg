\* Times are short; three polls and three sends per request.
CONSTANTS
  RequestTime = 2
  Backoff = 1
  PollAttempts = 3
  PollInterval = 3
  VisionTime = 2
  RetryDelay = 1
SPECIFICATION FairSpec
INVARIANTS
  JobIsBounded
  OneRetryForPassing
  OutageKeepsTheImage
PROPERTIES
  JobEnds
CHECK_DEADLOCK FALSE
