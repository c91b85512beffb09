\* Jobs end within their lease: JobBudget < Lease.  No symmetry: liveness too.
CONSTANTS
  d1 = d1
  d2 = d2
  d3 = d3
  k1 = k1
  k2 = k2
  w1 = w1
  w2 = w2
  Deliveries = {d1, d2}
  Keys = {k1}
  KeyOf <- MCKeyOf
  Workers = {w1, w2}
  MaxAttempts = 2
  Lease = 2
  JobBudget = 1
  BackoffBase = 1
  BackoffCap = 2
  Retention = 1
  None = None
SPECIFICATION FairSpec
INVARIANTS
  TypeOK
  CompletionIsBacked
  FailedIsExhausted
  SoleHolder
  HolderIsCurrent
PROPERTIES
  TerminalIsFinal
  ImplementsContract
  AcceptedComesToRest
