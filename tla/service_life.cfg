\* Two workers, one delivery due at a time; the grace leaves room for a poll.
CONSTANTS
  w1 = w1
  w2 = w2
  d1 = d1
  Workers = {w1, w2}
  Deliveries = {d1}
  Poll = 1
  Grace = 2
  Sweep = 1
  Retention = 2
  Enabled = {"health"}
  Never = 99
SPECIFICATION FairSpec
INVARIANTS
  ClientsOutliveJobs
  IdlePickup
  OnlyJobsAreCancelled
  ReadyIsTrue
  RetentionIsTimely
PROPERTIES
  ShutdownEnds
