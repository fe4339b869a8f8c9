SPECIFICATION FairSpec
CONSTANTS
  d1 = d1
  d2 = d2
  w1 = w1
  w2 = w2
  r1 = r1
  Gone = Gone
  NoOwner = NoOwner
  Deliveries <- MCDeliveries
  Workers <- MCWorkers
  Realtimes <- MCRealtimes
  BatchSize = 2
  Concurrency = 2
  MaxAttempts = 2
  MaxDisruptions = 2
INVARIANT CopiesBounded
PROPERTIES OnlyOwnerReleases ImplementsAtLeastOnce EventuallySettled
CHECK_DEADLOCK FALSE
