SPECIFICATION FairSpec
CONSTANTS
  c1 = c1
  c2 = c2
  c3 = c3
  Postgres = Postgres
  Redis = Redis
  Signer = Signer
  Calls <- MCCalls
  Concurrency = 1
  Capacity = 1
INVARIANTS SlotsExact OkMeansProbed
PROPERTY SignaturesSettle
CHECK_DEADLOCK FALSE
