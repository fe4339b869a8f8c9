SPECIFICATION FairSpec
CONSTANTS
  s1 = s1
  s2 = s2
  k1 = k1
  k2 = k2
  p1 = p1
  None = None
  Sockets <- MCSockets
  Sources <- MCSources
  Sessions <- MCSessions
  SourceLimit = 1
  SessionLimit = 1
  MaxPending = 1
  Revalidate = 1
  AnswerTime = 1
INVARIANTS RegistryExact DrainedStaysEmpty
PROPERTIES RevocationTakesEffect UnauthenticatedLeave
CHECK_DEADLOCK FALSE
