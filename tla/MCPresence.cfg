SPECIFICATION FairSpec
CONSTANTS
  k1 = k1
  k2 = k2
  p1 = p1
  p2 = p2
  Sockets <- MCSockets
  Owner <- MCOwner
  MaxShown = 1
  MaxPerSession = 1
  Ttl = 1
  Purge = 1
  MaxPending = 1
INVARIANT RevisionOutlives
PROPERTIES SnapshotsAgree DeadDisappear
CHECK_DEADLOCK FALSE
