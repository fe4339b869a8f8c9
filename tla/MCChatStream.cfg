SPECIFICATION FairSpec
CONSTANTS
  t1 = t1
  t2 = t2
  s1 = s1
  i1 = i1
  i2 = i2
  b1 = b1
  b2 = b2
  u1 = u1
  Nobody = Nobody
  NoCommand = NoCommand
  Txns <- MCTxns
  Senders <- MCSenders
  Ids <- MCIds
  Bodies <- MCBodies
  Readers <- MCReaders
  SlowMode = 1
  Retention = 2
  PageLimit = 1
  MaxCommands = 2
  MaxTime = 3
INVARIANTS NoGap AckedIsDurable SlowModeRespected HistoryComplete
PROPERTY AcceptEnds
CHECK_DEADLOCK FALSE
