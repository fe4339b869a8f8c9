SPECIFICATION MigrationFairSpec
CONSTANTS
  r1 = r1
  r2 = r2
  a = a
  b = b
  None = None
  Runners <- MCRunners
  Versions <- MCVersions
  Checksums <- MCChecksums
INVARIANTS AppliedOnce SuccessIsComplete
PROPERTY RunnersEnd
CHECK_DEADLOCK FALSE
