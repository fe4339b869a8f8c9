SPECIFICATION FairSpec
CONSTANTS
  r1 = r1
  c1 = c1
  c2 = c2
  Reqs <- MCReqs
  Conns <- MCConns
  Attempts = 2
  TicketTtl = 2
  IdleTtl = 2
  Absolute = 3
  MeetingEnd = 3
  MaxTime = 4
INVARIANTS OneConsumer AuditedBeforeUse RevokedNotAdmitted
PROPERTY
  AuditSettles
CHECK_DEADLOCK FALSE
