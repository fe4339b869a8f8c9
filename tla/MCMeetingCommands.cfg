SPECIFICATION Spec
CONSTANTS
  c1 = c1
  c2 = c2
  c3 = c3
  k1 = k1
  k2 = k2
  b1 = b1
  Calls <- MCCalls
  Commands <- MCCommands
  Bodies <- MCBodies
  Rings <- MCRings
  MaxRetries = 2
  Nobody = Nobody
  NoRow = NoRow
INVARIANTS OneParticipantPerCommand UsesCounted AnswersAgree LocksOrdered
PROPERTY ClosedAdmitsNobody
SYMMETRY Symmetry
CHECK_DEADLOCK FALSE
