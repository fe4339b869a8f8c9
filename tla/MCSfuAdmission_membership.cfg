SPECIFICATION Spec
CONSTANTS
    c1 = c1
    c2 = c2
    k1 = k1
    Calls <- MCCalls
    Commands <- MCCommands
    Nobody = Nobody
    NoRow = NoRow
    Mode = "video_conference"
    Policy = "required"
    TokenTtl = 1
    SessionEnds = 3
    Retention = 1
    MaxTime = 3
    MaxVersion = 1
PROPERTY MembershipChangeWins
CHECK_DEADLOCK FALSE
