SPECIFICATION FeedSpec
CONSTANTS
    s1 = s1
    s2 = s2
    Sockets <- MCSockets
    Absent = Absent
    Buffer = 1
    PageLimit = 1
    MaxHead = 2
INVARIANT Informed
SYMMETRY Symmetry
CHECK_DEADLOCK FALSE
