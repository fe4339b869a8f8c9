SPECIFICATION FeedFairSpec
CONSTANTS
    s1 = s1
    s2 = s2
    Sockets <- MCOneSocket
    Absent = Absent
    Buffer = 2
    PageLimit = 1
    MaxHead = 4
INVARIANTS FeedTypeOK NoSkip ReplayIsInOrder
PROPERTIES CaughtUp
CHECK_DEADLOCK FALSE
