\* Three views compete for the port, with a foreign program and faults.
SPECIFICATION FairSpec
CONSTANTS
    p1 = p1
    p2 = p2
    p3 = p3
    s1 = s1
    s2 = s2
    Free = Free
    Foreign = Foreign
    Absent = Absent
    Torn = Torn
    Pages = {p1, p2, p3}
    Sessions = {}
    ReleaseAttempts = 1
    ForeignHolds = TRUE
    Faults = TRUE
INVARIANTS
    FreshPageIsNotReplaced
PROPERTIES
    StoppedPageFreesPort
    OpeningEnds
\* Every page may have stopped.
CHECK_DEADLOCK FALSE
