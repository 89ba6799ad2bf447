\* Two pages with two sessions each, publishing while they are replaced.
SPECIFICATION Spec
CONSTANTS
    p1 = p1
    p2 = p2
    p3 = p3
    s1 = s1
    s2 = s2
    Free = Free
    Foreign = Foreign
    Absent = Absent
    Torn = Torn
    Pages = {p1, p2}
    Sessions = {s1, s2}
    ReleaseAttempts = 1
    ForeignHolds = FALSE
    Faults = TRUE
INVARIANTS
    TypeOK
    ControlNamesHolder
PROPERTIES
    NothingStartsAfterShutdown
\* Every page may have stopped.
CHECK_DEADLOCK FALSE
