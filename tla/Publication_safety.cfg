\* Two pages, two comments, crashes and faults; requests end before their deadline.
SPECIFICATION Spec
CONSTANTS
    p1 = p1
    p2 = p2
    f1 = f1
    f2 = f2
    None = None
    Pages = {p1, p2}
    Findings = {f1, f2}
    LookAlikes <- ColleaguesNote
    LateDelivery = FALSE
    CarelessRecovery = FALSE
    FileFaults = TRUE
    MaxSubmissions = 2
    MaxInvalid = 1
SYMMETRY PageSymmetry
INVARIANTS
    TypeOK
    OnePublisher
    NoDuplicateComment
    SentIsNeverReportedUnsent
    AtMostOneStraggler
    ConfirmedExists
PROPERTIES
    ImplementsLedger
