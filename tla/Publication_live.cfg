\* Handlers run on and requests end, even late or with the lease removed by hand; an invalid form, which
\* touches neither slot nor lease, is left to the safety run.
SPECIFICATION FairSpec
CONSTANTS
    p1 = p1
    p2 = p2
    f1 = f1
    f2 = f2
    None = None
    Pages = {p1, p2}
    Findings = {f1}
    LookAlikes = {}
    LateDelivery = TRUE
    CarelessRecovery = TRUE
    FileFaults = FALSE
    MaxSubmissions = 2
    MaxInvalid = 0
PROPERTIES
    FormEnds
    LeaseIsReleased
