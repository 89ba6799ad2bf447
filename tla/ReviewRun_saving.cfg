\* Two runs, two candidates for a name, two versions of the merge request.
SPECIFICATION Spec
CONSTANTS
    r1 = r1
    r2 = r2
    None = None
    Runs = {r1, r2}
    Limit = 2
    MaxFindings = 2
    MaxComments = 1
    Diffs <- DiffList
    Outputs <- OutputSet
SYMMETRY Symmetry
INVARIANTS
    OneRunPerDirectory
    OpenedReviewHolds
\* Every run may be over.
CHECK_DEADLOCK FALSE
