\* One capture, three edits and two commits: an edit may fall between any two of its reads.
SPECIFICATION CaptureSpec
CONSTANTS
    r1 = r1
    a = a
    b = b
    Runs = {r1}
    Paths <- PathList
    MaxEdits = 3
    MaxCommits = 2
INVARIANTS
    CapturedIsDiffed
\* The capture may be over.
CHECK_DEADLOCK FALSE
