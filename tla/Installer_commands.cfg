\* Two commands, in any order and side by side, with crashes and faults.
SPECIFICATION Spec
CONSTANTS
    a = a
    b = b
    here = here
    there = there
    None = None
    Corrupt = Corrupt
    Installers = {a, b}
    Candidates <- ThreeCandidates
    Places = {here, there}
    FileFaults = TRUE
SYMMETRY InstallerSymmetry
\* Nothing is claimed of what follows the theft of a lock.
CONSTRAINT
    UntilTheft
INVARIANTS
    OneMutator
    FailureRestores
    InstalledIsTrue
PROPERTIES
    SourceSurvives
\* Every command may have ended.
CHECK_DEADLOCK FALSE
