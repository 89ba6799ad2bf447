\* Two checks, visited one after the other, each in a container of its own.
SPECIFICATION MCSpec
CONSTANTS
    Count = 2
    Configs <- Varied
CHECK_DEADLOCK FALSE
INVARIANTS
    RunsOnlyPinnedCode
    NothingLeftUnsaid
    WritesAreTrue
PROPERTIES
    ReviewGoesOn
