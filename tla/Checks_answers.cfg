\* Two checks of one project, whose checkout is edited meanwhile.
SPECIFICATION FairSpec
CONSTANTS
    t1 = t1
    t2 = t2
    Unread = Unread
    Count = 2
    ProjectOf <- OneProject
    Configs <- Varied
    Contents = {t1, t2}
    Upfront <- FirstOrNone
    Declinable <- CheckKeys
    Edits = TRUE
INVARIANTS
    NothingUnapprovedRuns
    EvidenceIsSettled
    MutationsAreAttributed
    NoSilentDrift
PROPERTIES
    AnswersLeadToReview
