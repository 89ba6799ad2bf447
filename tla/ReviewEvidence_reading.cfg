SPECIFICATION EvidenceSpec
CONSTANTS
  MaxFileBytes = 2
  MaxTotalBytes = 3
  MaxDirectoryLists = 2
  MaxContextReads = 3
  ReadConcurrency = 2
  Reserve = 2
  BatchPaths = 1
  Traits <- TraitsValue
  DirectoryOf <- DirectoryValue
  RequestSet <- Requests
  Canonical <- CanonicalValue
  Retrievable <- RetrievableValue
INVARIANTS
  CoverageIsTrue
  PrimedReadsAgree
  SnapshotIsTrue
  JudgedAgainstWhatWasAsked
  PolicyIsWhatPacksSay
CHECK_DEADLOCK FALSE
