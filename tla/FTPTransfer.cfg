SPECIFICATION Spec
CONSTANTS
  FileSize = 4
  DirectorySize = 2
  BurstMax = 4
  SeqModulus = 64
  MaxRetry = 1
  MaxOperations = 2
  MaxFaults = 2
  ValidURIs <- MCValid
  CancelAnytime = FALSE
INVARIANT ResultsAreWhole
INVARIANT NothingIsForgotten
PROPERTY OperationsEnd
CHECK_DEADLOCK FALSE
