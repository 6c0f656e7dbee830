SPECIFICATION Spec
CONSTANTS
  Autopilot = 1
  Others = {2}
  Count <- MCCount
  Values = {0, 1}
  MaxListRetry = 1
  MaxIndexRetry = 1
  MaxReadWriteRetry = 1
  MaxBatchSize = 1
  MaxAir = 1
  MaxCalls = 2
INVARIANT SettledFactsAgree
PROPERTY MissingIsTold
PROPERTY LoadEnds
PROPERTY WritesEnd
CHECK_DEADLOCK FALSE
