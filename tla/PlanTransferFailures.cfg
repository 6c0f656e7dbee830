CONSTANTS
  PlanItems <- MCWaypoints
  MaxCount = 4
  MaxRetryCount = 1
  PlanType = "mission"
  SendHome = TRUE
  ApmFirmware = TRUE
  UninitializedInts = {0}
  MaxTransactions = 3
  MaxLosses = 0
  Modes <- MCAllModes
  InitialPlans <- MCWaypointPlan
SPECIFICATION TransferSpec
PROPERTY OutcomesAsTested
CHECK_DEADLOCK FALSE
