CONSTANTS
  PlanItems <- MCJumps
  MaxCount = 4
  MaxRetryCount = 1
  PlanType = "mission"
  SendHome = FALSE
  ApmFirmware = FALSE
  UninitializedInts = {0}
  MaxTransactions = 2
  MaxLosses = 3
  Modes <- MCFailNone
  InitialPlans <- MCVehiclePlan
SPECIFICATION TransferSpec
PROPERTY ReportedIsDone
PROPERTY ReadPlanIsTheVehicles
PROPERTY TransactionsEnd
CHECK_DEADLOCK FALSE
