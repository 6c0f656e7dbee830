CONSTANTS
  PlanItems <- MCPlanItems
  MaxCount = 2
  MaxRetryCount = 1
  PlanType = "mission"
  SendHome = TRUE
  ApmFirmware = TRUE
  UninitializedInts <- MCUninitializedInts
SPECIFICATION Spec
INVARIANTS
  TypeOK
  NeverStranded
  MultiplyConnectedOnlyInRemoveAll
  ReadAccounting
  WriteAccounting
PROPERTIES
  ImplementsTransaction
