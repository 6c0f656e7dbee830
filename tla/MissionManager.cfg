CONSTANTS
  PlanItems <- MCPlanItems
  MaxCount = 1
  MaxRetryCount = 0
  PlanType = "mission"
  SendHome = FALSE
  ApmFirmware = FALSE
  UninitializedInts = {0}
  LastIndex = 1
  LandStart = 2
  MaxTelemetry = 2
SPECIFICATION MissionSpec
INVARIANTS
  LandingIsNotResumed
