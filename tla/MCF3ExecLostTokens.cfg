SPECIFICATION FairSpec
CONSTANTS
  a1 = a1
  a2 = a2
  a3 = a3
  b1 = b1
  NoOwner = NoOwner
  LeaseTicks = 1
  ClaimTicks = 1
  EvidenceTicks = 2
  MaxAttempts = 1
  AttemptLimit = 2
  FinalReadAtDeadline = FALSE
  MaxCrashes = 0
  MaxFaults = 0
  MaxGeneration = 6
  LastAcquisition = 2
  PromptRenewal = FALSE
  Key <- MCKey
  Rank <- MCRank
  Plan <- MCPlan
  Owner <- ThreeRuns
  Task <- SoleTask
  TaskOf <- ThreeTaskOf
  PlanOf <- SolePlanOf
  Requests <- SoleRequests
  HoldKeys <- SoleHoldKeys
  Verdicts <- Conclusive
  CrashAt <- NoSteps
  PromptAt <- EveryStep
PROPERTIES
  PreDispatchReleases
CHECK_DEADLOCK FALSE
