SPECIFICATION FairSpec
CONSTANTS
  a1 = a1
  a2 = a2
  a3 = a3
  b1 = b1
  NoOwner = NoOwner
  LeaseTicks = 1
  ClaimTicks = 1
  EvidenceTicks = 3
  MaxAttempts = 2
  AttemptLimit = 8
  FinalReadAtDeadline = TRUE
  MaxCrashes = 2
  MaxFaults = 0
  MaxGeneration = 9
  LastAcquisition = 2
  PromptRenewal = FALSE
  Key <- MCKey
  Rank <- MCRank
  Plan <- MCPlan
  Owner <- ThreeRuns
  Task <- SoleTask
  TaskOf <- ThreeTaskOf
  PlanOf <- SolePlanOf
  Requests <- SoleRequests
  HoldKeys <- SoleHoldKeys
  Verdicts <- AllVerdicts
  CrashAt <- SafeToDie
  PromptAt <- EveryStep
PROPERTIES
  EveryDispatchResolves
  DuplicateReleases
CHECK_DEADLOCK FALSE
