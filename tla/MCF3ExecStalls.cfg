SPECIFICATION Spec
CONSTANTS
  a1 = a1
  a2 = a2
  a3 = a3
  b1 = b1
  NoOwner = NoOwner
  LeaseTicks = 1
  ClaimTicks = 1
  EvidenceTicks = 1
  MaxAttempts = 1
  AttemptLimit = 2
  FinalReadAtDeadline = FALSE
  MaxCrashes = 1
  MaxFaults = 1
  MaxGeneration = 3
  LastAcquisition = 3
  PromptRenewal = FALSE
  Key <- MCKey
  Rank <- MCRank
  Plan <- MCPlan
  Owner <- TwoRuns
  Task <- SoleTask
  TaskOf <- TwoTaskOf
  PlanOf <- SolePlanOf
  Requests <- SoleRequests
  HoldKeys <- SoleHoldKeys
  Verdicts <- AllVerdicts
  CrashAt <- EveryStep
  PromptAt <- NoSteps
SYMMETRY TwoAlike
INVARIANTS
  TypeOK
  AtMostOneSend
CHECK_DEADLOCK FALSE
