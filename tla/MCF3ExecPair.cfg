SPECIFICATION Spec
CONSTANTS
  a1 = a1
  a2 = a2
  a3 = a3
  b1 = b1
  NoOwner = NoOwner
  LeaseTicks = 1
  ClaimTicks = 1
  EvidenceTicks = 1
  MaxAttempts = 1
  AttemptLimit = 1
  FinalReadAtDeadline = FALSE
  MaxCrashes = 0
  MaxFaults = 0
  MaxGeneration = 3
  LastAcquisition = 3
  PromptRenewal = FALSE
  Key <- MCKey
  Rank <- MCRank
  Plan <- MCPlan
  Owner <- PairRuns
  Task <- PairTask
  TaskOf <- PairTaskOf
  PlanOf <- PairPlanOf
  Requests <- PairRequests
  HoldKeys <- PairHoldKeys
  Verdicts <- AllVerdicts
  CrashAt <- EveryStep
  PromptAt <- Synchronous
SYMMETRY TwoAlike
INVARIANTS
  OneEffectPerKey
CHECK_DEADLOCK FALSE
