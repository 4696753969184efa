SPECIFICATION Spec
CONSTANTS
  a1 = a1
  a2 = a2
  a3 = a3
  b1 = b1
  NoOwner = NoOwner
  LeaseTicks = 2
  ClaimTicks = 1
  EvidenceTicks = 2
  MaxAttempts = 1
  AttemptLimit = 2
  FinalReadAtDeadline = FALSE
  MaxCrashes = 1
  MaxFaults = 0
  MaxGeneration = 3
  LastAcquisition = 3
  PromptRenewal = TRUE
  Key <- MCKey
  Rank <- MCRank
  Plan <- MCPlan
  Owner <- ThreeRuns
  Task <- SoleTask
  TaskOf <- ThreeTaskOf
  PlanOf <- SolePlanOf
  Requests <- SoleRequests
  HoldKeys <- SoleHoldKeys
  Verdicts <- AllVerdicts
  CrashAt <- EveryStep
  PromptAt <- Synchronous
SYMMETRY ThreeAlike
INVARIANTS
  UnresolvedKeepsLocks
  SendUnderLock
PROPERTIES
  TerminalIsFinal
CHECK_DEADLOCK FALSE
