SPECIFICATION Spec
CONSTANTS
  Key <- MCKey
  Rank <- MCRank
  Owner <- MCOwner
  Task <- MCTask
  TaskOf <- MCTaskOf
  Plan <- MCPlan
  PlanOf <- MCPlanOf
  RequestLists <- MCRequestLists
  LeaseTicks = 1
  MaxGeneration = 4
INVARIANTS
  TypeOK
  HoldersCompatible
  GenerationsUnique
PROPERTIES
  Fencing
  ClosedKeys
  ServiceSpec
CHECK_DEADLOCK FALSE
