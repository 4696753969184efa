SPECIFICATION FairSpec
CONSTANTS
  p1 = p1  p2 = p2  t1 = t1  t2 = t2  c1 = c1  c2 = c2
  fan = fan  core = core
  Process = {p1, p2}  NoProcess = NoProcess  Lost = Lost
  Task = {t1, t2}  Owner = {t1, t2}  Plan = {t1, t2}  TaskOf <- MCTaskOf  PlanOf <- MCPlanOf
  Call = {c1, c2}  TaskFor <- MCTaskFor
  Key = {fan, core}  Rank <- MCRank  EntityKey <- MCEntityKey  CoreKey = core
  Before <- MCBefore
  LeaseTicks = 1  MaxGeneration = 4
  MaxActive = 1  MaxRecords = 2  SweepLimit = 1  MaxFaults = 1  MaxRotations = 1
INVARIANTS
  TypeOK
  WithinCapacity
  EntityReusedAfterDecision
  ToldOnce
  AuditFlagIsTrue
PROPERTIES
  ReleaseSpec
  DecisionCompletes
  DeclarationsEnd
CHECK_DEADLOCK FALSE
