SPECIFICATION FairSpec
CONSTANTS
  compiled = compiled
  other = other
  cap = cap
  r1 = r1
  None = None
  Capability = {cap}
  Version = {compiled, other}
  Compiled = {compiled}
  Signed = {}
  Needs = {cap}
  Request = {r1}
  RegistryEnabled = TRUE
  Confirmations = 2
  FlapConfirmations = 3
  MaxIssued = 2
  MaxCommits = 2
  MaxSession = 8
  MaxGeneration = 8
  MaxLease = 2
  MaxConfig = 2
  MaxMoves = 2
  MaxCalls = 1
INVARIANTS
  TypeOK
  AdmissionAgrees
  GenerationHasItsObservation
  LeasesHaveOwners
PROPERTIES
  RestorationGated
  ObservedUnderWatch
  CallsUnderOnePlan
  AuthorityReturns
