SPECIFICATION Spec
CONSTANTS
  compiled = compiled
  other = other
  cap = cap
  r1 = r1
  None = None
  Capability = {cap}
  Version = {compiled, other}
  Compiled = {compiled}
  Signed = {cap}
  Needs = {cap}
  Request = {}
  RegistryEnabled = TRUE
  Confirmations = 2
  FlapConfirmations = 3
  MaxIssued = 2
  MaxCommits = 2
  MaxSession = 8
  MaxGeneration = 8
  MaxLease = 2
  MaxConfig = 1
  MaxMoves = 3
  MaxCalls = 1
PROPERTIES
  NewVersionPassesGate
