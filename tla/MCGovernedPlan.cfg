SPECIFICATION Spec
CONSTANTS
  Operations = 2
  ReadBackOps = {1, 2}
  MaxApplies = 2
  MaxAborts = 1
  MaxFaults = 1
  MaxCrashes = 1
INVARIANTS
  TypeOK
  IntentIsWitnessed
  InOrder
  CancelledSendsNothing
  SucceededIsVerified
PROPERTIES
  TaskEndsOnce
  EndedSendsNothing
  TaskEnds
  SentEnds
