SPECIFICATION Spec
CONSTANTS
  Operations = 2
  ReadBackOps = {1, 2}
  MaxApplies = 1
  MaxAborts = 1
  MaxFaults = 0
  MaxCrashes = 0
PROPERTY
  ApprovalConsumedOnce
