\* A restart and a purge while an approval is still valid.
SPECIFICATION Spec
CONSTANTS
  p1 = p1  p2 = p2  d1 = d1  d2 = d2  k1 = k1  a1 = a1
  t1 = t1  t2 = t2  x1 = x1  x2 = x2
  None = None
  Process <- OneProcess
  Decision <- OneDecision
  KeyOf <- SameKey
  Approval <- OneApproval
  Token <- TwoTokens
  Execution <- TwoExecutions
  TokenTTL = 1
  ApprovalTTL = 2
  DecisionAge = 0
  Purging = TRUE
  MaxTime = 1
  MaxFaults = 1
SYMMETRY Symmetry
INVARIANTS
  PurgeNeverRevives
CHECK_DEADLOCK FALSE
