\* Purges under running validators.
SPECIFICATION Spec
CONSTANTS
  p1 = p1  p2 = p2  d1 = d1  d2 = d2  k1 = k1  a1 = a1
  t1 = t1  t2 = t2  x1 = x1  x2 = x2
  None = None
  Process <- TwoProcesses
  Decision <- OneDecision
  KeyOf <- SameKey
  Approval <- OneApproval
  Token <- TwoTokens
  Execution <- TwoExecutions
  TokenTTL = 1
  ApprovalTTL = 2
  DecisionAge = 0
  Purging = TRUE
  MaxTime = 2
  MaxFaults = 0
SYMMETRY Symmetry
INVARIANTS
  OncePerLife
CHECK_DEADLOCK FALSE
