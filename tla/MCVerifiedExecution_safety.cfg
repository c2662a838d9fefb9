\* Two processes, two decisions for one idempotency key, a kill or a failed write.
SPECIFICATION Spec
CONSTANTS
  p1 = p1  p2 = p2  d1 = d1  d2 = d2  k1 = k1  a1 = a1
  t1 = t1  t2 = t2  x1 = x1  x2 = x2
  None = None
  Process <- TwoProcesses
  Decision <- TwoDecisions
  KeyOf <- SameKey
  Approval <- OneApproval
  Token <- TwoTokens
  Execution <- TwoExecutions
  TokenTTL = 1
  ApprovalTTL = 2
  DecisionAge = 0
  Purging = FALSE
  MaxTime = 1
  MaxFaults = 1
SYMMETRY DecisionSymmetry
INVARIANTS
  OneUse
  PolicyIsObeyed
  JournalIsHonest
CHECK_DEADLOCK FALSE
