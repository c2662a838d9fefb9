SPECIFICATION Spec
CONSTANTS
  agent = agent  intern = intern
  Principal = {agent, intern}
  Audience = {"host"}
  Host = "host"
  Issuer = {"host"}
  PublicKey = {ka, kp}
  AuthorityKey = ka
  ApproverKey = kp
  None = None
  Key = {"k1"}
  Invocation <- MCInvocation
  Request <- MCRequest
  CloudTool = {"cloud.mail"}
  Escaping = {"../x"}
  MaxPolicyAge = 1
  MaxTtl = 2
  MaxApprovalTtl = 3
  MaxTime = 2
  TokenTtls = {2}
  ApprovalTtls = {2, 3}
  MaxTokens = 2
  MaxDecisions = 2
  MaxApprovals = 1
INVARIANTS GrantIsExact OneUse
PROPERTIES RevocationStops
CHECK_DEADLOCK FALSE
