SPECIFICATION Spec
CONSTANTS
  good = good  other = other  s1 = s1  s2 = s2  v1x = v1x
  Component = {good, other}
  Asked = {good}
  MayBe <- MCMayBe
  Caller = {p1, p2}
  Sandbox = {s1, s2, v1x}
  Executor = {v1x}
  WithCache = {s1, s2}
  WithWorker = {s1, s2}
  Token = {t1, t2}
  Forged = {t2}
  V1Request <- MCRequest
  CloudTool = {}
  Escaping = {}
  Ttls = {0, 1}
  UseLimits = {0, 1, 2}
  MaxTime = 1
  Deployments <- MCDeployments
  Deadline <- MCDeadline
  MaxStall <- MCStall
  MaxCalls = 3
  MaxFaults = 1
  None = None  Broken = Broken  Empty = Empty
INVARIANTS RunsWhatWasAsked OneGuest GuestIsBounded StartsWithinUses
PROPERTIES EveryCallReturns
CHECK_DEADLOCK FALSE
