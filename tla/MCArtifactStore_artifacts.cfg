SPECIFICATION Spec
CONSTANTS
  p1 = p1  p2 = p2  c1 = c1  c2 = c2  k1 = k1  acme = acme  owner = owner
  Process = {p1, p2}
  Component = {c1, c2}
  Manifest <- MCManifest
  Publishable <- MCPublishable
  PublicKey = {k1}
  Issuer = {acme, owner}
  Owner = owner
  Damaged = Damaged
  None = None
  Span <- MCSpan
  MaxTime = 1
  MaxFaults = 1
INVARIANTS LoadedIsAdmitted RecordIsBacked AdmittedLoads
CHECK_DEADLOCK FALSE
SYMMETRY Symmetry
