\* One process at a time, killed or losing power anywhere.
SPECIFICATION Spec
CONSTANTS
  p1 = p1  p2 = p2  d1 = d1  d2 = d2  d3 = d3  v1 = v1  v2 = v2  v3 = v3
  drafter = drafter  backup = backup  cloud = cloud
  Process = {p1, p2}
  Device = {d1, d2, d3}
  VaultKey = {v1, v2, v3}
  Provider = {drafter, backup, cloud}
  Local = {drafter, backup}
  DraftChain <- MCDraftChain
  CheckChain <- MCCheckChain
  Kinds = {"request", "draft", "demo", "init", "integrity", "modelcheck"}
  None = None  Broken = Broken  Empty = Empty
  MaxOperations = 3
  MaxFaults = 1
  MaxOverlapping = 2
  OverlapKinds = {"request", "demo", "init"}
SYMMETRY Symmetry
INVARIANTS
  DirectoryOpens
  ListedIsStored
  EvidenceFirst
  AcknowledgedStaysAlone
  IdentityIsWhole
  DisclosureNamesWhoSaw
  GivesUpLast
CHECK_DEADLOCK FALSE
