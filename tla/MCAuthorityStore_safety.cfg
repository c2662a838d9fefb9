\* Three claims of one id, one purge, kills and power losses.
SPECIFICATION Spec
CONSTANTS
  c1 = c1  c2 = c2  c3 = c3  k1 = k1  f1 = f1  f2 = f2  q1 = q1
  None = None
  Call <- ThreeCalls
  Id <- OneId
  Fingerprint <- TwoFingerprints
  Purger <- OnePurger
  MaxTime = 1
  MaxFailures = 2
  SyncMayFail = FALSE
SYMMETRY Symmetry
INVARIANTS
  LiveClaimStands
  RecordsAreWhole
  SomeoneWins
PROPERTIES
  KeepsPromise
CHECK_DEADLOCK FALSE
