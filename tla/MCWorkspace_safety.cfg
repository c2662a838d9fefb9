\* One server, the whole life of a document, two interruptions, and a founder who
\* repeats an approval that did not go through.
SPECIFICATION FairSpec
CONSTANTS
  s1 = s1  c1 = c1  c2 = c2  d1 = d1  d2 = d2
  a1 = a1  a2 = a2  v1 = v1  v2 = v2
  None = None
  Server <- OneServer
  Customer <- OneCustomer
  Document <- OneDocument
  Approval <- OneApproval
  Venture <- TwoVentures
  MaxCustomers = 1
  MaxDocuments = 1
  MaxOptional = 2
  MaxInterrupts = 2
INVARIANTS
  AuditNeverCritical
  ReceiptMatchesOutbox
  EvidenceNamesTheFile
  CutOffMoveIsReported
  UninterruptedIsClean
  ShowingsAreLogged
PROPERTIES
  NoReplayAfterReceipt
  ChainIsAppendOnly
  FollowsLifecycle
  PendingIsDecided
