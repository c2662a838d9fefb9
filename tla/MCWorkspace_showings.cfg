\* One profile and one drafting request, one interruption: a showing is not logged.
SPECIFICATION Spec
CONSTANTS
  s1 = s1  c1 = c1  c2 = c2  d1 = d1  d2 = d2
  a1 = a1  a2 = a2  v1 = v1  v2 = v2
  None = None
  Server <- OneServer
  Customer <- OneCustomer
  Document <- OneDocument
  Approval <- OneApproval
  Venture <- OneVenture
  MaxCustomers = 1
  MaxDocuments = 1
  MaxOptional = 2
  MaxInterrupts = 1
INVARIANTS
  EveryShowingIsLogged
