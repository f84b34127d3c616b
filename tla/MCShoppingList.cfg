\* Two users, two items added from one offer; three requests, two at a time.
SPECIFICATION Spec
CONSTANTS
  Users = {u1, u2}
  far = u2
  Items = {i1, i2}
  Offers = {o1}
  PinOf <- MCPinOf
  Sees <- MCSees
  Requests = {r1, r2}
  Deployments = {TRUE, FALSE}
  None = None
  MaxRequests = 3
  MaxFaults = 1
SYMMETRY Symmetry
INVARIANTS
  TypeOK
  AddedOnce
  BoughtOnce
  AnsweredPurchaseKept
PROPERTIES
  PatchesAreLocal
  PurchaseNotOverwritten
CHECK_DEADLOCK FALSE
