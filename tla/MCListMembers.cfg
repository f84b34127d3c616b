\* Two users, lists and invites, four requests; one server, or two during a deployment.
\* Two streams and four changes of lists; four purchases on two days, pages of one.
SPECIFICATION PartsSpec
CONSTANTS
  Users = {u1, u2}
  Lists = {l1, l2}
  Invites = {k1, k2}
  Fleets = {{s1}, {s1, s2}}
  None = None
  MaxRequests = 4
  MaxFaults = 1
  SharedLists = {n1, n2}
  Streams = {c1, c2}
  ListOf <- ListOfStream
  MaxChanges = 4
  MaxStopped = 1
  Times = {1, 2}
  Ids = {1, 2, 3, 4}
  Limit = 1
  Nil = Nil
SYMMETRY Symmetry
INVARIANTS
  NoEventLost
  PagesCoverHistory
PROPERTIES
  OwnerStays
  ClosedInviteStays
CHECK_DEADLOCK FALSE
