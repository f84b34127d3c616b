\* One server, two markets, two offers; four requests of which one stops half-way.
SPECIFICATION Spec
CONSTANTS
  Servers = {p1}
  Markets = {m1, m2}
  Offers = {o1, o2}
  Texts = {t1, t2}
  Dates = {d1, d2}
  None = None
  MaxCopies = 4
  MaxRequests = 4
  MaxFaults = 1
SYMMETRY Symmetry
INVARIANTS
  TypeOK
  OneCopyPerMarket
  OnlyConfirmedIsPublic
  PublicationRepairs
  EveryCopyIsAnnounced
CHECK_DEADLOCK FALSE
