\* Two rows, markets, uploads and documents that look the same, an image, a fault.
\* Two users, two devices, two deliveries; one account.
SPECIFICATION PartsSpec
CONSTANTS
  Flyers = {f1, f2}
  Markets = {m1, m2}
  Paths = {p1, p2}
  Contents = {h1, h2}
  TooLarge = {}
  Alike <- MCAlike
  Validity <- MCValidity
  Crops = {x1}
  Servers = 1
  MaxCompletions = 1
  CopiesDeleted = FALSE
  MaxRenewals = 1
  MaxFaults = 1
  None = None
  Endpoints = {e1, e2}
  Native = {e2}
  Handlers = {r1}
  Users = {m1, m2}
  Deliveries = {p1, p2}
  Reuse = 2
  Lifetime = 3
  People = {a1}
  Formats = {png}
  MaxVersion = 4
  TimesAreText = FALSE
SYMMETRY Symmetry
CONSTRAINT FilesBound
INVARIANTS
  FileKept
  OneFlyerPerMarket
  NothingUploadedTwice
PROPERTY
  DeliveriesDropGoneOnly
CHECK_DEADLOCK FALSE
