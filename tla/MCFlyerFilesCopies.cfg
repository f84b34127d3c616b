\* As MCFlyerFiles.cfg, and the deletion of published copies is asked for.
SPECIFICATION PartsSpec
CONSTANTS
  Flyers = {f1, f2}
  Markets = {m1, m2}
  Paths = {p1, p2}
  Contents = {h1, h2}
  TooLarge = {}
  Alike <- MCAlike
  Validity <- MCValidity
  Crops = {x1}
  Servers = 1
  MaxCompletions = 1
  CopiesDeleted = TRUE
  MaxRenewals = 1
  MaxFaults = 1
  None = None
  Endpoints = {e1, e2}
  Native = {e2}
  Handlers = {r1}
  Users = {m1, m2}
  Deliveries = {p1, p2}
  Reuse = 2
  Lifetime = 3
  People = {a1}
  Formats = {png}
  MaxVersion = 4
  TimesAreText = FALSE
SYMMETRY Symmetry
CONSTRAINT FilesBound
INVARIANT
  FileKept
CHECK_DEADLOCK FALSE
