\* Three processes, two sources that do not fit together; no symmetry, for liveness.
SPECIFICATION FairSpec
CONSTANTS
  Procs = {p1, p2, p3}
  k1 = k1
  k2 = k2
  Keys = {k1, k2}
  Size <- SmallAndLarge
  MaxBytes = 2
  None = None
  MaxLeases = 3
  MaxFaults = 2
INVARIANTS
  LeaseRetainsFile
  ActivePartKept
  UnusedFitBudget
PROPERTY
  LeasesEnd
CHECK_DEADLOCK FALSE
