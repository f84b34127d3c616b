\* Two workers, two attempts, a fault, an edit: crashes, slow workers, lost locks.
SPECIFICATION Spec
CONSTANTS
  Users = {u1}
  Muted = {}
  Flyers = {f1}
  Workers = {w1, w2}
  None = None
  LastDay = 1
  BatchSize = 2
  MaxAttempts = 2
  MaxFaults = 1
  MaxEdits = 1
SYMMETRY Symmetry
INVARIANTS
  TypeOK
  AtMostOnePush
  PlanningExclusive
  NoFlyerAnnouncedTwice
  SupersededReleasesEvents
