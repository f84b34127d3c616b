\* Two flyers over two days without faults, or one flyer, a fault and two attempts.
SPECIFICATION LiveSpec
CONSTANTS
  Users = {u1}
  Muted = {}
  Flyers = {f1, f2}
  Workers = {w1}
  None = None
  LastDay = 1
  BatchSize = 1
  MaxAttempts = 2
  MaxFaults = 1
  MaxEdits = 0
PROPERTIES
  ImplementsAnnouncements
  EventuallyAnnounced
  Settles
