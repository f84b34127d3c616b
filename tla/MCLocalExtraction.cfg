\* Two workers, two configurations, two contents of each chunk, two manual edits.
SPECIFICATION FairSpec
CONSTANTS
  Workers = {w1, w2}
  c1 = c1
  c2 = c2
  Configs = {c1, c2}
  MaxChunks = 3
  Chunks <- MCChunks
  x1 = x1
  x2 = x2
  Payloads = {x1, x2}
  o1 = o1
  o2 = o2
  o3 = o3
  Offers = {o1, o2, o3}
  Drafts <- MCDrafts
  None = None
  MaxEdits = 2
INVARIANTS
  TypeOK
  DraftsMatchReceipts
PROPERTIES
  TakeoverWhenExpired
  ImplementsLog
  Completes
CHECK_DEADLOCK FALSE
