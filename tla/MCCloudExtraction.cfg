\* Two runs, two chunks of two pages; the provider is called twice for each.
SPECIFICATION FairSpec
CONSTANTS
  Runs = {r1, r2}
  Chunks = 2
  Pages = 2
  MaxRetries = 2
  StaleCalls = 6
  Deployments = {TRUE, FALSE}
  None = None
  MaxTriggers = 3
  MaxFaults = 1
INVARIANTS
  NothingSkipped
  OneRun
PROPERTY
  Ends
CHECK_DEADLOCK FALSE
