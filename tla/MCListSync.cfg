\* Two streams of two lists that share the channel.
SPECIFICATION SyncFairSpec
CONSTANTS
  l1 = l1
  l2 = l2
  c1 = c1
  c2 = c2
  SharedLists = {l1, l2}
  Streams = {c1, c2}
  ListOf <- MCListOf
  MaxChanges = 3
  MaxStopped = 0
PROPERTY
  SeenInRealTime
CHECK_DEADLOCK FALSE
