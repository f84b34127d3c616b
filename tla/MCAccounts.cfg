\* One user, one request at a time, and enough changes for a second use of a token.
SPECIFICATION AccountsSpec
CONSTANTS
  People = {a1}
  Formats = {png}
  MaxVersion = 4
  TimesAreText = FALSE
  Handlers = {r1}
  Servers = 1
  MaxFaults = 0
  None = None
INVARIANT
  RecoveryIsFresh
CHECK_DEADLOCK FALSE
