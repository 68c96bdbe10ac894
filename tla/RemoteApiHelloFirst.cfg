SPECIFICATION FairSpec
CONSTANTS
  BackoffCount = 2
  MaxSessions = 1
  MaxCommands = 2
  MaxLines = 0
  MaxPushes = 1
  MaxErrors = 1
INVARIANT
  HelloFirst
