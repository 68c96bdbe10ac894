SPECIFICATION FairSpec
CONSTANTS
  BackoffCount = 2
  MaxSessions = 1
  MaxCommands = 2
  MaxLines = 0
  MaxPushes = 0
  MaxErrors = 0
PROPERTY
  QueuedCommandRuns
