\* Two commands and one other line are enough for every wait to happen on a
\* first and on a second connection, and behind a command that failed.
SPECIFICATION FairSpec
CONSTANTS
  BackoffCount = 2
  MaxSessions = 2
  MaxCommands = 2
  MaxLines = 1
  MaxPushes = 0
  MaxErrors = 1
PROPERTIES
  ClosedIsRedialled
  CommandTakenOrDropped
  ReplySentOrClosed
