SPECIFICATION Spec
CONSTANTS
  BackoffCount = 2
  MaxSessions = 2
  MaxCommands = 2
  MaxLines = 1
  MaxPushes = 2
  MaxErrors = 1
INVARIANTS
  TypeOK
  LockBeforeUse
  ConnectedHasSocket
  NoCommandAcrossRedial
  AtMostOnce
  RepliesOfThisConnection
  WorkerMessagesInOrder
  AtMostOneStale
