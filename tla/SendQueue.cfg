\* Messages of one, two and three bytes: a message that cannot be cut, one that
\* can be cut in one place and one that can be cut twice.
SPECIFICATION Spec
CONSTANTS
  MaxLen = 3
  MaxMessages = 5
  MaxSessions = 3
INVARIANTS
  TypeOK
  NoSplice
  OnlyHeadIsCut
PROPERTIES
  ImplementsStream
  QueueDrains
