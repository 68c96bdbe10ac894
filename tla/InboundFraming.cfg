SPECIFICATION Spec
CONSTANTS
  InboundCap = 4
  LineCap = 2
  MaxLineLen = 9
  MaxLines = 3
  MaxSessions = 2
INVARIANTS
  TypeOK
  LinesAsExpected
  NoLineLost
PROPERTIES
  LinesArrive
CHECK_DEADLOCK FALSE
