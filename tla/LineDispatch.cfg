SPECIFICATION Spec
CONSTANTS
  Char <- MCChar
  Lines <- MCLines
  Replies <- MCReplies
  Envelopes <- MCEnvelopes
  BufferSize = 3
  LineCap = 24
  HostSize = 2
  IntRange = 16
  PortMax = 9
\* A line is dispatched once: the run ends there.
CHECK_DEADLOCK FALSE
INVARIANTS
  TypeOK
  LineAsMeant
  TornLineLosesItsEnd
  PendingKept
  EnvelopeAsMeant
