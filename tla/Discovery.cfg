SPECIFICATION Spec
CONSTANTS
  Hosts = 3
  PcHost = 2
  MaxPolls = 3
  MaxMounts = 2
  MaxEntries = 2
INVARIANTS
  TypeOK
  NoHandleLeft
  NoSocketLeft
  SeedWhole
  TablesWhole
  OneBufferPerMount
PROPERTIES
  ResolveReturns
\* The process stops where the hook dereferences NULL.
CHECK_DEADLOCK FALSE
