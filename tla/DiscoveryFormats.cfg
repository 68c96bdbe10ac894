SPECIFICATION Spec
CONSTANTS
  Hosts = 3
  PcHost = 2
  MaxPolls = 3
  MaxMounts = 1
  MaxEntries = 2
INVARIANTS
  FormatsRead
