\* One stream that the host opens, with data both ways, or one that a client
\* of the smart-socket port asks for.
SPECIFICATION Spec
CONSTANTS
  h1 = h1
  h2 = h2
  MaxId = 1
  Hids = {h1}
  None = None
  MaxPayload = 2
  FdCap = 1
  MaxBytes = 3
  MaxClients = 1
  MaxCnxn = 2
CHECK_DEADLOCK FALSE
INVARIANTS
  WatchInStep
  OneCredit
  Delivered
  NoTruncation
  NoOrphans
  DrainedBeforeGone
  ClientToldOnce
