\* Both kinds of handle: three transports in succession, one failed attempt to
\* open.
SPECIFICATION FairSpec
CONSTANTS
  MaxTransports = 3
  MaxPackets = 2
  MaxFails = 1
CHECK_DEADLOCK FALSE
INVARIANTS
  HandleInStep
  OwnEndpoints
  OneSession
PROPERTIES
  Reopens
