\* Progress of one stream that the host opens.
SPECIFICATION FairSpec
CONSTANTS
  h1 = h1
  h2 = h2
  MaxId = 1
  Hids = {h1}
  None = None
  MaxPayload = 2
  FdCap = 1
  MaxBytes = 2
  MaxClients = 0
  MaxCnxn = 1
CHECK_DEADLOCK FALSE
PROPERTIES
  StreamMoves
  CloseAgreed
