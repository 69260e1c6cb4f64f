\* Two streams share the batch.
SPECIFICATION Spec
CONSTANTS
  h1 = h1
  h2 = h2
  MaxId = 2
  Hids = {h1, h2}
  None = None
  MaxPayload = 2
  FdCap = 1
  MaxBytes = 1
  MaxClients = 0
  MaxCnxn = 1
SYMMETRY Symmetry
CHECK_DEADLOCK FALSE
INVARIANTS
  NothingAfterClose
