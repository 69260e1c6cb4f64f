\* Three streams are opened while a transport is taken down.
SPECIFICATION Spec
CONSTANTS
  a = a
  b = b
  c = c
  Nums = {3, 4, 5, 6}
  Streams = {a, b, c}
  Nobody = Nobody
CHECK_DEADLOCK FALSE
INVARIANTS
  InSync
