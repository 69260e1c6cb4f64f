\* A key file of one line of up to seven characters, two hosts, two framework
\* connections.
SPECIFICATION Spec
CONSTANTS
  t1 = t1
  t2 = t2
  c1 = c1
  c2 = c2
  Transports = {t1, t2}
  Conns = {c1, c2}
  None = None
  KeySize = 1
  GoodByte = 88
  Chars = {0, 22, 64, 65, 66}
  MaxLine = 7
CHECK_DEADLOCK FALSE
INVARIANTS
  TypeOK
  ApprovedOnly
  DecodesBase64
