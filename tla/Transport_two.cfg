\* Two connections, one local socket each at most: reconnection while the old
\* transport is being torn down.
SPECIFICATION Spec
CONSTANTS
  t1 = t1
  t2 = t2
  Transports = {t1, t2}
  Sockets = {1}
  NoTransport = NoTransport
  MaxHost = 2
  MaxWrites = 0
SYMMETRY Symmetry
CHECK_DEADLOCK FALSE
INVARIANTS
  TypeOK
  NoUseAfterFree
  KickedOnce
  QuietWhenClosed
  GateOpens
  StreamsNeedSession
