\* One connection with several packets, two streams and data.
SPECIFICATION FairSpec
CONSTANTS
  t1 = t1
  t2 = t2
  Transports = {t1}
  Sockets = {1, 2}
  NoTransport = NoTransport
  MaxHost = 3
  MaxWrites = 1
CHECK_DEADLOCK FALSE
PROPERTIES
  NothingAfterEnd
  LinkRefined
  LostIsFreed
