\* Two streams of any kind, which may use one descriptor number in succession.
SPECIFICATION FairSpec
CONSTANTS
  MaxStreams = 2
  Nums = {5, 6}
  Payload = 2
  Buf = 2
  Sizes = {2, 3}
  Cap = 2
  MaxOut = 2
CHECK_DEADLOCK FALSE
INVARIANTS
  TypeOK
PROPERTIES
  ClosesOnlyEnded
  ShellEnds
  NoZombies
  FrameEnds
