\* An auth_fde and the stream of a "dev:" service, while main also closes a
\* number that may belong to either; four calls between two polls.
SPECIFICATION Spec
CONSTANTS
  f1 = f1
  f2 = f2
  d1 = d1
  d2 = d2
  Fdes = {f1, f2}
  Fds = {d1, d2}
  None = None
  DontCloseFdes = {}
  FileFdes = {f2}
  AuthFdes = {f1}
  OutsideClose = TRUE
  MaxOps = 4
SYMMETRY DescriptorSymmetry
CHECK_DEADLOCK FALSE
INVARIANTS
  LoopInStep
  FatalOnlyByCallers
PROPERTIES
  CallsAreLive
