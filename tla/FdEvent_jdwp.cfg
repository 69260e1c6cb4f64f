\* One of the two fdevents belongs to a JDWP process.
SPECIFICATION Spec
CONSTANTS
  f1 = f1
  f2 = f2
  d1 = d1
  d2 = d2
  Fdes = {f1, f2}
  Fds = {d1, d2}
  None = None
  DontCloseFdes = {f1}
  FileFdes = {}
  AuthFdes = {}
  OutsideClose = FALSE
  MaxOps = 4
CHECK_DEADLOCK FALSE
INVARIANTS
  NeverFatal
