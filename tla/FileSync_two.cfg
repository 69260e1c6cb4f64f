\* Two streams, two paths, two pushes; the file at p2 cannot be unlinked.
SPECIFICATION Spec
CONSTANTS
  s1 = s1
  s2 = s2
  p1 = p1
  p2 = p2
  Sessions = {s1, s2}
  Paths = {p1, p2}
  Pinned = {p2}
  None = None
  MaxPush = 2
  MaxChunks = 2
SYMMETRY Symmetry
INVARIANTS
  TypeOK
  OkayIsWhole
  NoPartialFile
  InStep
PROPERTIES
  PullIsWhole
  ListIsComplete
