SPECIFICATION Spec
CONSTANTS
  TotalPages = 31
  Reserved = {0}
  Procs = {p1, p2}
  Fan = 4
  DirectPage = 128
  LfbPage = 160
  BufferPage = 192
  KernelPages = {208}
  UserPages = {0, 4}
  MaxUnmaps = 1
SYMMETRY Symmetry
INVARIANT KernelShared
INVARIANT OneParent
PROPERTY IsFlat
CHECK_DEADLOCK FALSE
