SPECIFICATION Spec
CONSTANTS
  p1 = p1
  p2 = p2
  p3 = p3
  Processes = {p1, p2, p3}
  Keys = {k1}
  Size <- MCSize
  NoEntry = NoEntry
  DiskMayFill = TRUE
SYMMETRY Symmetric
INVARIANT
  TypeOK
PROPERTIES
  FilesKeepThePromise
  UndisturbedPutsAreReadBack
