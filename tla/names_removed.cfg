SPECIFICATION FilesSpec
CONSTANTS
  Systems = {"names"}
  NDIRECT = 1
  NINDIRECT = 2
  MaxN = 2
  DeepSize = 10
  WideSize = 5
  WideLen = 2
  Procs = {u1, u2, u3}
  Names = {n1, n2}
  Inums = {1, 2}
  NINODE = 3
  Walkers = {p1, p2}
  Dinodes = {1, 2, 3}
  ROOTINO = 1
  MaxEntries = 3
  Careful = FALSE
SYMMETRY Symmetry
INVARIANTS NamesHaveInodes
