SPECIFICATION SafeSpec
CONSTANTS
  Procs = {p1, p2, p3}
  Blocks = {b1, b2, b3, b4, b5, b6}
  Values = {0}
  NotCached = NotCached
  MAXOPBLOCKS = 2
  LOGSIZE = 6
  size = 6
  OpBound = 2
INVARIANTS NoPanic
SYMMETRY Symmetry
