SPECIFICATION SafeSpec
CONSTANTS
  Procs = {p1, p2}
  Blocks = {b1, b2, b3}
  Values = {0, 1}
  NotCached = NotCached
  MAXOPBLOCKS = 4
  LOGSIZE = 8
  size = 8
  OpBound = 2
INVARIANTS TypeOK CommitAlone QuiescentDurable DirtyPinned
PROPERTIES CrashAtomic
SYMMETRY Symmetry
