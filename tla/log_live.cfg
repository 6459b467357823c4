SPECIFICATION Spec
CONSTANTS
  Procs = {p1, p2, p3}
  Blocks = {b1, b2, b3}
  Values = {0}
  NotCached = NotCached
  MAXOPBLOCKS = 4
  LOGSIZE = 4
  size = 4
  OpBound = 2
INVARIANTS NoPanic
PROPERTIES SleepersWoken
