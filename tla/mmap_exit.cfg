SPECIFICATION Spec
CONSTANTS
  Systems = {"mmap"}
  Habits = {{"fork"}}
  Procs = {p1, p2}
  First = p1
  Files = {f1}
  VMASIZE = 2
  W = 3
  MaxPages = 3
  FamilyPages = 1
  FilePages = 2
  MaxOff = 1
  VmProcs = {1, 2}
  PGSIZE = 8
  FAN = 3
  ALIGN = 2
  MAXARG = 3
  KernelEnd = 2
  PHYSTOP = 196
  Vectors = {0, 3}
  Targets = {7}
  VmPages = 4
  Word = 65536
  Sizes = {2, 3, 6}
  MINCORE = 5
  Limit = 15
  Foreign = 1
CHECK_DEADLOCK FALSE
INVARIANTS KernelSurvives
