SPECIFICATION KernelSpec
CONSTANTS
  CPUs = {c1, c2}
  NPROC = 3
  MaxPid = 4
  Victims = {0, 2, 3, 4}
  Harts = {c1, c2}
  Threads = {t1, t2}
  Nobody = Nobody
  Tasks = {p1, p2}
  First = p1
  NFILE = 2
  NOFILE = 2
  Inodes = {i1}
  Pipes = {q1}
  MaxOff = 2
  MaxWrite = 2
VIEW View
SYMMETRY Symmetry
INVARIANTS StacksSafe ZombiesCollected RegistersKept TrapsSound CountsExact StreamOnce
