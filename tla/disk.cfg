SPECIFICATION DiskSpec
CONSTANTS
  Procs = {p1, p2}
  Blocks = {k1, k2, k3}
  NBUF = 2
  LogCap = 1
  Orders = {"log", "bwrite"}
  MaxWrites = 1
  Clients = {c1, c2, c3}
  Sectors = {s1, s2, s3}
  Values = {0, 1}
  NUM = 7
  MOD = 7
SYMMETRY Symmetry
VIEW LiveMemory
INVARIANTS OneBufferPerBlock NoUpdateLost ChainsPartition TransferRight
