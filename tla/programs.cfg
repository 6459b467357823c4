SPECIFICATION Spec
CONSTANTS
  Workers = {w1, w2}
  Sockets = {c1, c2, c3}
  NoFd = NoFd
  TargetUp = FALSE
  Spurious = TRUE
  MaxRequests = 5
  ProxyRequests = 2
  ROW = 4
  COLUMN = 5
  LOG_LENGTH = 2
  Keys = {"w", "s", "a", "d", "q", "other", "none"}
  NPROC = 7
  JobsNPROC = 5
  NOFILE = 5
  Pipes = {1, 2, 3}
  PIPESIZE = 1
  MAXARGS = 3
  MaxLine = 5
CHECK_DEADLOCK FALSE
INVARIANTS OneOwner InStep ParsesGrammar Wired
PROPERTIES FilesHandled GameGoesOn PromptReturns
