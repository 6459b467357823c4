SPECIFICATION RingsSpec
CONSTANTS
  Procs = {p1, p2, p3}
  Byte = {a, b}
  Readers = {p1}
  Writers = {p2}
  Crowd = {p2, p3}
  PIPESIZE = 2
  MOD = 4
  MaxN = 2
  Users = {u1, u2}
  Plain = {"a"}
  INPUT_BUF_SIZE = 2
  Echoers = {u1, u2}
  UART_TX_BUF_SIZE = 1
  FIFO = 3
  Wraps = 2
CHECK_DEADLOCK FALSE
INVARIANTS NoUseAfterFree NoLostWakeup
PROPERTIES Fifo OperationsEnd 
