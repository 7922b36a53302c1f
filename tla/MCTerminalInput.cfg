SPECIFICATION Spec
CONSTANTS
  Clients = {a, b}
  QueueSize = 2
  LineSize = 3
  MaxText = 2
  MaxTyped = 4
  SlowCpu = TRUE
  None = None
CHECK_DEADLOCK FALSE
INVARIANTS
  QueueIsFifo
  ReadInOrder
  LineAsTyped
