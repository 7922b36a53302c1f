CONSTANTS
  Clients = {c1, c2}
  MaxClients = 2
  RingSize = 2
  MaxLength = 2
  MaxBytes = 2
  SlowCpu = TRUE
  NoClient = NoClient
  Cpu = Cpu
  Timer = Timer
SPECIFICATION Spec
CHECK_DEADLOCK FALSE
PROPERTIES
  CloseEndsOwnSession
