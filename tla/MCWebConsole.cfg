CONSTANTS
  c1 = c1
  c2 = c2
  Clients <- TwoClients
  MaxClients = 2
  RingSize = 2
  MaxLength = 2
  MaxBytes = 4
  SlowCpu = TRUE
  NoClient = NoClient
  Cpu = Cpu
  Timer = Timer
SPECIFICATION ConsoleSpec
CHECK_DEADLOCK FALSE
INVARIANTS
  NothingLostWhileAllStay
  OrderPerFlusher
  NoDeadCurrent
PROPERTIES
  BufferedOutputIsSent
  SlotsAreFreed
