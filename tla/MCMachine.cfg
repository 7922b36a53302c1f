SPECIFICATION MachineSpec
CONSTANTS
  Size = 2
  Width = 2
  Boot = 1
  Rom <- RomImage
  Basic <- BasicImage
  Kit = TRUE
  SlowCpu = TRUE
  Levers = {"RUN", "STOP"}
  Commands = {"EXAMINE", "EXAMINE_NEXT", "DEPOSIT", "DEPOSIT_NEXT", "SINGLE_STEP", "DISASSEMBLE", "TRACE", "RESET", "LOAD_ALTAIR_BASIC"}
  TraceLength = 2
  MaxPresses = 1
  None = None
CHECK_DEADLOCK FALSE
INVARIANTS
  ProgramEntered
  PressOnce
  SignalNotMissed
PROPERTIES
  MainStarts
