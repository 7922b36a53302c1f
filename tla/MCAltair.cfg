SPECIFICATION MCSpec
CONSTANTS
  Cells <- MCCells
  Images <- AllImages
  Sense = 90
  Devices = {0, 1}
  Keys = {13, 65, 66}
  MaxTyped = 3
  Second = 300
  Steps = {130, 250}
  MaxNow = 130
  Mark = 50
INVARIANTS
  ProgramsRight
PROPERTIES
  Halts
  InstructionsRight
  DecimalsRight
  TimersExact
