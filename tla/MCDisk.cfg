SPECIFICATION DiskSpec
CONSTANTS
  Drives = {0, 1}
  Byte = {0, 1}
  ImageByte = {0}
  SectorSize = 2
  SectorsPerTrack = 2
  MaxTracks = 2
  Cloud = FALSE
  KeyStride = 4
  NoDrive = NoDrive
CHECK_DEADLOCK FALSE
INVARIANTS
  PointerInBuffer
PROPERTIES
  Implements
