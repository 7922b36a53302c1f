SPECIFICATION Spec
CONSTANTS
  Names = {"a", "b"}
  ChunkSize = 3
  CacheSize = 1
  Lengths = {3, 4}
  MaxVersion = 2
  MaxTransfers = 2
  MaxFaults = 2
CHECK_DEADLOCK FALSE
PROPERTIES
  Implements
  TransferEnds
