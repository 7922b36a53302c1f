SPECIFICATION FairSpec
CONSTANTS
  ChunkSize = 2
  MaxFile = 5
  MaxBlock = 3
  MaxTransfers = 3
CHECK_DEADLOCK FALSE
INVARIANTS
  NobodyWaitsInVain
PROPERTIES
  Implements
  TransferEnds
