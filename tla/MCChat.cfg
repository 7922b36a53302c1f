SPECIFICATION SidesSpec
CONSTANTS
  ChunkSize = 3
  ReaderSize = 3
  DeltaSizes = {1, 3}
  MaxDeltas = 2
  MaxRequests = 2
  NoWorker = NoWorker
  MaxMsg = 3
  TextSizes = {1, 4}
  PromptSize = 2
  TailSize = 1
  RequestSize = 9
  MaxSaid = 5
CHECK_DEADLOCK FALSE
INVARIANTS
  CallbackWaitsForReader
  RecentShown
PROPERTIES
  AnswerCopied
  StreamEnds
