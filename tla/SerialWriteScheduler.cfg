SPECIFICATION FairSpec
CONSTANTS
  MaxTickets = 3
  PayloadLens <- MCPayloadLens
  Waiters = {w1}
  MaxOperations = 2
  MaxQueuedBytes = 4
  ChunkBytes = 2
INVARIANTS Accounting WireInOrder HonestResults
PROPERTIES ShutdownSettlesAll EveryWriteSettles
CHECK_DEADLOCK FALSE
