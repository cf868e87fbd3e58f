SPECIFICATION Spec
CONSTANTS
  Enables = {e1, e2}
  NoLog = NoLog
  Stops = {disable, prepare}
  Strict = {prepare}
  MaxFrames = 3
  MaxCalls = 3
  SizeOf <- MCSizeOf
  MaxBatchFrames = 2
  MaxBatchBytes = 2
  MaxQueuedEntries = 2
  MaxQueuedBytes = 3
  ImmediateBytes = 3
INVARIANTS NothingUnlogged ShutdownIsHonest TargetIsTrue
SYMMETRY MCSymmetry
CHECK_DEADLOCK FALSE
