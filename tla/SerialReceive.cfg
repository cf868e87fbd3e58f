SPECIFICATION Spec
CONSTANTS
  MaxBytes = 3
  MaxChunks = 3
  DrainBytes = 3
  DrainChunks = 3
  MirrorBytes = 3
  MirrorChunks = 2
  DrainLimit = 2
  Sizes = {1, 2, 4}
  MaxSent = 5
  MaxConnections = 2
  MaxLeases = 1
INVARIANTS StreamAccounted BoundaryIsProven MirrorIntact NothingForgotten
CHECK_DEADLOCK FALSE
