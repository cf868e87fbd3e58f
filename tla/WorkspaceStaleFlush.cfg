SPECIFICATION Spec
CONSTANTS
  Workspaces = {wa, wb}
  Sessions = {s1}
  Sizes <- MCSizes
  BatchBytes = 2
  MaxFrames = 2
  MaxCaptured = 2
  MaxAccepted = 3
  MaxLarge = 1
  MaxSwitches = 1
  MaxBarriers = 1
  MaxCalls = 4
INVARIANTS FailureIsOwn
CHECK_DEADLOCK FALSE
