SPECIFICATION Spec
CONSTANTS
  Workspaces = {wa, wb}
  Library = {wa, wb}
  MaxAttempts = 4
  MaxDeletes = 0
  MaxCancels = 0
INVARIANTS QuietBehindBarrier
CHECK_DEADLOCK FALSE
