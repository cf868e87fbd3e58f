SPECIFICATION FairSpec
CONSTANTS
  Workspaces = {wa, wb}
  Library = {wa, wb}
  MaxAttempts = 3
  MaxDeletes = 1
  MaxCancels = 1
INVARIANTS SavesGoHome SettledConsistently
PROPERTIES AttemptsEnd
CHECK_DEADLOCK FALSE
