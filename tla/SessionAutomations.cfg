SPECIFICATION SessionSpec
CONSTANTS
  Automations <- MCAutomations
  MaxGenerations = 2
  MaxManualWrites = 1
INVARIANTS AutomationsResume SilentUnderLease LoopKeepsTicking
CHECK_DEADLOCK FALSE
