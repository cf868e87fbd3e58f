SPECIFICATION FairSpec
CONSTANTS
  Automations <- MCAutomations
  MaxGenerations = 2
  MaxManualWrites = 2
INVARIANTS OneOwner GateOpensClean
PROPERTIES TransactionsEnd
CHECK_DEADLOCK FALSE
