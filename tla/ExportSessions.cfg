SPECIFICATION Spec
CONSTANTS
  e1 = e1
  e2 = e2
  t1 = t1
  t2 = t2
  Exports = {e1, e2}
  Unfiltered = {e2}
  Targets = {t1, t2}
  Choices <- MCChoices
  Capacities = {1, 2}
  Batches = 2
  MaxTroubles = 2
INVARIANTS TargetIsWhole OutcomeIsHonest NothingLeftBehind NobodyIsStuck
CHECK_DEADLOCK FALSE
