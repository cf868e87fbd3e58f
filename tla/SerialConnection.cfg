SPECIFICATION FairSpec
CONSTANTS
  MaxGenerations = 3
  MaxStops = 2
  MaxCalls = 4
  MaxReconnectAttempts = 1
INVARIANTS ShownIsTrue NothingStranded OpenedIsCurrent
PROPERTIES StopIsHonest KeepsOwnership StopEnds
CHECK_DEADLOCK FALSE
