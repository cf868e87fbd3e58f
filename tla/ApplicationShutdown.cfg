SPECIFICATION FairSpec
CONSTANTS
  Participants <- MCParticipants
  Priority <- MCPriority
  Barriers <- MCBarriers
  MaxCloses = 2
  MaxRounds = 1
  MaxFaults = 1
INVARIANTS ExitIsEarned NoReplay
PROPERTIES DrainsDecide
CHECK_DEADLOCK FALSE
