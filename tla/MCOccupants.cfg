CONSTANTS
  MaxTurns = 2
  MaxFailures = 2
  MaxDeaths = 1
  MaxCrashes = 1
CHECK_DEADLOCK FALSE
SPECIFICATION FairSpec
INVARIANTS
  SeatIsSound
  ObligationsMatchTurns
PROPERTIES
  LiveSeatIsKept
  TurnsMoveOn
