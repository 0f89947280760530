SPECIFICATION FairSpec
CONSTANTS
  Lap = 8
  Limit <- MCLimit
  Still = 1
  Prepare <- MCPrepare
  Catch <- MCCatch
  Readings <- MCReadings
  CmdBytes = {32, 128}
  MaxMoves = 3
INVARIANTS TypeOK AppliedOnce OffsetBounded
PROPERTIES HomingCompletes HomeAtRest NewCommandOnlyWhenBothHome OnlyResetsEnd
