SPECIFICATION Spec
CONSTANTS
  Lap = 8
  Limit <- MCLimit
  Still = 1
  Prepare <- MCPrepare
  Catch <- MCCatch
  Readings <- MCReadings
  CmdBytes = {32, 128}
  MaxMoves = 1
PROPERTY MovesKept
