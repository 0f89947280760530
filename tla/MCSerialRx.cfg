SPECIFICATION Spec
CONSTANTS
  BufSz = 16
  FrameLen = 3
  MqMax = 2
  MaxLag = 3
  MaxHeld = 12
  MaxLine = 30
  MaxParts = 3
INVARIANTS TypeOK NoneLeft PieceByPiece OnePiece
PROPERTIES QueueSpec
CHECK_DEADLOCK FALSE
