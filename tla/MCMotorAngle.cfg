SPECIFICATION AlignedSpec
CONSTANTS
  Lap = 8
  Half = 4
  Slack = 2
  Width = 64
  P = 1
  Q = 3
  MaxStep = 3
  MaxBase = 16
INVARIANTS TypeOK Tracks
PROPERTIES CounterSpec GearedContinuous
