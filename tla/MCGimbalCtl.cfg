SPECIFICATION Spec
CONSTANTS
  Lap = 8
  Width = 32
  Every = 2
  PitchMin = 3
  PitchMax = 5
  Adds <- MCAdds
  MaxCalls = 2
  MaxFrames = 1
INVARIANTS TypeOK UsedOnce
PROPERTIES Honest ShortWay Settles
