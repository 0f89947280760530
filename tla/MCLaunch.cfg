SPECIFICATION Spec
CONSTANTS
  Lap = 8
  Feed = 3
  Sleep = 4
  Period = 2
  Ticks = 10
INVARIANTS TypeOK SetFolded FeedExact
PROPERTIES FireInterval
