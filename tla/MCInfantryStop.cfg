SPECIFICATION Spec
CONSTANTS
  Limit = 3
  Speeds = {1}
  SpinRate = 5
  BusSize = 1
PROPERTY StoppingNeverSpins
