SPECIFICATION FairSpec
CONSTANTS
  Limit = 3
  Speeds = {1}
  SpinRate = 5
  BusSize = 1
INVARIANTS TypeOK UseLimited StopsInTime
PROPERTIES SilenceStops ModeArrives
