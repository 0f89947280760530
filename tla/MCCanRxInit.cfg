SPECIFICATION Spec
CONSTANTS
  BoxSize = 3
  MaxFrames = 7
INVARIANT SemaphoreInitialised
CHECK_DEADLOCK FALSE
