SPECIFICATION FairSpec
CONSTANTS
  Key = {"F"}
  Script <- MCScript
  Burst = 1
INVARIANTS TypeOK
PROPERTIES NoPhantom LatchSpec EventuallyReported
