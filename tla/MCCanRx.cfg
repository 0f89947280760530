SPECIFICATION FairSpec
CONSTANTS
  BoxSize = 3
  MaxFrames = 7
INVARIANTS TypeOK NodesOwnedOnce SemAccounting StaleOnlyAfterDrop
PROPERTIES BoxSpec Drains
CHECK_DEADLOCK FALSE
