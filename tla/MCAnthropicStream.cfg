SPECIFICATION Spec
CONSTANTS
  Letters = {"a", "b"}
  MaxText = 3
  MaxBlocks = 3
INVARIANTS
  TypeOK
  ClientFollows
  CumulativeTextIsExact
CHECK_DEADLOCK FALSE
