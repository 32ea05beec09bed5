SPECIFICATION BlocksSpec
CONSTANTS
  MaxCid = 4
  MaxLinks = 2
INVARIANTS
  MissingAreExact
PROPERTY
  WalkEnds
CHECK_DEADLOCK FALSE
