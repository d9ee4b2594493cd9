SPECIFICATION FairSpec
CONSTANTS
  NumGroups = 1
  Incs = 1
  QSize = 1
  Kinds = {"good", "fast"}
  MaxPoints = 3
  MaxStarts = 2
  MaxFaults = 1
INVARIANTS TypeOK StartsClean
PROPERTIES Continuous PointTaken
CHECK_DEADLOCK FALSE
